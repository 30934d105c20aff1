------------------------ MODULE ReportDeliveryProofs ------------------------
(***************************************************************************)
(* Theorems about report-agent for every number of calls, keys, operators, *)
(* crashes and failed transactions.  The argument: only the transaction    *)
(* that stores a report gives the right to deliver it; so a key has at     *)
(* most one delivering call, whose message and record are the only ones.   *)
(***************************************************************************)
EXTENDS ReportDelivery, TLAPS

\* The call has stored its report and has not ended.
Delivering == {"deliver", "bury", "record"}
Owns(c) == calls[c].pc \in Delivering

\* A report has one owner, and it is stored as long as the incident is there.
OneOwner ==
    /\ ~exists => reports = {}
    /\ \A c \in Calls : Owns(c) /\ exists => KeyOf(c) \in reports
    /\ \A c, d \in Calls : Owns(c) /\ Owns(d) /\ KeyOf(c) = KeyOf(d) => c = d

Untouched(k) == posts[k] = 0 /\ recorded[k] = "none"

\* Nothing is posted or recorded before the report is stored and delivered.
DeliveredLater ==
    /\ \A c \in Calls : At(c, "deliver") => Untouched(KeyOf(c))
    /\ \A k \in Keys : exists /\ k \notin reports => Untouched(k)

Answered == \A c \in Calls : At(c, "answered") /\ exists => KeyOf(c) \in reports

\* What a record with outcome o says of k.
Says(k, o) ==
    /\ o = "sent" => posts[k] = 1
    /\ o = "skipped" => posts[k] = 0 /\ (k \in unwanted \/ crossed)
    /\ o = "failed" => <<"deliver", k>> \in dlq

\* What is recorded is true, and so is what a call is about to record.
OutcomesTrue ==
    /\ \A k \in Keys : Says(k, recorded[k])
    /\ \A c \in Calls : At(c, "record") => Says(KeyOf(c), calls[c].outcome)
    /\ \A c \in Calls : At(c, "bury") => calls[c].outcome = "failed"

\* The file is what the operators wish unless one wrote over another's change.
WishKept == ~crossed => wish = config

Settled(k) == posts[k] > 0 \/ <<"deliver", k>> \in dlq \/ recorded[k] = "skipped"

\* NothingLostByFailures, with an owner in the place of any call that works.
OwnedOrSettled ==
    crashes = 0 /\ dbFaults = 0 =>
        \A k \in reports : Settled(k) \/ \E c \in Calls : Owns(c) /\ KeyOf(c) = k

IInv == /\ TypeOK
        /\ OneOwner /\ DeliveredLater /\ PostedAtMostOnce
        /\ Answered /\ OutcomesTrue /\ WishKept /\ OwnedOrSettled

-----------------------------------------------------------------------------
(* Lemmas about the state.                                                 *)

\* A call is a record with a step, a key and an outcome.
LEMMA CallShape ==
    ASSUME TypeOK, NEW c \in Calls
    PROVE  /\ calls[c] \in Call /\ calls[c].pc \in Pc
           /\ KeyOf(c) \in Keys /\ calls[c].outcome \in Outcome
    BY DEF TypeOK, Call, KeyOf

\* GoTo moves one call and leaves the keys and the outcomes of all.
LEMMA Moves ==
    ASSUME TypeOK, NEW c \in Calls, NEW pc \in Pc, GoTo(c, pc)
    PROVE  /\ calls' \in [Calls -> Call]
           /\ calls'[c].pc = pc
           /\ \A d \in Calls : /\ calls'[d].key = calls[d].key
                               /\ calls'[d].outcome = calls[d].outcome
                               /\ d # c => calls'[d].pc = calls[d].pc
    BY DEF TypeOK, GoTo, Call

\* The invariant holds at the start.
LEMMA InitOK == Init => IInv
    <1> SUFFICES ASSUME Init PROVE IInv
        OBVIOUS
    <1> USE ReportAssumption DEF Init
    <1>1. \A c \in Calls : calls[c] \in {[pc |-> "new", key |-> k, outcome |-> "none"] : k \in Keys}
        OBVIOUS
    <1>4. calls \in [Calls -> Call]
        BY <1>1 DEF Call, Pc, Outcome
    <1>2. TypeOK
        <2>1. 0 \in 0 .. MaxSaves /\ 0 \in 0 .. MaxDeletes /\ 0 \in 0 .. MaxCrashes
              /\ 0 \in 0 .. MaxDbFaults
            BY DEF ReportAssumption
        <2>2. config \in Settings /\ Complete(config) /\ wish \in Settings
            OBVIOUS
        <2>3. recorded \in [Keys -> Outcome] /\ posts \in [Keys -> Nat]
            BY DEF Outcome
        <2>4. \A c \in Calls : calls[c].pc \notin {"bury", "record"}
            BY <1>1
        <2>5. /\ \A w \in Writers : view[w] = NotLoaded
              /\ reports = {} /\ dlq = {} /\ unwanted = {} /\ exists = TRUE /\ crossed = FALSE
              /\ saves = 0 /\ deletes = 0 /\ crashes = 0 /\ dbFaults = 0
            OBVIOUS
        <2> HIDE DEF Init
        <2> QED BY <1>4, <2>1, <2>2, <2>3, <2>4, <2>5 DEF TypeOK
    <1>3. \A c \in Calls : calls[c].pc = "new"
        BY <1>1
    <1> QED
        BY <1>2, <1>3
        DEF IInv, OneOwner, DeliveredLater, PostedAtMostOnce, Answered, OutcomesTrue,
            WishKept, OwnedOrSettled, Owns, Delivering, At, KeyOf, Untouched, Says

-----------------------------------------------------------------------------
(* Steps that touch neither reports nor posts.                             *)

\* A call that owns nothing, or that fails, goes on or ends; dead letters grow.
LEMMA QuietKeeps ==
    ASSUME IInv, NEW c \in Calls, NEW pc \in Pc \ Delivering, GoTo(c, pc),
           pc = "answered" /\ exists => KeyOf(c) \in reports,
           crashes' = 0 /\ dbFaults' = 0 => ~Owns(c) \/ ~exists,
           crashes' \in 0 .. MaxCrashes, dbFaults' \in 0 .. MaxDbFaults,
           crashes' >= crashes, dbFaults' >= dbFaults,
           dlq \subseteq dlq', dlq' \subseteq {"fetch", "deliver"} \X Keys,
           UNCHANGED <<exists, settings, reports, recorded, posts, unwanted, saves, deletes>>
    PROVE  IInv'
    <1> USE DEF IInv
    <1> TypeOK OBVIOUS
    <1>0. pc \in Pc OBVIOUS
    <1>1. /\ calls' \in [Calls -> Call]
          /\ calls'[c].pc = pc
          /\ \A d \in Calls : /\ calls'[d].key = calls[d].key
                              /\ calls'[d].outcome = calls[d].outcome
                              /\ d # c => calls'[d].pc = calls[d].pc
        BY <1>0, Moves
    <1> USE DEF settings
    <1>2. TypeOK'
        BY <1>1 DEF TypeOK, Delivering
    <1>3. OneOwner'
        BY <1>1 DEF OneOwner, Owns, KeyOf, Delivering
    <1>4. DeliveredLater'
        BY <1>1 DEF DeliveredLater, Untouched, At, KeyOf, Delivering
    <1>5. PostedAtMostOnce'
        BY DEF PostedAtMostOnce
    <1>6. Answered'
        BY <1>1 DEF Answered, At, KeyOf
    <1>7. OutcomesTrue'
        BY <1>1 DEF OutcomesTrue, Says, At, KeyOf, Delivering
    <1>8. WishKept'
        BY DEF WishKept
    <1>9. OwnedOrSettled'
        <2> SUFFICES ASSUME crashes' = 0, dbFaults' = 0, NEW k \in reports
                     PROVE  Settled(k)' \/ \E d \in Calls : Owns(d)' /\ KeyOf(d)' = k
            BY DEF OwnedOrSettled
        <2>1. crashes = 0 /\ dbFaults = 0
            BY DEF TypeOK
        <2>2. exists
            BY DEF OneOwner
        <2>3. Settled(k) \/ \E d \in Calls : Owns(d) /\ KeyOf(d) = k
            BY <2>1 DEF OwnedOrSettled
        <2> QED BY <1>1, <2>2, <2>3 DEF Settled, Owns, KeyOf
    <1> QED BY <1>2, <1>3, <1>4, <1>5, <1>6, <1>7, <1>8, <1>9

\* Store, or a store whose answer is lost: c becomes the owner, or ends.
LEMMA StoreKeeps ==
    ASSUME IInv, NEW c \in Calls, NEW pc \in {"deliver", "error"}, GoTo(c, pc),
           ~Owns(c), AppendReport(KeyOf(c)),
           pc = "error" => dbFaults' > 0,
           dbFaults' \in 0 .. MaxDbFaults, dbFaults' >= dbFaults,
           UNCHANGED <<exists, settings, recorded, dlq, posts, unwanted, saves, deletes, crashes>>
    PROVE  IInv'
    <1> USE DEF IInv
    <1> TypeOK OBVIOUS
    <1> DEFINE key == KeyOf(c)
    <1>0. pc \in Pc /\ key \in Keys
        BY CallShape DEF Pc
    <1>1. /\ calls' \in [Calls -> Call]
          /\ calls'[c].pc = pc
          /\ \A d \in Calls : /\ calls'[d].key = calls[d].key
                              /\ calls'[d].outcome = calls[d].outcome
                              /\ d # c => calls'[d].pc = calls[d].pc
        BY <1>0, Moves
    <1>a. key \notin reports /\ reports' = reports \cup {key} /\ exists /\ key = calls[c].key
        BY DEF AppendReport, KeyOf
    <1> HIDE DEF key
    <1> USE DEF settings
    <1>2. TypeOK'
        BY <1>0, <1>1, <1>a DEF TypeOK
    <1>3. OneOwner'
        BY <1>1, <1>a DEF OneOwner, Owns, KeyOf, Delivering
    <1>4. DeliveredLater'
        BY <1>0, <1>1, <1>a DEF DeliveredLater, Untouched, At, KeyOf
    <1>5. PostedAtMostOnce'
        BY DEF PostedAtMostOnce
    <1>6. Answered'
        BY <1>1, <1>a DEF Answered, At, KeyOf
    <1>7. OutcomesTrue'
        BY <1>1 DEF OutcomesTrue, Says, At, KeyOf
    <1>8. WishKept'
        BY DEF WishKept
    <1>9. OwnedOrSettled'
        <2> SUFFICES ASSUME crashes' = 0, dbFaults' = 0, NEW k \in reports'
                     PROVE  Settled(k)' \/ \E d \in Calls : Owns(d)' /\ KeyOf(d)' = k
            BY DEF OwnedOrSettled
        <2>1. crashes = 0 /\ dbFaults = 0 /\ pc = "deliver"
            BY DEF TypeOK
        <2>2. CASE k = key
            BY <1>1, <1>a, <2>1, <2>2 DEF Owns, KeyOf, Delivering
        <2>3. CASE k \in reports
            <3>1. Settled(k) \/ \E d \in Calls : Owns(d) /\ KeyOf(d) = k
                BY <2>1, <2>3 DEF OwnedOrSettled
            <3> QED BY <1>1, <3>1 DEF Settled, Owns, KeyOf
        <2> QED BY <1>a, <2>2, <2>3
    <1> QED BY <1>2, <1>3, <1>4, <1>5, <1>6, <1>7, <1>8, <1>9

-----------------------------------------------------------------------------
(* Steps of the owner.                                                     *)

\* The owner posts, or skips, or fails: nobody else has posted or recorded its key.
LEMMA DeliverKeeps ==
    ASSUME IInv, NEW c \in Calls, Deliver(c) \/ DeliverFails(c)
    PROVE  IInv'
    <1> USE DEF IInv
    <1> TypeOK OBVIOUS
    <1> DEFINE key == KeyOf(c)
               out == calls'[c].outcome
    <1>0. key \in Keys /\ calls[c] \in Call /\ key = calls[c].key /\ calls[c].pc = "deliver"
        BY CallShape DEF KeyOf, Deliver, DeliverFails, At
    <1>1. /\ calls' \in [Calls -> Call]
          /\ calls'[c].pc = (IF out = "failed" THEN "bury" ELSE "record")
          /\ out \in {"sent", "skipped", "failed"}
          /\ \A d \in Calls : /\ calls'[d].key = calls[d].key
                              /\ d # c => calls'[d] = calls[d]
        <2>1. CASE Deliver(c)
            BY <1>0, <2>1 DEF Deliver, TypeOK, Call, Pc, Outcome
        <2>2. CASE DeliverFails(c)
            BY <1>0, <2>2 DEF DeliverFails, TypeOK, Call, Pc, Outcome
        <2> QED BY <2>1, <2>2
    <1>a. /\ out = "sent" => posts' = [posts EXCEPT ![key] = @ + 1]
          /\ out = "skipped" => posts' = posts /\ ~config.enabled
          /\ posts' = posts \/ posts' = [posts EXCEPT ![key] = @ + 1]
          /\ unwanted' = IF wish.enabled THEN unwanted ELSE unwanted \cup {key}
        <2>1. CASE Deliver(c)
            BY <1>0, <2>1 DEF Deliver, Due, Reaches, TypeOK
        <2>2. CASE DeliverFails(c)
            BY <1>0, <2>2 DEF DeliverFails, Due, Reaches, TypeOK
        <2> QED BY <2>1, <2>2
    <1>b. UNCHANGED <<exists, settings, stored, bounds>>
        BY DEF Deliver, DeliverFails
    <1>c. posts[key] = 0 /\ recorded[key] = "none"
        BY <1>0 DEF DeliveredLater, Untouched, At, KeyOf
    <1>d. \A d \in Calls : Owns(d) /\ calls[d].key = key => d = c
        BY <1>0 DEF OneOwner, Owns, KeyOf, Delivering
    <1>e. exists => key \in reports
        BY <1>0 DEF OneOwner, Owns, KeyOf, Delivering
    <1>f. posts' \in [Keys -> Nat] /\ \A k \in Keys : k # key => posts'[k] = posts[k]
        BY <1>0, <1>a DEF TypeOK
    <1>g. posts'[key] \in {0, 1} /\ (out = "sent" => posts'[key] = 1)
          /\ (out = "skipped" => posts'[key] = 0)
        BY <1>0, <1>a, <1>c DEF TypeOK
    <1> HIDE DEF key, out
    <1> USE <1>b DEF settings, stored, bounds
    <1>2. TypeOK'
        <2>1. unwanted' \subseteq Keys
            BY <1>0, <1>a DEF TypeOK
        <2>2. \A d \in Calls : calls'[d].pc \in {"bury", "record"} => calls'[d].outcome # "none"
            BY <1>1 DEF TypeOK, out
        <2> QED BY <1>1, <1>f, <2>1, <2>2 DEF TypeOK
    <1>3. OneOwner'
        BY <1>0, <1>1 DEF OneOwner, Owns, KeyOf, Delivering
    <1>4. DeliveredLater'
        <2>1. ASSUME NEW d \in Calls, At(d, "deliver")'
              PROVE  Untouched(KeyOf(d))'
            <3>1. d # c /\ calls'[d] = calls[d] /\ calls[d].pc = "deliver"
                BY <1>1, <2>1 DEF At
            <3>2. calls[d].key # key /\ calls[d].key \in Keys
                BY <1>d, <3>1, CallShape DEF Owns, Delivering, KeyOf
            <3> QED BY <1>f, <3>1, <3>2 DEF DeliveredLater, Untouched, At, KeyOf
        <2>2. ASSUME NEW k \in Keys, exists', k \notin reports'
              PROVE  Untouched(k)'
            BY <1>e, <1>f, <2>2 DEF DeliveredLater, Untouched
        <2> QED BY <2>1, <2>2 DEF DeliveredLater
    <1>5. PostedAtMostOnce'
        BY <1>f, <1>g DEF PostedAtMostOnce
    <1>6. Answered'
        BY <1>1 DEF Answered, At, KeyOf
    <1>7. OutcomesTrue'
        <2>1. ASSUME NEW k \in Keys
              PROVE  Says(k, recorded[k])'
            <3>1. Says(k, recorded[k])
                BY DEF OutcomesTrue
            <3>2. unwanted \subseteq unwanted'
                BY <1>a
            <3>3. k # key => posts'[k] = posts[k]
                BY <1>f
            <3> QED BY <1>c, <3>1, <3>2, <3>3 DEF Says
        <2>2. ASSUME NEW d \in Calls, At(d, "record")'
              PROVE  Says(KeyOf(d), calls[d].outcome)'
            <3>1. CASE d = c
                <4>1. KeyOf(d)' = key /\ out # "failed" /\ calls'[d].outcome = out
                    BY <1>0, <1>1, <2>2, <3>1 DEF At, KeyOf, out
                <4>2. out = "skipped" => key \in unwanted' \/ crossed
                    BY <1>a DEF WishKept
                <4> QED BY <1>g, <4>1, <4>2 DEF Says
            <3>2. CASE d # c
                <4>1. calls'[d] = calls[d] /\ calls[d].pc = "record"
                    BY <1>1, <2>2, <3>2 DEF At
                <4>2. calls[d].key # key /\ calls[d].key \in Keys
                    BY <1>d, <3>2, <4>1, CallShape DEF Owns, Delivering, KeyOf
                <4>3. Says(calls[d].key, calls[d].outcome)
                    BY <4>1 DEF OutcomesTrue, At, KeyOf
                <4>4. unwanted \subseteq unwanted'
                    BY <1>a
                <4> QED BY <1>f, <4>1, <4>2, <4>3, <4>4 DEF Says, KeyOf
            <3> QED BY <3>1, <3>2
        <2>3. ASSUME NEW d \in Calls, At(d, "bury")'
              PROVE  calls'[d].outcome = "failed"
            BY <1>1, <2>3 DEF OutcomesTrue, At, out
        <2> QED BY <2>1, <2>2, <2>3 DEF OutcomesTrue
    <1>8. WishKept'
        BY DEF WishKept
    <1>9. OwnedOrSettled'
        <2> SUFFICES ASSUME crashes' = 0, dbFaults' = 0, NEW k \in reports'
                     PROVE  Settled(k)' \/ \E d \in Calls : Owns(d)' /\ KeyOf(d)' = k
            BY DEF OwnedOrSettled
        <2>1. Settled(k) \/ \E d \in Calls : Owns(d) /\ KeyOf(d) = k
            BY DEF OwnedOrSettled
        <2>2. \A d \in Calls : Owns(d) => Owns(d)'
            BY <1>1 DEF Owns, Delivering
        <2>3. Settled(k) => Settled(k)'
            <3>1. k \in Keys
                BY DEF TypeOK
            <3>2. posts[k] > 0 => posts'[k] > 0
                BY <1>c, <1>f, <3>1 DEF TypeOK
            <3> QED BY <3>2 DEF Settled
        <2> QED BY <1>1, <2>1, <2>2, <2>3 DEF KeyOf
    <1> QED BY <1>2, <1>3, <1>4, <1>5, <1>6, <1>7, <1>8, <1>9

\* A failed delivery becomes a dead letter and is recorded next.
LEMMA BuryKeeps ==
    ASSUME IInv, NEW c \in Calls, BuryDelivery(c)
    PROVE  IInv'
    <1> USE DEF IInv
    <1> TypeOK OBVIOUS
    <1> DEFINE key == KeyOf(c)
    <1>0. key \in Keys /\ key = calls[c].key /\ calls[c].pc = "bury" /\ "record" \in Pc
        BY CallShape DEF KeyOf, BuryDelivery, At, Pc
    <1>1. /\ calls' \in [Calls -> Call]
          /\ calls'[c].pc = "record"
          /\ \A d \in Calls : /\ calls'[d].key = calls[d].key
                              /\ calls'[d].outcome = calls[d].outcome
                              /\ d # c => calls'[d].pc = calls[d].pc
        BY <1>0, Moves DEF BuryDelivery
    <1>a. dlq' = dlq \cup {<<"deliver", key>>}
        BY DEF BuryDelivery, Bury
    <1>b. UNCHANGED <<exists, settings, reports, recorded, posts, unwanted, bounds>>
        BY DEF BuryDelivery
    <1> HIDE DEF key
    <1> USE <1>b DEF settings, bounds
    <1>2. TypeOK'
        <2>1. dlq' \subseteq {"fetch", "deliver"} \X Keys
            BY <1>0, <1>a DEF TypeOK
        <2>2. \A d \in Calls : calls'[d].pc \in {"bury", "record"} => calls'[d].outcome # "none"
            BY <1>0, <1>1 DEF TypeOK
        <2> QED BY <1>1, <2>1, <2>2 DEF TypeOK
    <1>3. OneOwner'
        BY <1>0, <1>1 DEF OneOwner, Owns, KeyOf, Delivering
    <1>4. DeliveredLater'
        BY <1>1 DEF DeliveredLater, Untouched, At, KeyOf
    <1>5. PostedAtMostOnce'
        BY DEF PostedAtMostOnce
    <1>6. Answered'
        BY <1>1 DEF Answered, At, KeyOf
    <1>7. OutcomesTrue'
        <2>1. \A k \in Keys : Says(k, recorded[k])'
            BY <1>a DEF OutcomesTrue, Says
        <2>2. ASSUME NEW d \in Calls, At(d, "record")'
              PROVE  Says(KeyOf(d), calls[d].outcome)'
            <3>1. CASE d = c
                <4>1. calls[c].outcome = "failed"
                    BY <1>0 DEF OutcomesTrue, At
                <4> QED BY <1>0, <1>1, <1>a, <3>1, <4>1 DEF Says, KeyOf
            <3>2. CASE d # c
                BY <1>1, <1>a, <2>2, <3>2 DEF OutcomesTrue, Says, At, KeyOf
            <3> QED BY <3>1, <3>2
        <2>3. \A d \in Calls : At(d, "bury")' => calls'[d].outcome = "failed"
            BY <1>1 DEF OutcomesTrue, At
        <2> QED BY <2>1, <2>2, <2>3 DEF OutcomesTrue
    <1>8. WishKept'
        BY DEF WishKept
    <1>9. OwnedOrSettled'
        <2>1. \A k : Settled(k) => Settled(k)'
            BY <1>a DEF Settled
        <2>2. \A d \in Calls : Owns(d) => Owns(d)' /\ KeyOf(d)' = KeyOf(d)
            BY <1>0, <1>1 DEF Owns, KeyOf, Delivering
        <2> QED BY <2>1, <2>2 DEF OwnedOrSettled
    <1> QED BY <1>2, <1>3, <1>4, <1>5, <1>6, <1>7, <1>8, <1>9

\* What the owner records is true, and it ends: its report is settled.
LEMMA RecordKeeps ==
    ASSUME IInv, NEW c \in Calls, NEW pc \in {"answered", "error"}, GoTo(c, pc),
           At(c, "record"), AppendDelivery(c),
           dbFaults' \in 0 .. MaxDbFaults, dbFaults' >= dbFaults,
           UNCHANGED <<exists, settings, reports, dlq, posts, unwanted, saves, deletes, crashes>>
    PROVE  IInv'
    <1> USE DEF IInv
    <1> TypeOK OBVIOUS
    <1> DEFINE key == KeyOf(c)
               out == calls[c].outcome
    <1>0. /\ key \in Keys /\ key = calls[c].key /\ calls[c].pc = "record" /\ pc \in Pc
          /\ out \in Outcome /\ out # "none"
        BY CallShape DEF KeyOf, At, Pc, TypeOK
    <1>1. /\ calls' \in [Calls -> Call]
          /\ calls'[c].pc = pc
          /\ \A d \in Calls : /\ calls'[d].key = calls[d].key
                              /\ calls'[d].outcome = calls[d].outcome
                              /\ d # c => calls'[d].pc = calls[d].pc
        BY <1>0, Moves
    <1>a. exists /\ recorded' = [recorded EXCEPT ![key] = out]
        BY DEF AppendDelivery
    <1>b. Says(key, out)
        BY <1>0 DEF OutcomesTrue, At
    <1>c. key \in reports
        BY <1>0, <1>a DEF OneOwner, Owns, KeyOf, Delivering
    <1>d. \A d \in Calls : Owns(d) /\ calls[d].key = key => d = c
        BY <1>0 DEF OneOwner, Owns, KeyOf, Delivering
    <1>e. recorded' \in [Keys -> Outcome] /\ recorded'[key] = out
          /\ \A k \in Keys : k # key => recorded'[k] = recorded[k]
        BY <1>0, <1>a DEF TypeOK
    <1> HIDE DEF key, out
    <1> USE DEF settings
    <1>2. TypeOK'
        BY <1>1, <1>e DEF TypeOK
    <1>3. OneOwner'
        BY <1>1 DEF OneOwner, Owns, KeyOf, Delivering
    <1>4. DeliveredLater'
        <2>1. ASSUME NEW d \in Calls, At(d, "deliver")'
              PROVE  Untouched(KeyOf(d))'
            <3>1. d # c /\ calls'[d].key = calls[d].key /\ calls[d].pc = "deliver"
                BY <1>1, <2>1 DEF At
            <3>2. calls[d].key # key /\ calls[d].key \in Keys
                BY <1>d, <3>1, CallShape DEF Owns, Delivering, KeyOf
            <3> QED BY <1>e, <3>1, <3>2 DEF DeliveredLater, Untouched, At, KeyOf
        <2>2. ASSUME NEW k \in Keys, exists', k \notin reports'
              PROVE  Untouched(k)'
            BY <1>c, <1>e, <2>2 DEF DeliveredLater, Untouched
        <2> QED BY <2>1, <2>2 DEF DeliveredLater
    <1>5. PostedAtMostOnce'
        BY DEF PostedAtMostOnce
    <1>6. Answered'
        BY <1>1, <1>0, <1>c DEF Answered, At, KeyOf
    <1>7. OutcomesTrue'
        <2>1. \A k \in Keys : Says(k, recorded[k])'
            BY <1>b, <1>e DEF OutcomesTrue, Says
        <2>2. \A d \in Calls : At(d, "record")' => Says(KeyOf(d), calls[d].outcome)'
            BY <1>1 DEF OutcomesTrue, Says, At, KeyOf
        <2>3. \A d \in Calls : At(d, "bury")' => calls'[d].outcome = "failed"
            BY <1>1 DEF OutcomesTrue, At
        <2> QED BY <2>1, <2>2, <2>3 DEF OutcomesTrue
    <1>8. WishKept'
        BY DEF WishKept
    <1>9. OwnedOrSettled'
        <2> SUFFICES ASSUME crashes' = 0, dbFaults' = 0, NEW k \in reports'
                     PROVE  Settled(k)' \/ \E d \in Calls : Owns(d)' /\ KeyOf(d)' = k
            BY DEF OwnedOrSettled
        <2>1. k \in Keys /\ crashes = 0 /\ dbFaults = 0
            BY DEF TypeOK
        <2>2. CASE k = key
            <3>1. out = "failed" => <<"deliver", k>> \in dlq
                BY <1>b, <2>2 DEF Says
            <3>2. out = "sent" => posts[k] > 0
                BY <1>b, <2>2 DEF Says
            <3> QED BY <1>0, <1>e, <2>2, <3>1, <3>2 DEF Settled, Outcome
        <2>3. CASE k # key
            <3>1. Settled(k) \/ \E d \in Calls : Owns(d) /\ KeyOf(d) = k
                BY <2>1 DEF OwnedOrSettled
            <3>2. Settled(k) => Settled(k)'
                BY <1>e, <2>1, <2>3 DEF Settled
            <3>3. \A d \in Calls : Owns(d) /\ calls[d].key = k => Owns(d)'
                BY <1>0, <1>1, <2>3 DEF Owns
            <3> QED BY <1>1, <3>1, <3>2, <3>3 DEF KeyOf
        <2> QED BY <2>2, <2>3
    <1> QED BY <1>2, <1>3, <1>4, <1>5, <1>6, <1>7, <1>8, <1>9

\* A transaction that fails, whether it was applied or not.
LEMMA FaultKeeps ==
    ASSUME IInv, NEW c \in Calls, TransactionFails(c)
    PROVE  IInv'
    <1> USE DEF IInv
    <1> TypeOK OBVIOUS
    <1>1. /\ dbFaults' = dbFaults + 1 /\ dbFaults' \in 0 .. MaxDbFaults /\ dbFaults' > 0
          /\ dbFaults' >= dbFaults /\ crashes \in 0 .. MaxCrashes /\ crashes >= crashes
          /\ UNCHANGED <<saves, deletes, crashes>>
        BY ReportAssumption DEF TransactionFails, DbFault, TypeOK, ReportAssumption
    <1>2. /\ GoTo(c, "error") /\ UNCHANGED <<exists, settings, posts, unwanted>>
          /\ calls[c].pc \in {"bury_fetch", "store", "bury", "record"}
          /\ KeyOf(c) \in Keys
        BY CallShape DEF TransactionFails
    <1>3. "error" \in Pc \ Delivering
        BY DEF Pc, Delivering
    <1>4. CASE UNCHANGED stored
        BY <1>1, <1>2, <1>3, <1>4, QuietKeeps DEF stored, TypeOK
    <1>5. CASE At(c, "store") /\ AppendReport(KeyOf(c)) /\ UNCHANGED <<recorded, dlq>>
        <2>1. ~Owns(c)
            BY <1>5 DEF Owns, Delivering, At
        <2> QED BY <1>1, <1>2, <1>5, <2>1, StoreKeeps
    <1>6. CASE At(c, "bury") /\ Bury("deliver", KeyOf(c)) /\ UNCHANGED <<reports, recorded>>
        <2>1. dlq \subseteq dlq' /\ dlq' \subseteq {"fetch", "deliver"} \X Keys
            BY <1>2, <1>6 DEF Bury, TypeOK
        <2> QED BY <1>1, <1>2, <1>3, <1>6, <2>1, QuietKeeps
    <1>7. CASE At(c, "record") /\ AppendDelivery(c) /\ UNCHANGED <<reports, dlq>>
        BY <1>1, <1>2, <1>7, RecordKeeps
    <1> QED BY <1>4, <1>5, <1>6, <1>7 DEF TransactionFails

-----------------------------------------------------------------------------
(* Steps of the environment and of the operators.                          *)

\* A restart ends calls and nothing else; what it loses is not promised.
LEMMA CrashKeeps ==
    ASSUME IInv, Crash
    PROVE  IInv'
    <1> USE DEF IInv
    <1> TypeOK OBVIOUS
    <1>1. /\ calls' \in [Calls -> Call]
          /\ \A c \in Calls : /\ calls'[c].key = calls[c].key
                              /\ calls'[c].pc = calls[c].pc \/ calls'[c].pc = "error"
                              /\ calls'[c].outcome = calls[c].outcome
        BY DEF Crash, TypeOK, Call, Pc
    <1>2. crashes' \in 0 .. MaxCrashes /\ crashes' # 0
        BY ReportAssumption DEF Crash, TypeOK, ReportAssumption
    <1>3. UNCHANGED <<exists, settings, stored, posts, unwanted, saves, deletes, dbFaults>>
        BY DEF Crash
    <1> USE <1>3 DEF settings, stored
    <1>4. TypeOK'
        BY <1>1, <1>2 DEF TypeOK
    <1>5. OneOwner'
        BY <1>1 DEF OneOwner, Owns, KeyOf, Delivering
    <1>6. DeliveredLater'
        BY <1>1 DEF DeliveredLater, Untouched, At, KeyOf
    <1>7. PostedAtMostOnce' /\ WishKept'
        BY DEF PostedAtMostOnce, WishKept
    <1>8. Answered'
        BY <1>1 DEF Answered, At, KeyOf
    <1>9. OutcomesTrue'
        BY <1>1 DEF OutcomesTrue, Says, At, KeyOf
    <1>10. OwnedOrSettled'
        BY <1>2 DEF OwnedOrSettled
    <1> QED BY <1>4, <1>5, <1>6, <1>7, <1>8, <1>9, <1>10

\* With the incident its reports and their records go.
LEMMA DeleteKeeps ==
    ASSUME IInv, DeleteIncident
    PROVE  IInv'
    <1> USE DEF IInv
    <1> TypeOK OBVIOUS
    <1>1. /\ exists' = FALSE /\ reports' = {} /\ recorded' = [k \in Keys |-> "none"]
          /\ deletes' \in 0 .. MaxDeletes
          /\ UNCHANGED <<calls, settings, posts, dlq, unwanted, saves, crashes, dbFaults>>
        BY ReportAssumption DEF DeleteIncident, TypeOK, ReportAssumption
    <1> USE <1>1 DEF settings
    <1>2. TypeOK'
        <2>1. recorded' \in [Keys -> Outcome]
            BY DEF Outcome
        <2> QED BY <2>1 DEF TypeOK
    <1>3. OneOwner'
        BY DEF OneOwner, Owns, KeyOf
    <1>4. DeliveredLater'
        <2>1. ASSUME NEW c \in Calls, At(c, "deliver")'
              PROVE  Untouched(KeyOf(c))'
            BY <2>1, CallShape DEF DeliveredLater, Untouched, At, KeyOf
        <2> QED BY <2>1 DEF DeliveredLater
    <1>5. PostedAtMostOnce' /\ WishKept' /\ Answered' /\ OwnedOrSettled'
        BY DEF PostedAtMostOnce, WishKept, Answered, OwnedOrSettled
    <1>6. OutcomesTrue'
        BY DEF OutcomesTrue, Says, At, KeyOf
    <1> QED BY <1>2, <1>3, <1>4, <1>5, <1>6

\* Until a writer crosses another, the file says what the operators wish.
LEMMA ConfigKeeps ==
    ASSUME IInv, NEW w \in Writers,
           LoadConfig(w) \/ \E change \in Change : SaveConfig(w, change)
    PROVE  IInv'
    <1> USE DEF IInv
    <1> TypeOK OBVIOUS
    <1>1. UNCHANGED <<calls, exists, stored, posts, unwanted, deletes, crashes, dbFaults>>
        BY DEF LoadConfig, SaveConfig, bounds
    <1>2. /\ config' \in Settings /\ Complete(config')
          /\ wish' \in Settings /\ crossed' \in BOOLEAN
          /\ crossed => crossed'
          /\ \A v \in Writers : view'[v] = NotLoaded \/ view'[v] \in Settings
          /\ saves' \in 0 .. MaxSaves
          /\ ~crossed' => wish' = config'
        <2>1. CASE LoadConfig(w)
            BY <2>1 DEF LoadConfig, TypeOK, WishKept, bounds
        <2>2. ASSUME NEW change \in Change, SaveConfig(w, change)
              PROVE  /\ config' \in Settings /\ Complete(config')
                     /\ wish' \in Settings /\ crossed' \in BOOLEAN
                     /\ crossed => crossed'
                     /\ \A v \in Writers : view'[v] = NotLoaded \/ view'[v] \in Settings
                     /\ saves' \in 0 .. MaxSaves
                     /\ ~crossed' => wish' = config'
            <3>1. \A s \in Settings : Merged(s, change) \in Settings
                BY DEF Merged, Settings, Change
            <3>2. view[w] \in Settings
                BY <2>2 DEF SaveConfig, TypeOK
            <3>3. /\ \A v \in Writers : view'[v] = NotLoaded \/ view'[v] \in Settings
                  /\ saves' \in 0 .. MaxSaves
                BY <2>2, ReportAssumption DEF SaveConfig, TypeOK, ReportAssumption
            <3>4. CASE UNCHANGED <<config, wish, crossed>>
                BY <3>3, <3>4 DEF TypeOK, WishKept
            <3>5. CASE /\ config' = Merged(view[w], change) /\ Complete(config')
                       /\ wish' = Merged(wish, change)
                       /\ crossed' = (crossed \/ view[w] # config)
                BY <3>1, <3>2, <3>3, <3>5 DEF TypeOK, WishKept
            <3> QED BY <2>2, <3>4, <3>5 DEF SaveConfig
        <2> QED BY <2>1, <2>2
    <1> USE <1>1 DEF stored
    <1>3. TypeOK'
        BY <1>2 DEF TypeOK
    <1>4. OneOwner' /\ DeliveredLater' /\ PostedAtMostOnce' /\ Answered' /\ OwnedOrSettled'
        BY DEF OneOwner, DeliveredLater, PostedAtMostOnce, Answered, OwnedOrSettled,
               Owns, At, KeyOf, Untouched, Settled
    <1>5. OutcomesTrue'
        BY <1>2 DEF OutcomesTrue, Says, At, KeyOf
    <1>6. WishKept'
        BY <1>2 DEF WishKept
    <1> QED BY <1>3, <1>4, <1>5, <1>6

-----------------------------------------------------------------------------
(* Every step, and the theorems.                                           *)

\* A handler's step is quiet, the storing one, or the owner's.
LEMMA HandleKeeps ==
    ASSUME IInv, NEW c \in Calls, Handle(c)
    PROVE  IInv'
    <1> USE DEF IInv
    <1> TypeOK OBVIOUS
    <1>1. /\ crashes \in 0 .. MaxCrashes /\ dbFaults \in 0 .. MaxDbFaults
          /\ crashes >= crashes /\ dbFaults >= dbFaults
          /\ dlq \subseteq {"fetch", "deliver"} \X Keys /\ dlq \subseteq dlq
          /\ KeyOf(c) \in Keys
        BY CallShape DEF TypeOK
    <1>2. {"new", "fetch", "bury_fetch", "store", "answered", "error"} \subseteq Pc \ Delivering
        BY DEF Pc, Delivering
    <1>3. \A pc \in Pc \ Delivering : At(c, pc) => ~Owns(c)
        BY DEF At, Owns
    <1>4. CASE LookUp(c)
        <2>1. PICK pc \in {"answered", "fetch"} :
                  GoTo(c, pc) /\ (pc = "answered" => KeyOf(c) \in reports)
            BY <1>4 DEF LookUp, AlreadyReported
        <2> QED BY <1>1, <1>2, <1>3, <1>4, <2>1, QuietKeeps DEF LookUp, stored, bounds
    <1>5. CASE FetchIncident(c)
        <2>1. PICK pc \in {"store", "error"} : GoTo(c, pc)
            BY <1>5 DEF FetchIncident
        <2> QED BY <1>1, <1>2, <1>3, <1>5, <2>1, QuietKeeps DEF FetchIncident, stored, bounds
    <1>6. CASE FetchFails(c)
        BY <1>1, <1>2, <1>3, <1>6, QuietKeeps DEF FetchFails, stored, bounds
    <1>7. CASE BuryFetch(c)
        <2>1. dlq \subseteq dlq' /\ dlq' \subseteq {"fetch", "deliver"} \X Keys
            BY <1>1, <1>7 DEF BuryFetch, Bury
        <2> QED BY <1>1, <1>2, <1>3, <1>7, <2>1, QuietKeeps DEF BuryFetch, bounds
    <1>8. CASE Store(c)
        BY <1>1, <1>2, <1>3, <1>8, StoreKeeps DEF Store, bounds
    <1>9. CASE StoreConflict(c)
        BY <1>1, <1>2, <1>3, <1>9, QuietKeeps DEF StoreConflict, AlreadyReported, stored, bounds
    <1>10. CASE StoreFindsNoIncident(c)
        BY <1>1, <1>2, <1>3, <1>10, QuietKeeps DEF StoreFindsNoIncident, stored, bounds
    <1>11. CASE Deliver(c) \/ DeliverFails(c)
        BY <1>11, DeliverKeeps
    <1>12. CASE BuryDelivery(c)
        BY <1>12, BuryKeeps
    <1>13. CASE RecordDelivery(c)
        BY <1>1, <1>13, RecordKeeps DEF RecordDelivery, bounds
    <1>14. CASE RecordFindsNoIncident(c)
        BY <1>1, <1>2, <1>14, QuietKeeps DEF RecordFindsNoIncident, stored, bounds
    <1> QED BY <1>4, <1>5, <1>6, <1>7, <1>8, <1>9, <1>10, <1>11, <1>12, <1>13, <1>14 DEF Handle

\* Every step keeps the invariant.
LEMMA NextOK == IInv /\ [Next]_vars => IInv'
    <1> SUFFICES ASSUME IInv, [Next]_vars PROVE IInv'
        OBVIOUS
    <1>1. CASE \E c \in Calls : Handle(c) \/ TransactionFails(c)
        BY <1>1, HandleKeeps, FaultKeeps
    <1>2. CASE \E w \in Writers : LoadConfig(w) \/ \E change \in Change : SaveConfig(w, change)
        BY <1>2, ConfigKeeps
    <1>3. CASE Crash
        BY <1>3, CrashKeeps
    <1>4. CASE DeleteIncident
        BY <1>4, DeleteKeeps
    <1>5. CASE UNCHANGED vars
        BY <1>5 DEF vars, settings, IInv, TypeOK, OneOwner, DeliveredLater, PostedAtMostOnce,
               Answered, OutcomesTrue, WishKept, OwnedOrSettled, Owns, At, KeyOf, Untouched,
               Says, Settled
    <1> QED BY <1>1, <1>2, <1>3, <1>4, <1>5 DEF Next

\* The invariant that the other theorems follow from.
THEOREM Invariance == Spec => []IInv
    BY InitOK, NextOK, PTL DEF Spec

\* Every variable has its shape, and an outcome is there before it is recorded.
THEOREM TypeCorrect == Spec => []TypeOK
    <1>1. IInv => TypeOK
        BY DEF IInv
    <1> QED BY <1>1, Invariance, PTL

\* The channel gets a report at most once, whatever is repeated or crashes.
THEOREM PostedOnce == Spec => []PostedAtMostOnce
    <1>1. IInv => PostedAtMostOnce
        BY DEF IInv
    <1> QED BY <1>1, Invariance, PTL

\* Records and answers of report-agent are true.
THEOREM RecordsAreTrue == Spec => []RecordIsTrue
    <1>1. IInv => RecordIsTrue
        BY DEF IInv, RecordIsTrue, Answered, OutcomesTrue, Says
    <1> QED BY <1>1, Invariance, PTL

\* Without a restart and a failed transaction no stored report is lost.
THEOREM NothingLost == Spec => []NothingLostByFailures
    <1>1. IInv => NothingLostByFailures
        BY DEF IInv, NothingLostByFailures, PostedOrBuried, OwnedOrSettled, Settled,
               Owns, Delivering, Working
    <1> QED BY <1>1, Invariance, PTL
=============================================================================
