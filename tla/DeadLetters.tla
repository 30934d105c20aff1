---------------------------- MODULE DeadLetters ----------------------------
(***************************************************************************)
(* The table dead_letter_queue: enqueue_dead_letter, by requests that      *)
(* failed, and run_dlq_worker, by workers that try the letters again.      *)
(* Both work on a row as they have read it, and a commit writes those      *)
(* columns only that have changed since.                                   *)
(***************************************************************************)
EXTENDS Integers

CONSTANTS
    Letters,      \* queue keys
    Clerks,       \* run_dlq_worker, of one process each
    Buriers,      \* requests that may fail
    LetterOf,     \* the queue key of each
    MaxRetries,   \* DLQ_MAX_RETRIES
    Unread        \* a request has not read the row

ASSUME LettersAssumption ==
    /\ LetterOf \in [Buriers -> Letters]
    /\ MaxRetries \in Nat \ {0}

VARIABLES
    row,      \* the table
    copy,     \* the row as a request has read it, or Unread
    held,     \* letters of each clerk's batch, with the retry_count it has read
    dead,     \* clerks whose loop has ended, or was never started
    owed,     \* history variable: letters buried since they were last settled
    crossed   \* history variable: letters buried from a row that was outdated

letterVars == <<row, copy, held, dead, owed, crossed>>

\* due: next_retry_at has passed, has not, or is NULL.  count: as far as matters.
Active == {"pending", "retrying"}
Row == [status : Active \cup {"absent", "processed", "failed"}, count : 0 .. MaxRetries,
        due : {"now", "later", "never"}]
Upto(n) == IF n > MaxRetries THEN MaxRetries ELSE n
NotHeld == -1

LettersInit(absent) ==
    /\ row = [k \in Letters |-> [status |-> "absent", count |-> 0, due |-> "never"]]
    /\ copy = [r \in Buriers |-> Unread]
    /\ held = [c \in Clerks |-> [k \in Letters |-> NotHeld]]
    /\ dead = absent
    /\ owed = {} /\ crossed = {}

-----------------------------------------------------------------------------
(* enqueue_dead_letter: select by queue_key, then insert or update.        *)

ReadLetter(r) ==
    /\ copy[r] = Unread
    /\ copy' = [copy EXCEPT ![r] = row[LetterOf[r]]]
    /\ UNCHANGED <<row, held, dead, owed, crossed>>

\* The status is written only where it was another than retrying; the count is
\* one more than was read, also for a letter that had been settled.
Again_AsItWas(seen, now) == [status |-> now.status, count |-> Upto(seen.count + 1), due |-> "later"]
Again(seen, now) == [status |-> IF seen.status = "retrying" THEN now.status ELSE "retrying",
                     count |-> Upto(seen.count + 1), due |-> "later"]
WriteLetter(r) ==
    LET k == LetterOf[r]
        seen == copy[r]
    IN /\ seen # Unread
       /\ IF seen.status # "absent"
          THEN /\ row' = [row EXCEPT ![k] = Again(seen, row[k])]
               /\ owed' = owed \cup {k}
               /\ crossed' = IF seen.status \in Active /\ row[k].status \notin Active
                             THEN crossed \cup {k} ELSE crossed \ {k}
          ELSE IF row[k].status = "absent"
          THEN /\ row' = [row EXCEPT ![k] = [status |-> "pending", count |-> 0, due |-> "later"]]
               /\ owed' = owed \cup {k}
               /\ UNCHANGED crossed
          ELSE UNCHANGED <<row, owed, crossed>>     \* IntegrityError: the request ends in 500
       /\ copy' = [copy EXCEPT ![r] = Unread]
       /\ UNCHANGED <<held, dead>>

-----------------------------------------------------------------------------
(* run_dlq_worker.                                                         *)

FallDue(k) ==
    /\ row[k].due = "later"
    /\ row' = [row EXCEPT ![k].due = "now"]
    /\ UNCHANGED <<copy, held, dead, owed, crossed>>

\* claim_dlq_items: next_retry_at stays, so that another clerk may claim the
\* letter too once this transaction is over.
Claimable_PendingOnly(k) == row[k].status = "pending" /\ row[k].due = "now"
Claimable(k) == row[k].status \in Active /\ row[k].due = "now"
Empty(c) == \A k \in Letters : held[c][k] = NotHeld
Claim(c) ==
    /\ c \notin dead /\ Empty(c)
    /\ \E k \in Letters : Claimable(k)
    /\ row' = [k \in Letters |-> IF Claimable(k) THEN [row[k] EXCEPT !.status = "retrying"] ELSE row[k]]
    /\ held' = [held EXCEPT ![c] = [k \in Letters |-> IF Claimable(k) THEN row[k].count ELSE NotHeld]]
    /\ UNCHANGED <<copy, dead, owed, crossed>>

Drop(c, k) == held' = [held EXCEPT ![c][k] = NotHeld]
Settle(k) == owed' = owed \ {k} /\ crossed' = crossed \ {k}

\* The processor has returned: mark_dlq_success.
MarkProcessed(c, k) ==
    /\ held[c][k] # NotHeld
    /\ row' = [row EXCEPT ![k] = [@ EXCEPT !.status = "processed", !.due = "never"]]
    /\ Drop(c, k)
    /\ Settle(k)
    /\ UNCHANGED <<copy, dead>>

\* It has raised: mark_dlq_failed, with the count that was read at the claim.
\* Only at the last retry is the status written.
MarkFailed(c, k) ==
    LET n == held[c][k] + 1 IN
    /\ held[c][k] # NotHeld
    /\ \/ /\ n >= MaxRetries
          /\ row' = [row EXCEPT ![k] = [status |-> "failed", count |-> MaxRetries, due |-> "never"]]
          /\ Settle(k)
       \/ /\ n < MaxRetries
          /\ row' = [row EXCEPT ![k] = [@ EXCEPT !.count = n, !.due = "later"]]
          /\ UNCHANGED <<owed, crossed>>
    /\ Drop(c, k)
    /\ UNCHANGED <<copy, dead>>

\* The database fails at the claim, or at the second mark; nothing catches it.
ClerkDies(c) ==
    /\ c \notin dead
    /\ dead' = dead \cup {c}
    /\ held' = [held EXCEPT ![c] = [k \in Letters |-> NotHeld]]
    /\ UNCHANGED <<row, copy, owed, crossed>>

ClerkStep(c) == Claim(c) \/ \E k \in Letters : MarkProcessed(c, k)

-----------------------------------------------------------------------------
LettersTypeOK ==
    /\ row \in [Letters -> Row]
    /\ copy \in [Buriers -> Row \cup {Unread}]
    /\ held \in [Clerks -> [Letters -> NotHeld .. MaxRetries]]
    /\ dead \subseteq Clerks
    /\ owed \subseteq Letters /\ crossed \subseteq Letters

\* A failure that was buried stays to be tried, and at some time, until a clerk
\* has processed the letter since or has given it up: though clerks may hold one
\* letter together, and write what they have read before.  The exception: a
\* request that has read the letter as active and writes it when a clerk has
\* settled it meanwhile leaves it settled.
LetterKept ==
    \A k \in owed \ crossed : row[k].status \in Active /\ row[k].due # "never"
=============================================================================
