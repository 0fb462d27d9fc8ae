------------------------------ MODULE Download ------------------------------
(***************************************************************************)
(* net/download.py and net/disk_space.py: the downloads of one pipeline    *)
(* pass the disk space gate, fetch with retries into a temporary file,     *)
(* validate it and rename it over the destination.                         *)
(*                                                                         *)
(* Bytes are counted in a coarse unit.  The gate's condition is only a     *)
(* wake-up call: notified or timed out, a waiter checks again under the    *)
(* lock, so Admit is that check.  What extraction writes and removes on    *)
(* the same disk is reserved nowhere; OthersUse is that.  A server never   *)
(* sends more than the manifest's size.                                    *)
(***************************************************************************)
EXTENDS Integers

CONSTANTS
  Downloads,
  Size,        \* download -> size of the intact bundle
  Required,    \* download -> the manifest's size
  Temporary,   \* downloads without a bundle cache directory
  MinFree,     \* MIN_FREE_DISK_BYTES, not 0: there is a gate
  MaxRetries,  \* DOWNLOAD_MAX_RETRIES
  Capacity     \* of the disk

ASSUME DownloadAssumption ==
  /\ Downloads # {} /\ Temporary \subseteq Downloads
  /\ Size \in [Downloads -> Nat \ {0}] /\ Required \in [Downloads -> Nat]
  /\ \A d \in Downloads : Required[d] >= Size[d]
  /\ MinFree \in Nat \ {0} /\ MaxRetries \in Nat \ {0} /\ Capacity \in Nat

Absent == -1

VARIABLES
  pc,          \* "gate", "request", "body", "backoff", "saved", "failed", "cancelled"
  attempt,     \* of download_deobfuscate_bundle
  body,        \* bytes the current response delivers
  announced,   \* its Content-Length, or Absent
  temp,        \* bytes in the temporary file, or Absent
  destination, \* "empty" (a reserved name), "old", "whole", "damaged", "none"
  reserved,    \* _reserved_bytes
  free,        \* of the file system
  disturbed    \* history: others took space while something was reserved

response == <<body, announced>>
vars == <<pc, attempt, response, temp, destination, reserved, free, disturbed>>

Ended == {"saved", "failed", "cancelled"}
Waiting == {"gate", "request", "body", "backoff"}

Init ==
  /\ pc = [d \in Downloads |-> "gate"] /\ attempt = [d \in Downloads |-> 0]
  /\ body = [d \in Downloads |-> 0] /\ announced = [d \in Downloads |-> Absent]
  /\ temp = [d \in Downloads |-> Absent]
  /\ destination \in [Downloads -> {"empty", "old", "none"}]
  /\ \A d \in Downloads : destination[d] = "empty" <=> d \in Temporary
  /\ reserved = 0 /\ free \in 0..Capacity /\ disturbed = FALSE
-----------------------------------------------------------------------------
(* The gate.                                                               *)

\* Mutant: the bytes others have reserved are not subtracted.
Mut_HasRoomGreedy(d) == free >= MinFree + Required[d]

HasRoom(d) == free - reserved >= MinFree + Required[d]

Admit(d) ==
  /\ pc[d] = "gate" /\ HasRoom(d)
  /\ reserved' = reserved + Required[d]
  /\ attempt' = [attempt EXCEPT ![d] = 1]
  /\ pc' = [pc EXCEPT ![d] = "request"]
  /\ UNCHANGED <<response, temp, destination, free, disturbed>>

\* Mutant: an unsuccessful download keeps its reservation.
Mut_ReleaseSaved(d) ==
  /\ reserved' = IF pc'[d] # "saved" THEN reserved ELSE reserved - Required[d]
  /\ disturbed' = (disturbed /\ reserved' > 0)

\* The exit of reserve's context, however the download ends.
Release(d) ==
  /\ reserved' = IF reserved > Required[d] THEN reserved - Required[d] ELSE 0
  /\ disturbed' = (disturbed /\ reserved' > 0)
-----------------------------------------------------------------------------
(* One attempt.                                                            *)

Discarded(d) == IF temp[d] = Absent THEN 0 ELSE temp[d]

\* The finally block of _write_download_response removes the temporary file; its unlink
\* is taken to succeed.
DiscardTemp(d) ==
  /\ temp' = [temp EXCEPT ![d] = Absent]
  /\ free' = free + Discarded(d)

\* An error or a cancellation leaves download_deobfuscate_bundle and the gate;
\* _download_one_item removes a reserved name, but no file of the bundle cache.
GiveUp(d, end) ==
  /\ pc' = [pc EXCEPT ![d] = end]
  /\ DiscardTemp(d)
  /\ IF pc[d] = "gate" THEN UNCHANGED <<reserved, disturbed>> ELSE Release(d)
  /\ destination' = [destination EXCEPT ![d] = IF d \in Temporary THEN "none" ELSE @]
  /\ UNCHANGED <<attempt, response>>

\* Status 200: mkstemp, and the body begins.
Accept(d) ==
  /\ pc[d] = "request"
  /\ pc' = [pc EXCEPT ![d] = "body"]
  /\ temp' = [temp EXCEPT ![d] = 0]
  /\ \E b \in 0..Size[d] : body' = [body EXCEPT ![d] = b]
  /\ \E n \in {Absent} \cup 0..Size[d] : announced' = [announced EXCEPT ![d] = n]
  /\ UNCHANGED <<attempt, destination, reserved, free, disturbed>>

Chunk(d) ==
  /\ pc[d] = "body" /\ temp[d] < body[d] /\ free > 0
  /\ temp' = [temp EXCEPT ![d] = @ + 1]
  /\ free' = free - 1
  /\ UNCHANGED <<pc, attempt, response, destination, reserved, disturbed>>

\* Mutant: the size that the UnityFS header declares is not compared.
Mut_ValidAnnounced(d) == temp[d] > 0 /\ announced[d] \in {Absent, temp[d]}

\* _validate_download_payload and validate_unityfs_bundle
Valid(d) ==
  /\ temp[d] > 0 /\ announced[d] \in {Absent, temp[d]}
  /\ temp[d] = Size[d]

\* fsync, validation and os.replace; then the gate is left.
Promote(d) ==
  /\ pc[d] = "body" /\ temp[d] = body[d] /\ Valid(d)
  /\ pc' = [pc EXCEPT ![d] = "saved"]
  /\ destination' = [destination EXCEPT ![d] = IF temp[d] = Size[d] THEN "whole" ELSE "damaged"]
  /\ temp' = [temp EXCEPT ![d] = Absent]
  /\ free' = free + (IF destination[d] = "old" THEN Size[d] ELSE 0)
  /\ Release(d)
  /\ UNCHANGED <<attempt, response>>

\* DownloadIntegrityError or OSError: a bad status, an invalid file, a full disk.
Reject(d) ==
  /\ \/ pc[d] = "request"
     \/ pc[d] = "body" /\ temp[d] = body[d] /\ ~Valid(d)
     \/ pc[d] = "body" /\ temp[d] < body[d] /\ free = 0
  /\ GiveUp(d, "failed")

\* A retryable status, a timeout or a broken connection, with an attempt left
Retry(d) ==
  /\ pc[d] \in {"request", "body"} /\ attempt[d] < MaxRetries
  /\ DiscardTemp(d)
  /\ pc' = [pc EXCEPT ![d] = "backoff"]
  /\ UNCHANGED <<attempt, response, destination, reserved, disturbed>>

\* ... and without one
Exhaust(d) ==
  /\ pc[d] \in {"request", "body"} /\ attempt[d] = MaxRetries
  /\ GiveUp(d, "failed")

\* _wait_for_download_retry returns.
NextAttempt(d) ==
  /\ pc[d] = "backoff"
  /\ pc' = [pc EXCEPT ![d] = "request"]
  /\ attempt' = [attempt EXCEPT ![d] = @ + 1]
  /\ UNCHANGED <<response, temp, destination, reserved, free, disturbed>>

Cancel(d) ==
  /\ pc[d] \in Waiting
  /\ GiveUp(d, "cancelled")

\* Extraction, uploads and other programs write to the disk and free space.
OthersUse ==
  /\ free' \in 0..Capacity /\ free' # free
  /\ disturbed' = (disturbed \/ (free' < free /\ reserved > 0))
  /\ UNCHANGED <<pc, attempt, response, temp, destination, reserved>>

Step(d) ==
  \/ Admit(d) \/ Accept(d) \/ Chunk(d) \/ Promote(d) \/ Reject(d)
  \/ Retry(d) \/ Exhaust(d) \/ NextAttempt(d)

Next == OthersUse \/ \E d \in Downloads : Step(d) \/ Cancel(d)

Spec == Init /\ [][Next]_vars

\* Waiters poll, requests time out, and backoffs are finite.
FairSpec == Spec /\ \A d \in Downloads : WF_vars(Step(d))
-----------------------------------------------------------------------------
(* Properties.                                                             *)

\* Types of the variables.
TypeOK ==
  /\ pc \in [Downloads -> Waiting \cup Ended]
  /\ attempt \in [Downloads -> 0..MaxRetries]
  /\ body \in [Downloads -> Nat]
  /\ announced \in [Downloads -> Int] /\ temp \in [Downloads -> Int]
  /\ \A d \in Downloads :
       /\ body[d] \in 0..Size[d] /\ announced[d] \in {Absent} \cup 0..Size[d]
       /\ temp[d] \in {Absent} \cup 0..Size[d]
  /\ destination \in [Downloads -> {"empty", "old", "whole", "damaged", "none"}]
  /\ reserved \in Nat /\ free \in Nat /\ disturbed \in BOOLEAN

\* MIN_FREE_DISK_BYTES is "minimum free disk space to keep": downloads running
\* together never eat into it, unless someone else took space after they were admitted.
FloorHeld ==
  [][\A d \in Downloads : temp'[d] > temp[d] /\ free' < free /\ ~disturbed =>
                            free' >= MinFree]_vars

\* The destination goes from what it was to a whole bundle in one step, and an ended
\* download leaves neither a temporary file nor a reserved name without content.
DestinationAtomic ==
  \A d \in Downloads :
    /\ destination[d] # "damaged"
    /\ pc[d] \in Ended => temp[d] = Absent /\ destination[d] # "empty"
    /\ pc[d] = "saved" <=> destination[d] = "whole"

\* Whenever nothing is reserved the disk has room for the largest bundle.
RoomReturns ==
  <>[](reserved = 0 => \A d \in Downloads : free >= MinFree + Required[d])

\* If room returns, no download waits for ever: not for the others' reservations, not
\* for retries of an ever failing server.
AllEnd == RoomReturns => <>(\A d \in Downloads : pc[d] \in Ended)
=============================================================================
