-------------------------------- MODULE Fetcher --------------------------------
(***************************************************************************)
(* fetchFromUrl of src/utils/fetcher.ts: one download under a 15 s abort   *)
(* timer and a cap on its size.  The server is the environment: it may     *)
(* answer late or never, announce any length or none, and send a body of   *)
(* another length, in chunks.  A body is abstracted to the bytes it holds. *)
(***************************************************************************)
EXTENDS Integers

CONSTANTS MAX_BYTES,
          Chunks,       \* sizes of a chunk of the body
          Lengths,      \* content-length headers; 0 stands for none
          MaxSent,      \* bound on what a server sends, for model checking
          Extracted     \* lengths of the file a gist API answer may hold

ASSUME FetcherAssumption ==
  /\ MAX_BYTES \in Nat /\ MaxSent \in Nat
  /\ Chunks \subseteq Nat /\ Lengths \subseteq Nat /\ Extracted \subseteq Nat

VARIABLES
  declared,  \* the length the server will announce
  fetchPc,        \* where the call is
  timer,     \* the abort timer
  sent,      \* bytes the server has sent of the body
  total,     \* bytes counted by readTextWithLimit
  buffered,  \* bytes held in chunks
  text,      \* length of the text so far
  reader     \* lock on the body

fetcherVars == <<declared, fetchPc, timer, sent, total, buffered, text, reader>>

FetcherInit ==
  /\ declared \in Lengths
  /\ fetchPc = "request" /\ timer = "armed" /\ reader = "none"
  /\ sent = 0 /\ total = 0 /\ buffered = 0 /\ text = 0

(* The definitions named ...Fault are plausible slips in the definition    *)
(* after them and show what a property would notice.                      *)

(* Every way out runs the finally blocks of the calls it leaves.           *)
leave(outcome) ==
  /\ fetchPc' = outcome
  /\ timer' = "cleared"
  /\ reader' = IF reader = "locked" THEN "released" ELSE reader

Expire ==
  /\ timer = "armed" /\ fetchPc # "text" /\ timer' = "fired"
  /\ UNCHANGED <<declared, fetchPc, sent, total, buffered, text, reader>>

AbortedFault ==  \* only the request itself listens to the signal
  /\ timer = "fired" /\ fetchPc = "request"
  /\ leave("failed")
  /\ UNCHANGED <<declared, sent, total, buffered, text>>

(* The signal aborts the request and, while the body is read, the reader.  *)
Aborted ==
  /\ timer = "fired" /\ fetchPc \in {"request", "body", "whole body"}
  /\ leave("failed")
  /\ UNCHANGED <<declared, sent, total, buffered, text>>

NetworkError ==
  /\ fetchPc \in {"request", "body", "whole body"}
  /\ leave("failed")
  /\ UNCHANGED <<declared, sent, total, buffered, text>>

(* A status that is not ok, whatever the length, or a length over the cap. *)
Refused ==
  /\ fetchPc = "request"
  /\ leave("failed")
  /\ UNCHANGED <<declared, sent, total, buffered, text>>

Answered ==
  /\ fetchPc = "request"
  /\ declared <= MAX_BYTES  \* whatever the body is
  /\ \/ fetchPc' = "body" /\ reader' = "locked"
     \/ fetchPc' = "whole body" /\ UNCHANGED reader    \* res.body is null
  /\ UNCHANGED <<declared, timer, sent, total, buffered, text>>

ChunkFault ==  \* the cap is checked once the body is complete
  /\ fetchPc = "body"
  /\ \E n \in Chunks :
       /\ sent + n <= MaxSent /\ sent' = sent + n
       /\ total' = total + n /\ buffered' = buffered + n
  /\ UNCHANGED <<declared, fetchPc, timer, text, reader>>

(* A chunk within the cap is kept.                                         *)
Chunk ==
  /\ fetchPc = "body"
  /\ \E n \in Chunks :
       /\ sent + n <= MaxSent /\ sent' = sent + n
       /\ total + n <= MAX_BYTES
       /\ total' = total + n /\ buffered' = buffered + n
  /\ UNCHANGED <<declared, fetchPc, timer, text, reader>>

(* The chunk that goes over it ends the call, cancelling the body.         *)
ChunkTooLarge ==
  /\ fetchPc = "body"
  /\ \E n \in Chunks :
       /\ sent + n <= MaxSent /\ sent' = sent + n
       /\ total + n > MAX_BYTES
       /\ total' = total + n
  /\ leave("failed")
  /\ UNCHANGED <<declared, buffered, text>>

EndOfBody ==
  /\ fetchPc = "body"
  /\ fetchPc' = "text" /\ text' = buffered
  /\ reader' = "released"
  /\ UNCHANGED <<declared, timer, sent, total, buffered>>

(* Without a stream the body arrives as one buffer.                        *)
WholeBody ==
  /\ fetchPc = "whole body"
  /\ \E n \in 0..MaxSent :
       /\ sent' = n
       /\ IF n > MAX_BYTES THEN leave("failed") /\ UNCHANGED text
          ELSE fetchPc' = "text" /\ text' = n /\ UNCHANGED <<timer, reader>>
  /\ UNCHANGED <<declared, total, buffered>>

(* The text is the first file of a gist answer if it is one, without a     *)
(* code fence around it, and is measured once more.                        *)
Deliver ==
  /\ fetchPc = "text"
  /\ \E n \in 0..text \cup Extracted : text' = n
  /\ leave(IF text' > MAX_BYTES THEN "failed" ELSE "delivered")
  /\ UNCHANGED <<declared, sent, total, buffered>>

Ended == fetchPc \in {"delivered", "failed"} /\ UNCHANGED fetcherVars

FetcherNext ==
  \/ Expire \/ Aborted \/ NetworkError \/ Refused \/ Answered \/ Chunk \/ ChunkTooLarge
  \/ EndOfBody \/ WholeBody \/ Deliver \/ Ended

(* The timer fires, an abort is delivered, and what has arrived is used;   *)
(* nothing makes the server send.                                          *)
FetcherSpec ==
  FetcherInit /\ [][FetcherNext]_fetcherVars /\ WF_fetcherVars(Expire) /\ WF_fetcherVars(Aborted) /\ WF_fetcherVars(Deliver)

--------------------------------------------------------------------------------

(* Every variable keeps its type.                                          *)
FetcherTypeOK ==
  /\ fetchPc \in {"request", "body", "whole body", "text", "delivered", "failed"}
  /\ declared \in Lengths
  /\ timer \in {"armed", "fired", "cleared"} /\ reader \in {"none", "locked", "released"}
  /\ {sent, total, text} \subseteq Nat
  /\ buffered <= total /\ total <= sent

(* However the server lies about the length of its answer or splits it, no *)
(* more than the cap is ever held, and none of it is delivered above it.   *)
CapHolds ==
  /\ FetcherTypeOK
  /\ buffered <= MAX_BYTES
  /\ fetchPc = "delivered" => text <= MAX_BYTES

(* The call ends even if the server stops sending at any point, and no way *)
(* out leaves the timer running or the body locked.                        *)
CallEnds ==
  <>(fetchPc \in {"delivered", "failed"} /\ timer = "cleared" /\ reader # "locked")
================================================================================
