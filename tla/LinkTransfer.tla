------------------------------ MODULE LinkTransfer ------------------------------
(***************************************************************************)
(* The synthetic links of the failure simulation: each transfer of a row   *)
(* sends its payload in chunks, each again after a loss while retries are  *)
(* left; a chunk that is given up does not stop the ones behind it.  The   *)
(* row's time is the slowest transfer's on independent links and all of    *)
(* them together through the gateway of the owner.                         *)
(*                                                                         *)
(* Time is counted in units in which a byte takes ByteTime.                *)
(***************************************************************************)
EXTENDS Integers, Sequences, FiniteSets, FiniteSetsExt, SequencesExt

CONSTANTS
  Payloads, ChunkBytes, MaximumRetries, Transfers, RoundTrip, ByteTime,
  Lossy        (* whether the profile of the row loses chunks              *)

LinkAssumption ==
  /\ Payloads \subseteq Nat \ {0} /\ ChunkBytes \in Nat \ {0} /\ MaximumRetries \in Nat
  /\ Transfers \in Nat \ {0} /\ RoundTrip \in Nat /\ ByteTime \in Nat \ {0}
  /\ Lossy \subseteq BOOLEAN

VARIABLES
  payload, lossy, (* of the row                                            *)
  chunk,      (* the chunk of the transfer at hand                         *)
  attempt,    (* how often it has been sent                                *)
  sent,       (* the transfer at hand: [complete, bytes, seconds, retries, attempts] *)
  transfers   (* the finished ones                                         *)
vars == <<payload, lossy, chunk, attempt, sent, transfers>>

Chunks(bytes) ==
  LET full == bytes \div ChunkBytes
      rest == bytes % ChunkBytes
  IN [k \in 1..full |-> ChunkBytes] \o (IF rest = 0 THEN <<>> ELSE <<rest>>)

SendTime(bytes) == RoundTrip + bytes * ByteTime
\* Mutant: a retry is counted as a whole chunk, the last one of a payload too.
ResentWholeChunks(bytes, k) == ChunkBytes

(* The bytes a retry of chunk k sends again.                               *)
Resent(bytes, k) == Chunks(bytes)[k]

Started(bytes) ==
  [complete |-> TRUE, bytes |-> bytes, seconds |-> SendTime(bytes), retries |-> 0, attempts |-> 0]

Sending == Len(transfers) < Transfers /\ chunk <= Len(Chunks(payload))

(* One attempt at a chunk: from the second on, its bytes are sent again.   *)
Send(lost) ==
  /\ Sending /\ (lost => lossy)
  /\ LET size == Resent(payload, chunk)
         again == IF attempt > 0 THEN 1 ELSE 0
         givenUp == lost /\ attempt = MaximumRetries
     IN /\ sent' = [complete |-> sent.complete /\ ~givenUp, bytes |-> sent.bytes + again * size,
                    seconds |-> sent.seconds + again * SendTime(size),
                    retries |-> sent.retries + again, attempts |-> sent.attempts + 1]
        /\ IF lost /\ ~givenUp THEN attempt' = attempt + 1 /\ chunk' = chunk
           ELSE attempt' = 0 /\ chunk' = chunk + 1
  /\ UNCHANGED <<payload, lossy, transfers>>

EndTransfer ==
  /\ Len(transfers) < Transfers /\ ~Sending
  /\ transfers' = Append(transfers, sent) /\ sent' = Started(payload) /\ chunk' = 1
  /\ UNCHANGED <<payload, lossy, attempt>>

Reported == Len(transfers) = Transfers /\ UNCHANGED vars

-------------------------------------------------------------------------------
(* The row of the link                                                     *)

SumOf(field(_)) == FoldLeft(LAMBDA sum, t : sum + field(t), 0, transfers)
CompletionSeconds(topology) ==
  CASE topology = "independent-links" -> Max({transfers[i].seconds : i \in DOMAIN transfers})
    [] topology = "shared-owner-gateway" -> SumOf(LAMBDA t : t.seconds)
AnalyticalSeconds(topology) ==
  CASE topology = "independent-links" -> SendTime(payload)
    [] topology = "shared-owner-gateway" -> SendTime(payload) * Transfers

Row ==
  [base |-> payload * Transfers, bytes |-> SumOf(LAMBDA t : t.bytes),
   retries |-> SumOf(LAMBDA t : t.retries), attempts |-> SumOf(LAMBDA t : t.attempts),
   complete |-> \A i \in DOMAIN transfers : transfers[i].complete,
   zeroLossError |-> [topology \in {"independent-links", "shared-owner-gateway"} |->
                        CompletionSeconds(topology) - AnalyticalSeconds(topology)]]

Init ==
  /\ payload \in Payloads /\ lossy \in Lossy /\ chunk = 1 /\ attempt = 0
  /\ sent = Started(payload) /\ transfers = <<>>
Next == (\E lost \in BOOLEAN : Send(lost)) \/ EndTransfer \/ Reported
Spec == Init /\ [][Next]_vars

-------------------------------------------------------------------------------
(* Properties                                                              *)

(* What a row reports adds up, whatever is lost: the chunks are the        *)
(* payload; every attempt is a chunk's first or a retry; each chunk is     *)
(* sent at most 1 + MaximumRetries times; the bytes beyond the payloads    *)
(* are those of the retries, none of them longer than a chunk; a transfer  *)
(* is incomplete only if it has spent the retries of a whole chunk; and    *)
(* without loss the simulated time is the analytical one.                  *)
TransferAccounted ==
  Len(transfers) = Transfers =>
    LET chunks == Chunks(payload)
        row == Row
    IN /\ FoldLeft(LAMBDA sum, size : sum + size, 0, chunks) = payload
       /\ \A k \in DOMAIN chunks : chunks[k] \in 1..ChunkBytes
       /\ row.attempts = Len(chunks) * Transfers + row.retries
       /\ row.attempts <= Len(chunks) * Transfers * (1 + MaximumRetries)
       /\ row.bytes - row.base <= row.retries * ChunkBytes
       /\ (row.bytes = row.base <=> row.retries = 0)
       /\ ~row.complete => row.retries >= MaximumRetries
       /\ row.retries = Len(chunks) * Transfers * MaximumRetries => row.bytes = row.base * (1 + MaximumRetries)
       /\ row.zeroLossError["independent-links"] <= row.zeroLossError["shared-owner-gateway"]
       /\ ~lossy => /\ row.complete /\ row.bytes = row.base
                    /\ \A topology \in DOMAIN row.zeroLossError : row.zeroLossError[topology] = 0
===============================================================================
