---------------------------- MODULE ChunkQueues ----------------------------
(***************************************************************************)
(* What it means that a pipe, a channel or a socket holds the chunks of a  *)
(* stream that were put into it and not taken out: the vocabulary of the   *)
(* inductive invariants of the sessions. Chunks are numbered from 1.       *)
(***************************************************************************)
EXTENDS Integers, Sequences

(* What may be left of q when a connection is lost.                        *)
Prefixes(q) == {SubSeq(q, 1, i) : i \in 0..Len(q)}

(* The chunks of q are the ones that follow chunk b of their stream.       *)
Consecutive(q, b) == \A i \in 1..Len(q) : q[i] = b + i

(* m is a frame, or an event, with a chunk of stream s.                    *)
IsChunk(m, s) ==
    IF s = "stdin" THEN m.kind = "stdin" ELSE m.kind = "output" /\ m.stream = s

(* q carries the chunks of s after chunk a and up to chunk b, each of them *)
(* once and in their order, whatever else is between them.                 *)
Carries(q, s, a, b) ==
    /\ \A i \in 1..Len(q) : IsChunk(q[i], s) => q[i].n \in a + 1 .. b
    /\ \A i, j \in 1..Len(q) :
         IsChunk(q[i], s) /\ IsChunk(q[j], s) /\ i < j => q[i].n < q[j].n
    /\ \A k \in a + 1 .. b :
         \E i \in 1..Len(q) : IsChunk(q[i], s) /\ q[i].n = k

(* q begins to: of those chunks it carries some first ones.               *)
Begins(q, s, a, b) ==
    /\ \A i \in 1..Len(q) : IsChunk(q[i], s) => q[i].n \in a + 1 .. b
    /\ \A i, j \in 1..Len(q) :
         IsChunk(q[i], s) /\ IsChunk(q[j], s) /\ i < j => q[i].n < q[j].n
    /\ \A i \in 1..Len(q) : IsChunk(q[i], s) =>
         \A k \in a + 1 .. q[i].n - 1 :
           \E j \in 1..Len(q) : IsChunk(q[j], s) /\ q[j].n = k
=============================================================================
