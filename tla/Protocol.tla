------------------------------ MODULE Protocol ------------------------------
(***************************************************************************)
(* The wire format: how the frames of both sides become the bytes of a     *)
(* websocket message, and what each side makes of the bytes it is given.   *)
(* A byte is a digit of Base (256 in the code), an integer takes Width of  *)
(* them (4 in the code), most significant first. A string is a sequence of *)
(* bytes without those of NotText, which stand for bytes that no UTF-8     *)
(* text contains.                                                          *)
(*                                                                         *)
(* A step of the decoder maps the bytes that are left to the set of its    *)
(* outcomes, pairs of a value and the bytes left after it: the empty set   *)
(* is the error, and there is never more than one outcome.                 *)
(***************************************************************************)
EXTENDS Integers, Sequences, SequencesExt

CONSTANTS Base, Width, NotText,
          ChunkSize     \* CHUNK_SIZE: bytes one read of a pipe may return

Power[k \in Nat] == IF k = 0 THEN 1 ELSE Base * Power[k - 1]
Limit == Power[Width]

ASSUME FormatAssumption ==
    /\ Base \in Nat \ 0..4 /\ Width \in Nat \ {0}
    /\ NotText \subseteq 0..Base - 1
    /\ ChunkSize \in 1..Limit - 1

Byte == 0..Base - 1
IsText(v) == \A i \in 1..Len(v) : v[i] \notin NotText

(* Strings, variables and lists of them, whose length is a u32, and i32.   *)
Bytes == {v \in Seq(Byte) : Len(v) < Limit}
Texts == {v \in Bytes : IsText(v)}
Variables == [name : Texts, value : Texts]
Lists(S) == {q \in Seq(S) : Len(q) < Limit}
Codes == {n \in Int : -Limit <= 2 * n /\ 2 * n < Limit}

Exec(command, env, metadata) ==
    [kind |-> "exec", command |-> command, env |-> env, metadata |-> metadata]
Stdin(v) == [kind |-> "stdin", bytes |-> v]
Control(k) == [kind |-> k]
Output(s, v) == [kind |-> s, bytes |-> v]
Exit(c) == [kind |-> "exit", code |-> c]
Error(m) == [kind |-> "error", message |-> m]

(* What the two sides may send. A reader never sends more than ChunkSize.  *)
ClientFrames ==
    [kind : {"exec"}, command : Lists(Texts), env : Lists(Variables),
     metadata : {m \in Seq(Texts) : Len(m) = 3}]
    \cup [kind : {"stdin"}, bytes : Bytes] \cup [kind : {"cancel", "eof"}]

Sendable(f) == f.kind \in {"stdout", "stderr"} => Len(f.bytes) <= ChunkSize
ServerFrames ==
    [kind : {"stdout", "stderr"}, bytes : Bytes]
    \cup [kind : {"exit"}, code : Codes] \cup [kind : {"error"}, message : Texts]

(* The tags are the places in these sequences.                             *)
ClientTags == <<"exec", "cancel", "stdin", "eof">>
ServerTags == <<"stdout", "stderr", "exit", "error">>
Tag(tags, kind) == CHOOSE t \in DOMAIN tags : tags[t] = kind

-----------------------------------------------------------------------------
(* Encoding.                                                               *)

(* `n as u32`, and an i32 as its two's complement.                         *)
PutInt(n) == [i \in 1..Width |-> (n \div Power[Width - i]) % Base]
PutBytes(v) == PutInt(Len(v)) \o v
PutStrings(q) == FlattenSeq([i \in DOMAIN q |-> PutBytes(q[i])])
PutCommand(q) == PutInt(Len(q)) \o PutStrings(q)

PutVariable(x) == PutBytes(x.name) \o PutBytes(x.value)
PutEnv(q) == PutInt(Len(q)) \o FlattenSeq([i \in DOMAIN q |-> PutVariable(q[i])])

EncodeClient(f) ==
    <<Tag(ClientTags, f.kind)>> \o
    CASE f.kind = "exec" ->
           PutCommand(f.command) \o (PutEnv(f.env) \o PutStrings(f.metadata))
      [] f.kind = "stdin" -> PutBytes(f.bytes)
      [] f.kind \in {"cancel", "eof"} -> <<>>

HeaderSize == 1 + Width

(* put_byte_frame_header, into the front of a buffer.                      *)
PutHeader(buffer, kind, n) ==
    <<Tag(ServerTags, kind)>> \o PutInt(n)
        \o SubSeq(buffer, HeaderSize + 1, Len(buffer))

(* What one read of v leaves in the zeroed buffer of stream_reader.        *)
ReadBuffer(v) == [i \in 1..HeaderSize + ChunkSize |->
                    IF i - HeaderSize \in DOMAIN v THEN v[i - HeaderSize] ELSE 0]

(* Faulty: sends the whole buffer. *)
WholeBufferFrame(kind, v) == PutHeader(ReadBuffer(v), kind, Len(v))

(* A chunk of output is framed in the buffer it was read into.             *)
OutputFrame(kind, v) ==
    SubSeq(PutHeader(ReadBuffer(v), kind, Len(v)), 1, HeaderSize + Len(v))

EncodeServer(f) ==
    CASE f.kind \in {"stdout", "stderr"} -> OutputFrame(f.kind, f.bytes)
      [] f.kind = "exit" -> <<Tag(ServerTags, f.kind)>> \o PutInt(f.code)
      [] f.kind = "error" -> <<Tag(ServerTags, f.kind)>> \o PutBytes(f.message)

-----------------------------------------------------------------------------
(* Decoding.                                                               *)

TakeByte(b) == IF b = <<>> THEN {} ELSE {<<Head(b), Tail(b)>>}

Split(b, n) == <<SubSeq(b, 1, n), SubSeq(b, n + 1, Len(b))>>

Number(v) ==
    LET value[i \in 0..Len(v)] ==
          IF i = 0 THEN 0 ELSE Base * value[i - 1] + v[i]
    IN  value[Len(v)]
Signed(n) == IF 2 * n < Limit THEN n ELSE n - Limit
TakeInt(b) == IF Len(b) < Width THEN {}
              ELSE {<<Number(Split(b, Width)[1]), Split(b, Width)[2]>>}
TakeSigned(b) == {<<Signed(r[1]), r[2]>> : r \in TakeInt(b)}

(* Faulty: takes what there is. *)
TakeAtMost(n, b) == IF Len(b) < n THEN {<<b, <<>> >>} ELSE {Split(b, n)}

Take(n, b) == IF Len(b) < n THEN {} ELSE {Split(b, n)}

TakeBytes(b) == UNION {Take(r[1], r[2]) : r \in TakeInt(b)}
TakeString(b) == {r \in TakeBytes(b) : IsText(r[1])}

TakeVariable(b) ==
    UNION {{<<[name |-> n[1], value |-> r[1]], r[2]>> : r \in TakeString(n[2])} :
           n \in TakeString(b)}

(* The loop that reads n values, each by take, until one of them fails.    *)
TakeMany(take, n, b) ==
    LET taken[k \in 0..n] ==
          IF k = 0 THEN {<< <<>>, b >>}
          ELSE UNION {{<<Append(q[1], r[1]), r[2]>> : r \in take[q[2]]} :
                      q \in taken[k - 1]}
    IN  taken[n]

StringTaker == [b \in Seq(Byte) |-> TakeString(b)]
VariableTaker == [b \in Seq(Byte) |-> TakeVariable(b)]

(* The room the decoder reserves for a count before it reads the items is *)
(* left out: with a huge count that allocation may abort the process.      *)
TakeStrings(n, b) == TakeMany(StringTaker, n, b)
TakeCommand(b) == UNION {TakeStrings(r[1], r[2]) : r \in TakeInt(b)}
TakeEnv(b) == UNION {TakeMany(VariableTaker, r[1], r[2]) : r \in TakeInt(b)}

(* Faulty: does not look whether anything is left. *)
FinishAnyhow(outcomes) == {r[1] : r \in outcomes}

(* The decoder must be at the end of the message.                          *)
Finish(outcomes) == {r[1] : r \in {s \in outcomes : s[2] = <<>>}}

TakeExec(b) ==
    UNION {UNION {{<<Exec(c[1], v[1], m[1]), m[2]>> : m \in TakeStrings(3, v[2])} :
                  v \in TakeEnv(c[2])} :
           c \in TakeCommand(b)}

(* What follows a tag; any other tag is unknown.                           *)
TakeClientBody(t, b) ==
    CASE t = 1 -> TakeExec(b)
      [] t = 2 -> {<<Control("cancel"), b>>}
      [] t = 3 -> {<<Stdin(r[1]), r[2]>> : r \in TakeBytes(b)}
      [] t = 4 -> {<<Control("eof"), b>>}
      [] OTHER -> {}

TakeServerBody(t, b) ==
    CASE t \in {1, 2} -> {<<Output(ServerTags[t], r[1]), r[2]>> : r \in TakeBytes(b)}
      [] t = 3 -> {<<Exit(r[1]), r[2]>> : r \in TakeSigned(b)}
      [] t = 4 -> {<<Error(r[1]), r[2]>> : r \in TakeString(b)}
      [] OTHER -> {}

TakeClientFrame(b) == UNION {TakeClientBody(r[1], r[2]) : r \in TakeByte(b)}
TakeServerFrame(b) == UNION {TakeServerBody(r[1], r[2]) : r \in TakeByte(b)}
DecodeClient(b) == Finish(TakeClientFrame(b))
DecodeServer(b) == Finish(TakeServerFrame(b))

Encode(side, f) == IF side = "client" THEN EncodeClient(f) ELSE EncodeServer(f)
Decode(side, b) == IF side = "client" THEN DecodeClient(b) ELSE DecodeServer(b)
=============================================================================
