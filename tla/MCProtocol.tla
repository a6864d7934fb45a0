----------------------------- MODULE MCProtocol -----------------------------
(***************************************************************************)
(* Frames of both sides for Messages: lists and strings that are empty,    *)
(* chunks of 1 byte to ChunkSize, and every exit code there is.            *)
(***************************************************************************)
EXTENDS Messages

Chunks == {<<1>>, <<0, Base - 1>>, [i \in 1..ChunkSize |-> i % Base]}

ClientSample ==
    {Exec(c, v, <<h, <<2>>, <<>> >>) :
        c \in {<<>>, << <<1>> >>, << <<2, 1>>, <<>> >>},
        v \in {<<>>, <<[name |-> <<1>>, value |-> <<>>]>>},
        h \in {<<>>, <<3>>}}
    \cup {Stdin(v) : v \in Chunks} \cup {Control("cancel"), Control("eof")}

ServerSample ==
    {Output(s, v) : s \in {"stdout", "stderr"}, v \in Chunks}
    \cup {Exit(n) : n \in -(Limit \div 2) .. Limit \div 2 - 1}
    \cup {Error(v) : v \in {<<>>, <<1>>, <<2, 0>>}}
=============================================================================
