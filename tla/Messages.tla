------------------------------ MODULE Messages ------------------------------
(***************************************************************************)
(* A message on its way between the two sides. It begins as a frame one    *)
(* side may send and becomes, byte by byte, what a peer of another         *)
(* version, or one that is no hostcmd, may send instead.                   *)
(***************************************************************************)
EXTENDS Protocol

CONSTANTS FromClient, FromServer,    \* bound: the frames a message begins as
          MaxEdits                   \* bound: how far it is from a frame

ASSUME FrameAssumption ==
    /\ FromClient \subseteq ClientFrames
    /\ FromServer \subseteq {f \in ServerFrames : Sendable(f)}

VARIABLES side,       \* the side that sends it
          frame,      \* the frame it began as
          message,    \* its bytes
          edits       \* changes made to it since

vars == <<side, frame, message, edits>>

Init ==
    /\ \/ side = "client" /\ frame \in FromClient
       \/ side = "server" /\ frame \in FromServer
    /\ message = Encode(side, frame) /\ edits = 0

Edit(b) ==
    /\ edits < MaxEdits /\ edits' = edits + 1
    /\ message' = b /\ UNCHANGED <<side, frame>>

Cut == message # <<>> /\ Edit(Front(message))
Extend == \E d \in Byte : Edit(Append(message, d))
Replace == \E i \in DOMAIN message : \E d \in Byte :
             d # message[i] /\ Edit([message EXCEPT ![i] = d])

Next == Cut \/ Extend \/ Replace

Spec == Init /\ [][Next]_vars

(* What one side sends is what the other side takes it for: every frame of *)
(* both sides, output framed in the buffer it was read into and negative   *)
(* exit codes included, decodes to itself.                                 *)
RoundTrip == edits = 0 => Decode(side, message) = {frame}

(* A message that decodes is, byte for byte, the encoding of what it       *)
(* decodes to: nothing in it is skipped, read twice or left over, however  *)
(* its tag, counts and lengths were changed. (A decoder takes chunks that  *)
(* are larger than any the server sends.)                                  *)
Canonical ==
    \A f \in Decode(side, message) :
        Sendable(f) => Encode(side, f) = message

(* No message that was cut short decodes: of a frame each proper prefix is *)
(* an error, never a shorter frame.                                        *)
NoPrefixDecodes ==
    Decode(side, message) # {} =>
        \A i \in 0..Len(message) - 1 : Decode(side, SubSeq(message, 1, i)) = {}
=============================================================================
