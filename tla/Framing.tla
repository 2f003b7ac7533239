------------------------------ MODULE Framing ------------------------------
(***************************************************************************)
(* One direction of a connection: goroutines that send frames with         *)
(* Response.Write (transport/response.go), the stream of bytes between, and*)
(* the goroutine that runs Socket.onRecv (transport/socket.go).            *)
(*                                                                         *)
(* On a client all calls write through the Response of one Socket and share*)
(* its lock.  On a server each request brings a Response of its own, so    *)
(* that only the lock inside the connection keeps their frames apart.      *)
(*                                                                         *)
(* The stream is made of units, each naming its frame and its place in it. *)
(* A header is its first HeaderUnits units; a reader that takes the header *)
(* of one frame learns its size, and refuses anything else (module Header).*)
(***************************************************************************)
EXTENDS Naturals, Sequences, FiniteSets

CONSTANTS Writers,      \* goroutines that call Write
          Responses,    \* Response values, each with its lock rw
          ResponseOf,   \* the one a writer writes through
          Sizes,        \* sizes of bodies
          HeaderUnits,  \* units of a header
          MaxMessage,   \* units that dataBuffer has room for
          Capacity,     \* units on their way at one time
          MaxFrames,    \* bound: the number of frames
          Deadline      \* whether the connection was accepted by a Listener

ASSUME FramingAssumption ==
  /\ ResponseOf \in [Writers -> Responses]
  /\ Sizes \subseteq Nat \ {0}
  /\ HeaderUnits \in Nat \ {0}
  /\ MaxMessage \in Nat
  /\ Capacity \in Nat \ {0}
  /\ MaxFrames \in Nat
  /\ Deadline \in BOOLEAN

VARIABLES
  wpc,        \* where each writer is in Write
  size,       \* the size of the body it writes
  sent,       \* frames in the order they enter the stream: size, and where
  frame,      \* which of them each writer puts into the stream
  put,        \* how many units of it are there
  stream,     \* every unit that was ever put
  conn,       \* open, closed by an end, or broken: a write has failed
  phase,      \* what onRecv reads
  want,       \* how many units it reads for: HeaderUnits or iMsgLength
  buf,        \* the units in headerBuffer or dataBuffer
  read,       \* units taken from the stream
  delivered,  \* the packets given to the callback
  cause       \* why onRecv returned

wvars == <<wpc, size, sent, frame, put, stream>>
rvars == <<phase, want, buf, read, delivered, cause>>
vars  == <<wvars, conn, rvars>>

Unit == Nat \X Nat

TypeOK ==
  /\ wpc \in [Writers -> {"idle", "lock", "write", "put"}]
  /\ size \in [Writers -> Nat]
  /\ sent \in Seq([size : Sizes, at : Nat])
  /\ frame \in [Writers -> Nat]
  /\ put \in [Writers -> Nat]
  /\ stream \in Seq(Unit)
  /\ conn \in {"open", "closed", "broken"}
  /\ phase \in {"header", "body", "ended"}
  /\ want \in Nat \ {0}
  /\ buf \in Seq(Unit) /\ Len(buf) <= want
  /\ read \in Nat /\ read <= Len(stream)
  /\ delivered \in Seq(Seq(Unit))
  /\ cause \in {"none", "closed", "deadline", "oversize", "refused"}

Init ==
  /\ wpc = [w \in Writers |-> "idle"]
  /\ size = [w \in Writers |-> 0]
  /\ sent = << >> /\ stream = << >>
  /\ frame = [w \in Writers |-> 0] /\ put = [w \in Writers |-> 0]
  /\ conn = "open"
  /\ phase = "header" /\ want = HeaderUnits /\ buf = << >> /\ read = 0
  /\ delivered = << >>
  /\ cause = "none"

(* The units of frame k, whose body has n.                                  *)
HeaderOf(k)  == [i \in 1 .. HeaderUnits |-> <<k, i>>]
BodyOf(k, n) == [i \in 1 .. n |-> <<k, HeaderUnits + i>>]

-----------------------------------------------------------------------------
(* Response.Write.  A packet without a byte is not written at all.          *)

Goto(w, l) == wpc' = [wpc EXCEPT ![w] = l]

Encode(w) ==
  /\ wpc[w] = "idle"
  /\ Len(sent) + Cardinality({v \in Writers : wpc[v] \in {"lock", "write"}}) < MaxFrames
  /\ \E n \in Sizes : size' = [size EXCEPT ![w] = n]
  /\ Goto(w, "lock")
  /\ UNCHANGED <<sent, frame, put, stream, conn, rvars>>

Lock(w) ==
  /\ wpc[w] = "lock"
  /\ \A v \in Writers : ResponseOf[v] = ResponseOf[w] => wpc[v] \notin {"write", "put"}
  /\ Goto(w, "write")
  /\ UNCHANGED <<size, sent, frame, put, stream, conn, rvars>>

(* Mutation of NetWrite: the frames of two writers meet in the stream.      *)
NetWriteMixed(w) ==
  /\ wpc[w] = "write" /\ conn # "broken"
  /\ sent' = Append(sent, [size |-> size[w], at |-> Len(stream)])
  /\ frame' = [frame EXCEPT ![w] = Len(sent) + 1]
  /\ put' = [put EXCEPT ![w] = 0]
  /\ Goto(w, "put")
  /\ UNCHANGED <<size, stream, conn, rvars>>

(* TCPConn.Write: one at a time on a connection.                            *)
NetWrite(w) ==
  /\ wpc[w] = "write" /\ conn # "broken"
  /\ \A v \in Writers : wpc[v] # "put"
  /\ sent' = Append(sent, [size |-> size[w], at |-> Len(stream)])
  /\ frame' = [frame EXCEPT ![w] = Len(sent) + 1]
  /\ put' = [put EXCEPT ![w] = 0]
  /\ Goto(w, "put")
  /\ UNCHANGED <<size, stream, conn, rvars>>

(* After the last unit Write returns, and gives back both locks.            *)
Put(w) ==
  /\ wpc[w] = "put" /\ conn # "broken"
  /\ Len(stream) - read < Capacity
  /\ stream' = Append(stream, <<frame[w], put[w] + 1>>)
  /\ put' = [put EXCEPT ![w] = @ + 1]
  /\ IF put[w] + 1 = HeaderUnits + size[w] THEN Goto(w, "idle") ELSE UNCHANGED wpc
  /\ UNCHANGED <<size, sent, frame, conn, rvars>>

(* Mutation of WriteFails: the loop goes on after an error.                 *)
WriteFailsAgain(w) ==
  /\ wpc[w] \in {"write", "put"} /\ conn # "open"
  /\ conn' = "broken"
  /\ UNCHANGED <<wvars, rvars>>

(* A write on a connection that an end has closed may fail, and then every  *)
(* later one does.                                                          *)
WriteFails(w) ==
  /\ wpc[w] \in {"write", "put"} /\ conn # "open"
  /\ wpc[w] = "write" => \A v \in Writers : wpc[v] # "put"
  /\ conn' = "broken"
  /\ Goto(w, "idle")
  /\ UNCHANGED <<size, sent, frame, put, stream, rvars>>

-----------------------------------------------------------------------------
(* Socket.onRecv.                                                           *)

Reading == phase \in {"header", "body"} /\ Len(buf) < want

Take(k) == /\ read' = read + k
           /\ buf' = buf \o SubSeq(stream, read + 1, read + k)
           /\ UNCHANGED <<phase, want, delivered, cause, wvars, conn>>

(* Mutation of Read: all that is wanted is expected at once.                *)
ReadWhole ==
  /\ Reading
  /\ want - Len(buf) <= Len(stream) - read /\ Take(want - Len(buf))

(* One call of readFromConnection: any part of what has come, as far as the *)
(* slice that it is given reaches.                                          *)
Read ==
  /\ Reading
  /\ \E k \in 1 .. Capacity :
       k <= Len(stream) - read /\ k <= want - Len(buf) /\ Take(k)

Return(c) == /\ phase' = "ended" /\ cause' = c
             /\ conn' = IF conn = "open" THEN "closed" ELSE conn
             /\ UNCHANGED <<want, buf, read, delivered, wvars>>

(* Mutation of ReadFails: the reader goes on after an error.                *)
ReadFailsAgain == Reading /\ conn # "open" /\ UNCHANGED vars

ReadFails    == Reading /\ conn # "open" /\ Return("closed")
ReadDeadline == Reading /\ Deadline /\ Return("deadline")

Genuine  == \E k \in 1 .. Len(sent) : buf = HeaderOf(k)
SizeIn   == sent[buf[1][1]].size

(* Decoder and Check; then, before the first read of a body, the slice of   *)
(* dataBuffer that reaches beyond its end: recovered, and the end.          *)
Decode ==
  /\ phase = "header" /\ Len(buf) >= want
  /\ IF ~ Genuine THEN Return("refused")
     ELSE IF SizeIn > MaxMessage THEN Return("oversize")
     ELSE /\ phase' = "body" /\ want' = SizeIn /\ buf' = << >>
          /\ UNCHANGED <<read, delivered, cause, wvars, conn>>

(* Mutation of Deliver: the first piece of the body is taken for all of it. *)
DeliverEarly ==
  /\ phase = "body" /\ buf # << >>
  /\ delivered' = Append(delivered, buf)
  /\ phase' = "header" /\ want' = HeaderUnits /\ buf' = << >>
  /\ UNCHANGED <<read, cause, wvars, conn>>

(* The callback gets a copy (recvData), as dataBuffer takes the next body;  *)
(* packets are values here, so that the copy is taken for granted.          *)
Deliver ==
  /\ phase = "body" /\ Len(buf) >= want
  /\ delivered' = Append(delivered, SubSeq(buf, 1, want))
  /\ phase' = "header" /\ want' = HeaderUnits /\ buf' = << >>
  /\ UNCHANGED <<read, cause, wvars, conn>>

(* Either end closes the connection: Socket.Close, pool.destroy, a process  *)
(* that is gone.                                                            *)
Close == conn = "open" /\ conn' = "closed" /\ UNCHANGED <<wvars, rvars>>

Next ==
  \/ \E w \in Writers :
       Encode(w) \/ Lock(w) \/ NetWrite(w) \/ Put(w) \/ WriteFails(w)
  \/ Read \/ ReadFails \/ ReadDeadline \/ Decode \/ Deliver
  \/ Close

Spec == Init /\ [][Next]_vars

(* The locks are fair: a sync.Mutex hands itself to a writer that has       *)
(* waited, and so does the lock of a connection.  The network moves what it *)
(* has been given, or reports that it cannot.                               *)
Fairness ==
  /\ \A w \in Writers : /\ SF_vars(Lock(w))
                        /\ SF_vars(NetWrite(w) \/ (wpc[w] = "write" /\ WriteFails(w)))
                        /\ WF_vars(Put(w) \/ WriteFails(w))
  /\ WF_vars(Read \/ ReadFails) /\ WF_vars(Decode) /\ WF_vars(Deliver)

FairSpec == Spec /\ Fairness
-----------------------------------------------------------------------------
(* Every packet that the callback gets is the body of a frame, whole, and   *)
(* they come in the order in which they were sent, however the stream was   *)
(* cut and however many goroutines wrote to it (onRecv, Write).             *)
StreamIntact ==
  \A d \in 1 .. Len(delivered) :
    d <= Len(sent) /\ delivered[d] = BodyOf(d, sent[d].size)

(* A reader never refuses what a writer of this framework has sent, and it  *)
(* gives up a connection for a size only when the frame that is next is one *)
(* that its buffer has no room for (header.Check, the recover of onRecv).   *)
NoFalseAlarm ==
  /\ cause # "refused"
  /\ cause = "oversize" => /\ Len(delivered) < Len(sent)
                           /\ sent[Len(delivered) + 1].size > MaxMessage

(* A connection is the channel of frames that its users take it for.        *)
FrameOf(p) ==
  IF \E k \in 1 .. Len(sent) : p = BodyOf(k, sent[k].size) THEN p[1][1] ELSE 0

Offered == [k \in 1 .. Len(sent) |-> sent[k].size]
Arrived == [d \in 1 .. Len(delivered) |-> FrameOf(delivered[d])]
Over    == phase = "ended"

Channel == INSTANCE FrameChannel
             WITH offered <- Offered, arrived <- Arrived, over <- Over
ImplementsChannel == Channel!Spec

(* Every frame that a writer has begun arrives, unless the connection ends. *)
FrameArrives ==
  \A k \in 1 .. MaxFrames :
    Len(sent) >= k ~> Len(delivered) >= k \/ conn # "open"

(* Write returns: the reader makes room, or the connection ends.            *)
WriteReturns == \A w \in Writers : wpc[w] # "idle" ~> wpc[w] = "idle"

(* The end of a connection reaches onRecv, whose last step tells its owner. *)
CloseNoticed == conn # "open" ~> phase = "ended"
=============================================================================
