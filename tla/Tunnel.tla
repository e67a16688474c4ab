------------------------------- MODULE Tunnel -------------------------------
(***************************************************************************)
(* One proxied connection, from the first byte of the client to the last:  *)
(* socket_to_request and parse_request_headers (src/src/request.rs) read   *)
(* the request, proxy_directive (src/src/reverse_proxy.rs) writes it to    *)
(* the backend, reads the head of the response, passes it on and copies in *)
(* both directions at once, each copy shutting down the other side when it *)
(* ends; directive_process (src/src/directive.rs) answers its errors.      *)
(*                                                                         *)
(* A stream is the sequence 1, 2, 3, ... of its units, of which the first  *)
(* HeadLen make the head of a message.  An answer of the proxy's own is    *)
(* the unit Own.                                                           *)
(***************************************************************************)
EXTENDS Naturals, Sequences, SequencesExt

CONSTANTS
  Units,           \* how many units each peer has to send, a bound
  HeadLen,         \* the units of a head
  Capacity,        \* the units the kernel takes before a write must wait
  ContentLengths,  \* the values the header may have
  NoLength         \* the header is missing, or not a number

Peers == {"client", "backend"}
Other(p) == IF p = "client" THEN "backend" ELSE "client"
Own == 0

ASSUME TunnelAssumption ==
  /\ Units \in [Peers -> Nat]
  /\ HeadLen \in Nat \ {0} /\ Capacity \in Nat \ {0}
  /\ ContentLengths \subseteq Nat \cup {NoLength} /\ NoLength \notin Nat

VARIABLES
  pc,      \* where the task of the connection is
  content_length,
  buf,     \* the buffer of the request, then of the response
  in,      \* what each peer has sent and the proxy has not read
  out,     \* what the proxy has written and the peer has not read
  got,     \* what each peer has read
  sent,    \* how many units each peer has sent
  peer,    \* "open", "fin" (it has ended its stream) or "gone"
  shut,    \* the proxy has shut down the stream to the peer
  copy,    \* the copy from each peer: "off", "on", "ok" or "failed"
  dropped  \* history: the units dropped with the buffer

vars == <<pc, content_length, buf, in, out, got, sent, peer, shut, copy, dropped>>

Init ==
  /\ pc = "head" /\ content_length \in ContentLengths
  /\ buf = << >> /\ dropped = 0
  /\ in = [p \in Peers |-> << >>] /\ out = in /\ got = in
  /\ sent = [p \in Peers |-> 0]
  /\ peer = [p \in Peers |-> "open"]
  /\ shut = [p \in Peers |-> FALSE]
  /\ copy = [p \in Peers |-> "off"]

-----------------------------------------------------------------------------
(***************************************************************************)
(* The peers                                                               *)
(***************************************************************************)
PeerSends(p) ==
  /\ peer[p] = "open" /\ sent[p] < Units[p]
  /\ p = "backend" => got[p] # << >>   \* a backend answers a request
  /\ sent' = [sent EXCEPT ![p] = @ + 1]
  /\ in' = [in EXCEPT ![p] = Append(@, sent[p] + 1)]
  /\ UNCHANGED <<pc, content_length, buf, out, got, peer, shut, copy, dropped>>

PeerReads(p) ==
  /\ peer[p] # "gone" /\ out[p] # << >>
  /\ out' = [out EXCEPT ![p] = Tail(@)]
  /\ got' = [got EXCEPT ![p] = Append(@, Head(out[p]))]
  /\ UNCHANGED <<pc, content_length, buf, in, sent, peer, shut, copy, dropped>>

PeerCloses(p) ==
  /\ \/ peer[p] = "open" /\ peer' = [peer EXCEPT ![p] = "fin"]
     \/ peer[p] # "gone" /\ peer' = [peer EXCEPT ![p] = "gone"]
  /\ UNCHANGED <<pc, content_length, buf, in, out, got, sent, shut, copy, dropped>>

-----------------------------------------------------------------------------
(***************************************************************************)
(* Reading and writing                                                     *)
(***************************************************************************)

\* One read returns some of what has arrived.
Reads(p, k) ==
  /\ k \in 1 .. Len(in[p])
  /\ in' = [in EXCEPT ![p] = SubSeq(@, k + 1, Len(@))]

Arrived(p, k) == SubSeq(in[p], 1, k)

EndsWhenGone(p) == peer[p] = "gone"   \* a variant: a read of no bytes is not noticed

\* The end of the stream, or an error.
Ends(p) == peer[p] = "gone" \/ (peer[p] = "fin" /\ in[p] = << >>)

NeverWaits(p) == peer[p] # "gone" /\ ~shut[p]   \* a variant: what is in flight has no bound

Writable(p) == peer[p] # "gone" /\ ~shut[p] /\ Len(out[p]) < Capacity

\* A write to a peer that is gone may still be taken; what is written is lost.
Write(p, unit) ==
  \/ Writable(p) /\ out' = [out EXCEPT ![p] = Append(@, unit)]
  \/ peer[p] = "gone" /\ UNCHANGED out

\* send_response, and the connection is closed whether or not it succeeds.
Answer ==
  /\ pc' = "end"
  /\ out' = IF shut["client"] \/ peer["client"] = "gone" THEN out
            ELSE [out EXCEPT !["client"] = Append(@, Own)]
  /\ UNCHANGED <<content_length, buf, in, got, sent, peer, shut, copy, dropped>>

-----------------------------------------------------------------------------
(***************************************************************************)
(* socket_to_request, parse_request_headers                                *)
(***************************************************************************)

HeadOnly(b) == SubSeq(b, 1, HeadLen)   \* a variant: a body must follow in reads of its own

\* Without Content-Length the request has no body, and what was read behind the
\* head is dropped with the buffer.
RequestOf(b) == IF content_length = NoLength THEN SubSeq(b, 1, HeadLen) ELSE b

BodyStarted(b) == Len(b) > HeadLen   \* a variant: what came first is the body

BodyComplete(b) ==
  content_length = NoLength \/ Len(b) >= HeadLen + content_length

\* One read of the head, or of the body; what comes behind the body is kept.
ReadRequest(k) ==
  LET b    == buf \o Arrived("client", k)
      kept == IF Len(b) >= HeadLen /\ pc = "head" THEN RequestOf(b) ELSE b
  IN
  /\ pc \in {"head", "body"}
  /\ Reads("client", k)
  /\ buf' = kept
  /\ dropped' = dropped + Len(b) - Len(kept)
  /\ pc' = IF Len(b) < HeadLen THEN "head" ELSE IF BodyComplete(kept) THEN "write" ELSE "body"
  /\ UNCHANGED <<content_length, out, got, sent, peer, shut, copy>>

\* A body that ends early is forwarded as it is.
BodyEnds ==
  /\ pc = "body" /\ Ends("client")
  /\ pc' = "write"
  /\ UNCHANGED <<content_length, buf, in, out, got, sent, peer, shut, copy, dropped>>

\* The client ends before its head does, or the head is not one; what only the
\* builder of the request refuses is refused once the body has been read.
BadRequest ==
  /\ \/ pc = "head" /\ (Ends("client") \/ sent["client"] > 0)
     \/ pc = "write" /\ Head(buf) = 1
  /\ Answer

-----------------------------------------------------------------------------
(***************************************************************************)
(* proxy_directive, from an open connection on                             *)
(***************************************************************************)
WriteRequest ==
  /\ pc = "write"
  /\ Write("backend", Head(buf))
  /\ buf' = Tail(buf)
  /\ pc' = IF Len(buf) = 1 THEN "response" ELSE pc
  /\ UNCHANGED <<content_length, in, got, sent, peer, shut, copy, dropped>>

\* get_header_len.
ReadResponse(k) ==
  /\ pc = "response"
  /\ Reads("backend", k)
  /\ buf' = buf \o Arrived("backend", k)
  /\ pc' = IF Len(buf') < HeadLen THEN pc ELSE "reply"
  /\ UNCHANGED <<content_length, out, got, sent, peer, shut, copy, dropped>>

\* A write or a read fails, or the head of the response is not one: 502.
GatewayFails ==
  /\ \/ pc = "write" /\ peer["backend"] = "gone"
     \/ pc = "response" /\ (Ends("backend") \/ sent["backend"] > 0)
     \/ pc = "reply" /\ peer["client"] = "gone"
  /\ Answer

WriteReply ==
  /\ pc = "reply"
  /\ Write("client", Head(buf))
  /\ buf' = Tail(buf)
  /\ IF Len(buf) = 1
     THEN pc' = "copy" /\ copy' = [p \in Peers |-> "on"]
     ELSE UNCHANGED <<pc, copy>>
  /\ UNCHANGED <<content_length, in, got, sent, peer, shut, dropped>>

CopyUnit(p) ==
  /\ copy[p] = "on" /\ in[p] # << >>
  /\ Write(Other(p), Head(in[p]))
  /\ in' = [in EXCEPT ![p] = Tail(@)]
  /\ UNCHANGED <<pc, content_length, buf, got, sent, peer, shut, copy, dropped>>

LeftOpen(p) == shut   \* a variant: a copy that ends shuts down nothing

ShutBehind(p) == [shut EXCEPT ![Other(p)] = TRUE]

\* The stream has ended, or a read or a write has failed.
CopyEnds(p) ==
  /\ copy[p] = "on"
  /\ \/ in[p] = << >> /\ Ends(p) /\ copy' = [copy EXCEPT ![p] = "ok"]
     \/ /\ peer[p] = "gone" \/ (peer[Other(p)] = "gone" /\ in[p] # << >>)
        /\ copy' = [copy EXCEPT ![p] = "failed"]
  /\ shut' = ShutBehind(p)
  /\ UNCHANGED <<pc, content_length, buf, in, out, got, sent, peer, dropped>>

Done(p) == copy[p] \in {"ok", "failed"}

EitherDone == \E p \in Peers : Done(p)   \* a variant: select! for join!

BothDone == \A p \in Peers : Done(p)

Join ==
  /\ pc = "copy" /\ BothDone
  /\ IF \E p \in Peers : copy[p] # "ok"
     THEN Answer
     ELSE pc' = "end"
          /\ UNCHANGED <<content_length, buf, in, out, got, sent, peer, shut, copy, dropped>>

Task ==
  \/ \E k \in 1 .. Units["client"] : ReadRequest(k)
  \/ \E k \in 1 .. Units["backend"] : ReadResponse(k)
  \/ BodyEnds \/ BadRequest \/ WriteRequest \/ GatewayFails \/ WriteReply \/ Join

Copy(p) == pc = "copy" /\ (CopyUnit(p) \/ CopyEnds(p))

Next ==
  \/ Task
  \/ \E p \in Peers : Copy(p) \/ PeerSends(p) \/ PeerReads(p) \/ PeerCloses(p)

Spec == Init /\ [][Next]_vars

(***************************************************************************)
(* The task runs when it can, join! polls both copies, and a peer reads    *)
(* what it is sent.  Nobody has to send or to close.                       *)
(***************************************************************************)
FairSpec ==
  /\ Spec /\ WF_vars(Task)
  /\ \A p \in Peers : WF_vars(Copy(p)) /\ WF_vars(PeerReads(p))

-----------------------------------------------------------------------------
(***************************************************************************)
(* Properties                                                              *)
(***************************************************************************)

\* Types; no write goes beyond what the kernel takes, but for the proxy's own answer.
TypeOK ==
  /\ pc \in {"head", "body", "write", "response", "reply", "copy", "end"}
  /\ content_length \in ContentLengths
  /\ buf \in Seq(Nat) /\ dropped \in Nat
  /\ in \in [Peers -> Seq(Nat)] /\ out \in [Peers -> Seq(Nat)] /\ got \in [Peers -> Seq(Nat)]
  /\ \A p \in Peers : Len(out[p]) <= Capacity + 1
  /\ sent \in [Peers -> Nat] /\ \A p \in Peers : sent[p] <= Units[p]
  /\ peer \in [Peers -> {"open", "fin", "gone"}]
  /\ shut \in [Peers -> BOOLEAN]
  /\ copy \in [Peers -> {"off", "on", "ok", "failed"}]

Stream(n) == [i \in 1 .. n |-> i]
Written(p) == got[p] \o out[p]

(***************************************************************************)
(* The backend gets what the client sent, in order and without a gap,      *)
(* through the buffer of the request and the copy that follows it.  The    *)
(* one exception is request.rs:135: without Content-Length the units that  *)
(* were read together with the head are missing (and only those).          *)
(***************************************************************************)
RequestUnit(i) == IF i <= HeadLen THEN i ELSE i + dropped

Forwarded == [i \in 1 .. Units["client"] |-> RequestUnit(i)]

RequestStream ==
  /\ IsPrefix(Written("backend"), Forwarded)
  /\ content_length # NoLength => dropped = 0

(***************************************************************************)
(* The client gets one response: a part of the backend's, in order, or an  *)
(* answer of the proxy's own, never both.  A copy that fails makes the     *)
(* dispatcher answer 502 although the response has begun (directive.rs:157 *)
(* after reverse_proxy.rs:188); only the shutdown keeps it off the wire.   *)
(***************************************************************************)
ResponseStream ==
  Written("client") = <<Own>> \/ IsPrefix(Written("client"), Stream(Units["backend"]))

(***************************************************************************)
(* While the client has not ended its stream, nobody waits for a response  *)
(* before the whole body that Content-Length announces was written.        *)
(***************************************************************************)
WholeRequestFirst ==
  (pc \in {"response", "reply", "copy"} /\ content_length # NoLength
     /\ peer["client"] = "open" /\ peer["backend"] # "gone")
    => Len(Written("backend")) >= HeadLen + content_length

(***************************************************************************)
(* A copy ends with the stream it copies, and the connection with both: as *)
(* long as neither peer is gone, a direction that is over is one whose     *)
(* sender has ended its stream, and all it sent has been written to the    *)
(* other peer, whatever happened in the other direction meanwhile          *)
(* (tokio::join! of the two copies, reverse_proxy.rs:181).                 *)
(***************************************************************************)
Over(p) == Done(p) \/ (pc = "end" /\ copy[p] # "off")

AllWritten(p) ==
  IF p = "client" THEN Len(Written("backend")) + dropped = sent["client"]
  ELSE Len(Written("client")) = sent["backend"]

SomeoneGone == \E p \in Peers : peer[p] = "gone"

NothingCutOff ==
  \A p \in Peers : Over(p) => SomeoneGone \/ (peer[p] = "fin" /\ AllWritten(p))

(***************************************************************************)
(* The strengthening: where the units under way are.  What a peer has got, *)
(* what the kernel holds for it, the buffer and what has not been read yet *)
(* are consecutive parts of one stream, as long as the task runs and the   *)
(* receiver is there.                                                      *)
(***************************************************************************)
RequestBuf  == IF pc \in {"head", "body", "write"} THEN buf ELSE << >>
ResponseBuf == IF pc \in {"response", "reply"} THEN buf ELSE << >>

Flowing(p) == pc # "end" /\ peer[p] # "gone"

ArrivesInOrder ==
  \A p \in Peers :
    /\ Len(in[p]) <= sent[p]
    /\ \A i \in 1 .. Len(in[p]) : in[p][i] = sent[p] - Len(in[p]) + i

RequestFlows ==
  /\ Len(Written("backend")) <= Units["client"]
  /\ \A i \in 1 .. Len(Written("backend")) : Written("backend")[i] = RequestUnit(i)
  /\ Flowing("backend") =>
       /\ Len(Written("backend")) + Len(RequestBuf) + dropped + Len(in["client"]) = sent["client"]
       /\ \A i \in 1 .. Len(RequestBuf) :
            RequestBuf[i] = RequestUnit(Len(Written("backend")) + i)
       /\ pc # "head" => Len(Written("backend")) + Len(RequestBuf) >= HeadLen
       /\ (pc \notin {"head", "body"} /\ content_length # NoLength /\ peer["client"] = "open")
            => Len(Written("backend")) + Len(RequestBuf) >= HeadLen + content_length

ResponseFlows ==
  /\ pc # "end" =>
       /\ Len(Written("client")) <= Units["backend"]
       /\ \A i \in 1 .. Len(Written("client")) : Written("client")[i] = i
  /\ Flowing("client") =>
       /\ Len(Written("client")) + Len(ResponseBuf) + Len(in["backend"]) = sent["backend"]
       /\ \A i \in 1 .. Len(ResponseBuf) : ResponseBuf[i] = Len(Written("client")) + i

\* What is known at each place of the task.
Places ==
  /\ pc \in {"head", "body"} => Written("backend") = << >>
  /\ pc \in {"head", "body", "write", "response"} => Written("client") = << >>
  /\ pc = "head" => dropped = 0
  /\ pc = "body" => Len(buf) >= HeadLen /\ content_length # NoLength
  /\ pc \in {"write", "reply"} => buf # << >>
  /\ content_length # NoLength => dropped = 0
  /\ pc # "end" => \A p \in Peers : Len(out[p]) <= Capacity
  /\ pc = "copy" => \A p \in Peers : Done(p) => shut[Other(p)]

FlowInv ==
  /\ TypeOK
  /\ ArrivesInOrder
  /\ RequestFlows
  /\ ResponseFlows
  /\ Places
  /\ ResponseStream

CopiesComeLast == pc \notin {"copy", "end"} => \A p \in Peers : copy[p] = "off"

TunnelInv == FlowInv /\ CopiesComeLast /\ NothingCutOff

(***************************************************************************)
(* When both peers have ended their streams the connection ends, and its   *)
(* permit with it.                                                         *)
(***************************************************************************)
TunnelEnds == (\A p \in Peers : peer[p] # "open") ~> pc = "end"

(***************************************************************************)
(* In the tunnel what one peer sends reaches the other unless one of them  *)
(* goes away: a stream that has ended does not cut the one in the other    *)
(* direction.                                                              *)
(***************************************************************************)
EveryUnitArrives ==
  \A p \in Peers : \A n \in 1 .. Units[p] :
    (pc = "copy" /\ sent[p] >= n) ~>
      \/ n \in Range(got[Other(p)])
      \/ \E q \in Peers : peer[q] = "gone"
      \/ p = "client" /\ n > HeadLen /\ n <= HeadLen + dropped
=============================================================================
