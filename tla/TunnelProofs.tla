---------------------------- MODULE TunnelProofs ----------------------------
(***************************************************************************)
(* Theorems about Tunnel, for streams of any length, heads and kernel      *)
(* buffers of any size, and reads that return any part of what has arrived.*)
(***************************************************************************)
EXTENDS Tunnel, SequenceTheorems, TLAPS

LEMMA PeerFacts ==
  /\ "client" \in Peers /\ "backend" \in Peers
  /\ \A p \in Peers : p = "client" \/ p = "backend"
  /\ \A p \in Peers : Other(p) \in Peers /\ Other(p) # p
  /\ Other("client") = "backend" /\ Other("backend") = "client"
  /\ \A p \in Peers : Units[p] \in Nat
BY TunnelAssumption DEF Peers, Other

\* Taking the first unit of a sequence and putting it behind another one leaves
\* the two together what they are.
LEMMA MoveHead ==
  ASSUME NEW s \in Seq(Nat), NEW t \in Seq(Nat), t # << >>
  PROVE  Append(s, Head(t)) \o Tail(t) = s \o t
<1>1. /\ Head(t) \in Nat /\ Tail(t) \in Seq(Nat) /\ Head(t) = t[1]
      /\ Len(Tail(t)) = Len(t) - 1 /\ \A i \in 1 .. Len(Tail(t)) : Tail(t)[i] = t[i + 1]
  BY HeadTailProperties
<1>2. /\ Append(s, Head(t)) \in Seq(Nat) /\ Len(Append(s, Head(t))) = Len(s) + 1
      /\ \A i \in 1 .. Len(s) : Append(s, Head(t))[i] = s[i]
      /\ Append(s, Head(t))[Len(s) + 1] = Head(t)
  BY <1>1, AppendProperties
<1>3. /\ Append(s, Head(t)) \o Tail(t) \in Seq(Nat)
      /\ Len(Append(s, Head(t)) \o Tail(t)) = Len(s) + Len(t)
      /\ \A i \in 1 .. Len(s) + Len(t) :
           (Append(s, Head(t)) \o Tail(t))[i] =
             IF i <= Len(s) + 1 THEN Append(s, Head(t))[i] ELSE Tail(t)[i - (Len(s) + 1)]
  BY <1>1, <1>2, ConcatProperties, LenProperties
<1>4. /\ s \o t \in Seq(Nat) /\ Len(s \o t) = Len(s) + Len(t)
      /\ \A i \in 1 .. Len(s) + Len(t) :
           (s \o t)[i] = IF i <= Len(s) THEN s[i] ELSE t[i - Len(s)]
  BY ConcatProperties
<1>5. ASSUME NEW i \in 1 .. Len(s) + Len(t)
      PROVE  (Append(s, Head(t)) \o Tail(t))[i] = (s \o t)[i]
  <2>1. CASE i <= Len(s)
    BY <2>1, <1>2, <1>3, <1>4, LenProperties
  <2>2. CASE i = Len(s) + 1
    BY <2>2, <1>1, <1>2, <1>3, <1>4, LenProperties
  <2>3. CASE i > Len(s) + 1
    BY <2>3, <1>1, <1>3, <1>4, LenProperties
  <2> QED
    BY <2>1, <2>2, <2>3, LenProperties
<1> QED
  BY <1>3, <1>4, <1>5, SeqEqual

LEMMA ConcatAppend ==
  ASSUME NEW s \in Seq(Nat), NEW t \in Seq(Nat), NEW u \in Nat
  PROVE  s \o Append(t, u) = Append(s \o t, u)
<1>1. /\ Append(t, u) = t \o <<u>> /\ s \o t \in Seq(Nat)
      /\ Append(s \o t, u) = (s \o t) \o <<u>>
  BY AppendIsConcat, ConcatProperties
<1>2. <<u>> \in Seq(Nat)
  OBVIOUS
<1> QED
  BY <1>1, <1>2, ConcatAssociative

\* Where a sequence is cut.
LEMMA Cut ==
  ASSUME NEW s \in Seq(Nat), NEW k \in 1 .. Len(s)
  PROVE  /\ SubSeq(s, 1, k) \in Seq(Nat) /\ Len(SubSeq(s, 1, k)) = k
         /\ \A i \in 1 .. k : SubSeq(s, 1, k)[i] = s[i]
         /\ SubSeq(s, k + 1, Len(s)) \in Seq(Nat)
         /\ Len(SubSeq(s, k + 1, Len(s))) = Len(s) - k
         /\ \A i \in 1 .. Len(s) - k : SubSeq(s, k + 1, Len(s))[i] = s[k + i]
<1>1. Len(s) \in Nat /\ \A i \in 1 .. Len(s) : s[i] \in Nat
  BY LenProperties, ElementOfSeq
<1>2. /\ SubSeq(s, 1, k) \in Seq(Nat)
      /\ Len(SubSeq(s, 1, k)) = IF 1 <= k THEN k - 1 + 1 ELSE 0
      /\ \A i \in 1 .. k - 1 + 1 : SubSeq(s, 1, k)[i] = s[1 + i - 1]
  <2>1. \A i \in 1 .. k : s[i] \in Nat
    BY <1>1
  <2> QED
    BY <2>1, <1>1, SubSeqProperties
<1>3. /\ SubSeq(s, k + 1, Len(s)) \in Seq(Nat)
      /\ Len(SubSeq(s, k + 1, Len(s))) = IF k + 1 <= Len(s) THEN Len(s) - (k + 1) + 1 ELSE 0
      /\ \A i \in 1 .. Len(s) - (k + 1) + 1 : SubSeq(s, k + 1, Len(s))[i] = s[(k + 1) + i - 1]
  <2>1. \A i \in k + 1 .. Len(s) : s[i] \in Nat
    BY <1>1
  <2>2. k + 1 \in Int /\ Len(s) \in Int
    BY <1>1
  <2> QED
    BY <2>1, <2>2, SubSeqProperties
<1>4. ASSUME NEW i \in 1 .. k PROVE SubSeq(s, 1, k)[i] = s[i]
  <2>1. i \in 1 .. k - 1 + 1 /\ 1 + i - 1 = i
    BY <1>1
  <2> QED
    BY <2>1, <1>2
<1>5. ASSUME NEW i \in 1 .. Len(s) - k PROVE SubSeq(s, k + 1, Len(s))[i] = s[k + i]
  <2>1. i \in 1 .. Len(s) - (k + 1) + 1 /\ (k + 1) + i - 1 = k + i
    BY <1>1
  <2> QED
    BY <2>1, <1>3
<1> QED
  BY <1>1, <1>2, <1>3, <1>4, <1>5

-----------------------------------------------------------------------------
(***************************************************************************)
(* What reading and writing do to the streams                              *)
(***************************************************************************)

LEMMA WrittenType ==
  ASSUME TypeOK, NEW p \in Peers
  PROVE  /\ Written(p) \in Seq(Nat) /\ Len(Written(p)) \in Nat
         /\ got[p] \in Seq(Nat) /\ out[p] \in Seq(Nat) /\ in[p] \in Seq(Nat)
         /\ Len(in[p]) \in Nat /\ sent[p] \in Nat
BY PeerFacts, ConcatProperties, LenProperties DEF TypeOK, Written

LEMMA WriteAppends ==
  ASSUME TypeOK, NEW p \in Peers, NEW u \in Nat, Write(p, u), UNCHANGED got
  PROVE  /\ out' \in [Peers -> Seq(Nat)]
         /\ \A q \in Peers \ {p} : Written(q)' = Written(q) /\ out'[q] = out[q]
         /\ \/ peer[p] = "gone" /\ Written(p)' = Written(p) /\ out' = out
            \/ /\ peer[p] # "gone" /\ ~shut[p] /\ Len(out[p]) < Capacity
               /\ Written(p)' = Append(Written(p), u)
               /\ Len(out'[p]) = Len(out[p]) + 1
<1>1. out \in [Peers -> Seq(Nat)] /\ got \in [Peers -> Seq(Nat)]
  BY DEF TypeOK
<1>2. Append(out[p], u) \in Seq(Nat) /\ Len(Append(out[p], u)) = Len(out[p]) + 1
  BY <1>1, AppendProperties
<1>3. got[p] \o Append(out[p], u) = Append(got[p] \o out[p], u)
  BY <1>1, ConcatAppend
<1>4. CASE Writable(p) /\ out' = [out EXCEPT ![p] = Append(@, u)]
  BY <1>1, <1>2, <1>3, <1>4 DEF Writable, Written
<1>5. CASE peer[p] = "gone" /\ UNCHANGED out
  BY <1>1, <1>5 DEF Written
<1> QED
  BY <1>4, <1>5 DEF Write

LEMMA ReadingMoves ==
  ASSUME TypeOK, NEW p \in Peers, PeerReads(p)
  PROVE  /\ out' \in [Peers -> Seq(Nat)] /\ got' \in [Peers -> Seq(Nat)]
         /\ \A q \in Peers : Written(q)' = Written(q) /\ Len(out'[q]) <= Len(out[q])
<1>1. out \in [Peers -> Seq(Nat)] /\ got \in [Peers -> Seq(Nat)] /\ out[p] # << >>
  BY DEF TypeOK, PeerReads
<1>2. /\ Head(out[p]) \in Nat /\ Tail(out[p]) \in Seq(Nat)
      /\ Len(Tail(out[p])) = Len(out[p]) - 1
  BY <1>1, HeadTailProperties
<1>3. Append(got[p], Head(out[p])) \in Seq(Nat)
  BY <1>1, <1>2, AppendProperties
<1>4. Append(got[p], Head(out[p])) \o Tail(out[p]) = got[p] \o out[p]
  BY <1>1, MoveHead
<1>5. /\ out' = [out EXCEPT ![p] = Tail(out[p])]
      /\ got' = [got EXCEPT ![p] = Append(got[p], Head(out[p]))]
  BY DEF PeerReads
<1>6. out' \in [Peers -> Seq(Nat)] /\ got' \in [Peers -> Seq(Nat)]
  BY <1>1, <1>2, <1>3, <1>5
<1>7. ASSUME NEW q \in Peers
      PROVE  got'[q] \o out'[q] = got[q] \o out[q] /\ Len(out'[q]) <= Len(out[q])
  <2>1. Len(out[q]) \in Nat
    BY <1>1, LenProperties
  <2>2. CASE q = p
    <3>1. got'[q] = Append(got[p], Head(out[p])) /\ out'[q] = Tail(out[p])
      BY <1>1, <1>5, <2>2
    <3>2. Len(out'[q]) = Len(out[q]) - 1
      BY <3>1, <2>2, <1>2
    <3>3. Len(out'[q]) <= Len(out[q])
      BY <3>2, <2>1
    <3>4. got'[q] \o out'[q] = got[q] \o out[q]
      BY <3>1, <2>2, <1>4
    <3> QED
      BY <3>3, <3>4
  <2>3. CASE q # p
    <3>1. got'[q] = got[q] /\ out'[q] = out[q]
      BY <1>1, <1>5, <2>3
    <3> QED
      BY <3>1, <2>1
  <2> QED
    BY <2>2, <2>3
<1> QED
  BY <1>6, <1>7 DEF Written

LEMMA ReadsTakes ==
  ASSUME TypeOK, NEW p \in Peers, NEW k, Reads(p, k)
  PROVE  /\ k \in 1 .. Len(in[p])
         /\ in' \in [Peers -> Seq(Nat)]
         /\ \A q \in Peers \ {p} : in'[q] = in[q]
         /\ Len(in'[p]) = Len(in[p]) - k
         /\ \A i \in 1 .. Len(in[p]) - k : in'[p][i] = in[p][k + i]
         /\ Arrived(p, k) \in Seq(Nat) /\ Len(Arrived(p, k)) = k
         /\ \A i \in 1 .. k : Arrived(p, k)[i] = in[p][i]
<1>1. in \in [Peers -> Seq(Nat)]
  BY DEF TypeOK
<1>2. k \in 1 .. Len(in[p]) /\ in' = [in EXCEPT ![p] = SubSeq(in[p], k + 1, Len(in[p]))]
  BY DEF Reads
<1> QED
  BY <1>1, <1>2, Cut DEF Arrived

\* The one answer of the proxy's own goes to a client that is there.
LEMMA AnswerAppends ==
  ASSUME TypeOK, Answer
  PROVE  /\ out' \in [Peers -> Seq(Nat)] /\ pc' = "end"
         /\ Written("backend")' = Written("backend")
         /\ \A q \in Peers : Len(out'[q]) <= Len(out[q]) + 1
         /\ \/ Written("client")' = Written("client") /\ out' = out
            \/ /\ ~shut["client"] /\ peer["client"] # "gone"
               /\ Written("client")' = Append(Written("client"), Own)
<1>1. out \in [Peers -> Seq(Nat)] /\ got \in [Peers -> Seq(Nat)]
  BY DEF TypeOK
<1>2. Own \in Nat /\ "client" \in Peers /\ "backend" \in Peers
  BY DEF Own, Peers
<1>3. /\ Append(out["client"], Own) \in Seq(Nat)
      /\ Len(Append(out["client"], Own)) = Len(out["client"]) + 1
      /\ \A q \in Peers : Len(out[q]) \in Nat
  BY <1>1, <1>2, AppendProperties, LenProperties
<1>4. got["client"] \o Append(out["client"], Own) = Append(got["client"] \o out["client"], Own)
  BY <1>1, <1>2, ConcatAppend
<1>5. got' = got /\ pc' = "end"
  BY DEF Answer
<1>6. CASE shut["client"] \/ peer["client"] = "gone"
  <2>1. out' = out
    BY <1>6 DEF Answer
  <2>2. \A q \in Peers : Len(out'[q]) <= Len(out[q]) + 1
    BY <2>1, <1>3
  <2> QED
    BY <2>1, <2>2, <1>1, <1>5 DEF Written
<1>7. CASE ~(shut["client"] \/ peer["client"] = "gone")
  <2>1. out' = [out EXCEPT !["client"] = Append(out["client"], Own)]
    BY <1>7 DEF Answer
  <2>2. out'["client"] = Append(out["client"], Own) /\ out'["backend"] = out["backend"]
    BY <2>1, <1>1, <1>2
  <2>3. out' \in [Peers -> Seq(Nat)]
    BY <2>1, <1>1, <1>3
  <2>4. Len(out'["client"]) <= Len(out["client"]) + 1 /\ Len(out'["backend"]) <= Len(out["backend"]) + 1
    BY <2>2, <1>2, <1>3
  <2>5. \A q \in Peers : Len(out'[q]) <= Len(out[q]) + 1
    BY <2>4 DEF Peers
  <2>6. Written("client")' = Append(Written("client"), Own)
    BY <2>2, <1>4, <1>5 DEF Written
  <2>7. Written("backend")' = Written("backend")
    BY <2>2, <1>5 DEF Written
  <2> QED
    BY <2>3, <2>5, <2>6, <2>7, <1>5, <1>7
<1> QED
  BY <1>6, <1>7

-----------------------------------------------------------------------------
(***************************************************************************)
(* Types                                                                   *)
(***************************************************************************)

LEMMA RequestOfType ==
  ASSUME NEW b \in Seq(Nat), Len(b) >= HeadLen
  PROVE  /\ RequestOf(b) \in Seq(Nat)
         /\ Len(RequestOf(b)) = IF content_length = NoLength THEN HeadLen ELSE Len(b)
         /\ \A i \in 1 .. Len(RequestOf(b)) : RequestOf(b)[i] = b[i]
<1>1. HeadLen \in 1 .. Len(b) /\ Len(b) \in Nat
  BY TunnelAssumption, LenProperties
<1> QED
  BY <1>1, Cut DEF RequestOf

\* One read of the request, seen from the buffer.
LEMMA ReadRequestEffect ==
  ASSUME TypeOK, NEW k, ReadRequest(k)
  PROVE  LET b == buf \o Arrived("client", k) IN
         /\ b \in Seq(Nat) /\ Len(b) = Len(buf) + k /\ k \in 1 .. Len(in["client"])
         /\ \A i \in 1 .. Len(buf) : b[i] = buf[i]
         /\ \A i \in 1 .. k : b[Len(buf) + i] = in["client"][i]
         /\ buf' \in Seq(Nat) /\ Len(buf') \in Nat
         /\ dropped' \in Nat /\ dropped' = dropped + Len(b) - Len(buf')
         /\ Len(buf') = IF Len(b) >= HeadLen /\ pc = "head" /\ content_length = NoLength
                        THEN HeadLen ELSE Len(b)
         /\ \A i \in 1 .. Len(buf') : buf'[i] = b[i]
         /\ pc' = IF Len(b) < HeadLen THEN "head" ELSE IF BodyComplete(buf') THEN "write" ELSE "body"
<1> DEFINE b == buf \o Arrived("client", k)
<1>0. "client" \in Peers /\ buf \in Seq(Nat) /\ Len(buf) \in Nat /\ dropped \in Nat
      /\ HeadLen \in Nat \ {0} /\ Reads("client", k)
  BY TunnelAssumption, LenProperties DEF Peers, TypeOK, ReadRequest
<1>1. /\ k \in 1 .. Len(in["client"]) /\ Arrived("client", k) \in Seq(Nat)
      /\ Len(Arrived("client", k)) = k
      /\ \A i \in 1 .. k : Arrived("client", k)[i] = in["client"][i]
  BY <1>0, ReadsTakes
<1>2. Len(in["client"]) \in Nat
  BY <1>0, WrittenType
<1>3. /\ b \in Seq(Nat) /\ Len(b) = Len(buf) + k
      /\ \A i \in 1 .. Len(buf) + k :
           b[i] = IF i <= Len(buf) THEN buf[i] ELSE Arrived("client", k)[i - Len(buf)]
  BY <1>0, <1>1, ConcatProperties
<1>4. \A i \in 1 .. Len(buf) : b[i] = buf[i]
  BY <1>0, <1>1, <1>2, <1>3
<1>5. ASSUME NEW i \in 1 .. k PROVE b[Len(buf) + i] = in["client"][i]
  <2>1. Len(buf) + i \in 1 .. Len(buf) + k /\ ~(Len(buf) + i <= Len(buf))
        /\ (Len(buf) + i) - Len(buf) = i
    BY <1>0, <1>1, <1>2
  <2> QED
    BY <2>1, <1>3, <1>1
<1>6. buf' = (IF Len(b) >= HeadLen /\ pc = "head" THEN RequestOf(b) ELSE b)
      /\ dropped' = dropped + Len(b) - Len(buf')
      /\ pc' = IF Len(b) < HeadLen THEN "head" ELSE IF BodyComplete(buf') THEN "write" ELSE "body"
  BY DEF ReadRequest
<1> HIDE DEF b
<1>7. Len(b) \in Nat
  BY <1>3, LenProperties
<1>8. /\ buf' \in Seq(Nat)
      /\ Len(buf') = IF Len(b) >= HeadLen /\ pc = "head" /\ content_length = NoLength
                     THEN HeadLen ELSE Len(b)
      /\ \A i \in 1 .. Len(buf') : buf'[i] = b[i]
  <2>1. CASE Len(b) >= HeadLen /\ pc = "head"
    BY <2>1, <1>3, <1>6, RequestOfType
  <2>2. CASE ~(Len(b) >= HeadLen /\ pc = "head")
    BY <2>2, <1>3, <1>6
  <2> QED
    BY <2>1, <2>2
<1>9. Len(buf') \in Nat /\ dropped' \in Nat
  BY <1>0, <1>6, <1>7, <1>8
<1> QED
  BY <1>1, <1>3, <1>4, <1>5, <1>6, <1>8, <1>9 DEF b

-----------------------------------------------------------------------------
(***************************************************************************)
(* A step that leaves one direction alone keeps what is known of it.       *)
(***************************************************************************)

LEMMA BufTypes ==
  ASSUME TypeOK
  PROVE  /\ RequestBuf \in Seq(Nat) /\ Len(RequestBuf) \in Nat
         /\ ResponseBuf \in Seq(Nat) /\ Len(ResponseBuf) \in Nat
         /\ Len(buf) \in Nat /\ dropped \in Nat
BY LenProperties, EmptySeq DEF TypeOK, RequestBuf, ResponseBuf

\* The units on their way, counted.
Delivered(p) == Len(Written(p))
Waiting(p) == Len(in[p])
RequestHeld == Len(RequestBuf)
ResponseHeld == Len(ResponseBuf)

LEMMA Counts ==
  ASSUME FlowInv
  PROVE  /\ \A p \in Peers : /\ Delivered(p) \in Nat /\ Waiting(p) \in Nat
                             /\ sent[p] \in Nat /\ Units[p] \in Nat /\ sent[p] <= Units[p]
         /\ RequestHeld \in Nat /\ ResponseHeld \in Nat /\ dropped \in Nat
         /\ HeadLen \in Nat \ {0} /\ Capacity \in Nat \ {0}
         /\ content_length # NoLength => content_length \in Nat
         /\ Delivered("backend") <= Units["client"]
         /\ pc # "end" => Delivered("client") <= Units["backend"]
         /\ Flowing("backend") =>
              Delivered("backend") + RequestHeld + dropped + Waiting("client") = sent["client"]
         /\ Flowing("client") =>
              Delivered("client") + ResponseHeld + Waiting("backend") = sent["backend"]
<1>1. TypeOK
  BY DEF FlowInv
<1>2. \A p \in Peers : /\ Delivered(p) \in Nat /\ Waiting(p) \in Nat
                       /\ sent[p] \in Nat /\ Units[p] \in Nat /\ sent[p] <= Units[p]
  BY <1>1, WrittenType, PeerFacts DEF Delivered, Waiting, TypeOK
<1>3. RequestHeld \in Nat /\ ResponseHeld \in Nat /\ dropped \in Nat
  BY <1>1, BufTypes DEF RequestHeld, ResponseHeld
<1>4. /\ HeadLen \in Nat \ {0} /\ Capacity \in Nat \ {0}
      /\ content_length # NoLength => content_length \in Nat
  BY <1>1, TunnelAssumption DEF TypeOK
<1>5. /\ Delivered("backend") <= Units["client"]
      /\ pc # "end" => Delivered("client") <= Units["backend"]
      /\ Flowing("backend") =>
           Delivered("backend") + RequestHeld + dropped + Waiting("client") = sent["client"]
      /\ Flowing("client") =>
           Delivered("client") + ResponseHeld + Waiting("backend") = sent["backend"]
  BY DEF FlowInv, RequestFlows, ResponseFlows, Delivered, RequestHeld, ResponseHeld, Waiting
<1> QED
  BY <1>2, <1>3, <1>4, <1>5

\* The units on their way to a peer, once those the other peer has sent are counted.
LEMMA RequestCounted ==
  ASSUME FlowInv, Written("backend")' = Written("backend"),
         dropped' = dropped, content_length' = content_length,
         Flowing("backend")' =>
           /\ Flowing("backend") /\ RequestBuf' = RequestBuf
           /\ peer'["client"] = "open" => peer["client"] = "open"
           /\ pc = "head" => pc' = "head"
           /\ pc' \notin {"head", "body"} => pc \notin {"head", "body"}
           /\ Delivered("backend") + RequestHeld + dropped + Waiting("client")' = sent'["client"]
  PROVE  RequestFlows'
<1>1. RequestFlows
  BY DEF FlowInv
<1>2. /\ (Len(Written("backend")) <= Units["client"])'
      /\ (\A i \in 1 .. Len(Written("backend")) : Written("backend")[i] = RequestUnit(i))'
  BY <1>1 DEF RequestFlows, RequestUnit
<1>3. ASSUME Flowing("backend")'
      PROVE  /\ (Len(Written("backend")) + Len(RequestBuf) + dropped + Len(in["client"])
                  = sent["client"])'
             /\ (\A i \in 1 .. Len(RequestBuf) :
                  RequestBuf[i] = RequestUnit(Len(Written("backend")) + i))'
             /\ (pc # "head" => Len(Written("backend")) + Len(RequestBuf) >= HeadLen)'
             /\ ((pc \notin {"head", "body"} /\ content_length # NoLength /\ peer["client"] = "open")
                  => Len(Written("backend")) + Len(RequestBuf) >= HeadLen + content_length)'
  BY <1>1, <1>3 DEF RequestFlows, RequestUnit, Delivered, RequestHeld, Waiting
<1> QED
  BY <1>2, <1>3 DEF RequestFlows

LEMMA RequestUntouched ==
  ASSUME FlowInv, Written("backend")' = Written("backend"),
         dropped' = dropped, content_length' = content_length,
         Flowing("backend")' =>
           /\ Flowing("backend") /\ RequestBuf' = RequestBuf
           /\ peer'["client"] = "open" => peer["client"] = "open"
           /\ pc = "head" => pc' = "head"
           /\ pc' \notin {"head", "body"} => pc \notin {"head", "body"}
           /\ in'["client"] = in["client"] /\ sent'["client"] = sent["client"]
  PROVE  RequestFlows'
<1>1. Flowing("backend")' => Waiting("client")' = Waiting("client")
  BY DEF Waiting
<1> QED
  BY <1>1, Counts, RequestCounted

LEMMA ResponseCounted ==
  ASSUME FlowInv, Written("client")' = Written("client"), pc' # "end" => pc # "end",
         Flowing("client")' =>
           /\ Flowing("client") /\ ResponseBuf' = ResponseBuf
           /\ Delivered("client") + ResponseHeld + Waiting("backend")' = sent'["backend"]
  PROVE  ResponseFlows'
<1>1. ResponseFlows
  BY DEF FlowInv
<1>2. (pc # "end" =>
         /\ Len(Written("client")) <= Units["backend"]
         /\ \A i \in 1 .. Len(Written("client")) : Written("client")[i] = i)'
  BY <1>1 DEF ResponseFlows
<1>3. ASSUME Flowing("client")'
      PROVE  /\ (Len(Written("client")) + Len(ResponseBuf) + Len(in["backend"]) = sent["backend"])'
             /\ (\A i \in 1 .. Len(ResponseBuf) : ResponseBuf[i] = Len(Written("client")) + i)'
  BY <1>1, <1>3 DEF ResponseFlows, Delivered, ResponseHeld, Waiting
<1> QED
  BY <1>2, <1>3 DEF ResponseFlows

LEMMA ResponseUntouched ==
  ASSUME FlowInv, Written("client")' = Written("client"), pc' # "end" => pc # "end",
         Flowing("client")' =>
           /\ Flowing("client") /\ ResponseBuf' = ResponseBuf
           /\ in'["backend"] = in["backend"] /\ sent'["backend"] = sent["backend"]
  PROVE  ResponseFlows'
<1>1. Flowing("client")' => Waiting("backend")' = Waiting("backend")
  BY DEF Waiting
<1> QED
  BY <1>1, Counts, ResponseCounted

LEMMA ResponseEnded ==
  ASSUME pc' = "end"
  PROVE  ResponseFlows'
BY DEF ResponseFlows, Flowing

\* A sequence whose units are those of a stream, one by one, is a prefix of it.
LEMMA PrefixByUnits ==
  ASSUME NEW n \in Nat, NEW t \in [1 .. n -> Nat], NEW s \in Seq(Nat), Len(s) <= n,
         \A i \in 1 .. Len(s) : s[i] = t[i]
  PROVE  IsPrefix(s, t)
<1>1. t \in Seq(Nat) /\ Len(t) = n
  BY IsASeq
<1>2. Len(s) \in Nat /\ \A i \in 1 .. Len(s) : s[i] \in Nat /\ t[i] \in Nat
  BY LenProperties, ElementOfSeq
<1>3. /\ SubSeq(s, 1, Len(s)) \in Seq(Nat) /\ SubSeq(t, 1, Len(s)) \in Seq(Nat)
      /\ Len(SubSeq(s, 1, Len(s))) = Len(s) /\ Len(SubSeq(t, 1, Len(s))) = Len(s)
      /\ \A i \in 1 .. Len(s) : SubSeq(s, 1, Len(s))[i] = s[i] /\ SubSeq(t, 1, Len(s))[i] = t[i]
  BY <1>1, <1>2
<1>4. SubSeq(s, 1, Len(s)) = SubSeq(t, 1, Len(s))
  BY <1>2, <1>3, SeqEqual
<1> QED
  BY <1>1, <1>4 DEF IsPrefix

LEMMA ResponseIsAPrefix ==
  ASSUME NEW s \in Seq(Nat), Len(s) <= Units["backend"], \A i \in 1 .. Len(s) : s[i] = i
  PROVE  IsPrefix(s, Stream(Units["backend"]))
<1>1. Units["backend"] \in Nat /\ Len(s) \in Nat
  BY PeerFacts, LenProperties
<1>2. Stream(Units["backend"]) \in [1 .. Units["backend"] -> Nat]
  BY <1>1 DEF Stream
<1>3. \A i \in 1 .. Len(s) : s[i] = Stream(Units["backend"])[i]
  BY <1>1 DEF Stream
<1> QED
  BY <1>1, <1>2, <1>3, PrefixByUnits

LEMMA ArrivalsUntouched ==
  ASSUME ArrivesInOrder, in' = in, sent' = sent
  PROVE  ArrivesInOrder'
BY DEF ArrivesInOrder

-----------------------------------------------------------------------------
(***************************************************************************)
(* The peers                                                               *)
(***************************************************************************)

LEMMA StutterKeeps ==
  ASSUME FlowInv, UNCHANGED vars
  PROVE  FlowInv'
<1>1. /\ Written("client")' = Written("client") /\ Written("backend")' = Written("backend")
      /\ RequestBuf' = RequestBuf /\ ResponseBuf' = ResponseBuf
      /\ Flowing("client")' = Flowing("client") /\ Flowing("backend")' = Flowing("backend")
  BY DEF vars, Written, RequestBuf, ResponseBuf, Flowing
<1>2. TypeOK' /\ ArrivesInOrder' /\ ResponseStream'
  BY <1>1 DEF vars, FlowInv, TypeOK, ArrivesInOrder, ResponseStream
<1>3. RequestFlows' /\ ResponseFlows'
  BY <1>1, RequestUntouched, ResponseUntouched DEF vars
<1>4. Places'
  BY <1>1 DEF vars, FlowInv, Places, Done
<1> QED
  BY <1>2, <1>3, <1>4 DEF FlowInv

LEMMA PeerClosesKeeps ==
  ASSUME FlowInv, NEW p \in Peers, PeerCloses(p)
  PROVE  FlowInv'
<1>1. /\ pc' = pc /\ content_length' = content_length /\ buf' = buf /\ in' = in /\ out' = out
      /\ got' = got /\ sent' = sent /\ shut' = shut /\ copy' = copy /\ dropped' = dropped
  BY DEF PeerCloses
<1>2. peer \in [Peers -> {"open", "fin", "gone"}]
  BY DEF FlowInv, TypeOK
<1>3. /\ peer' \in [Peers -> {"open", "fin", "gone"}]
      /\ \A q \in Peers : /\ peer'[q] # "gone" => peer[q] # "gone"
                          /\ peer'[q] = "open" => peer[q] = "open"
  BY <1>2 DEF PeerCloses
<1>4. /\ Written("client")' = Written("client") /\ Written("backend")' = Written("backend")
      /\ RequestBuf' = RequestBuf /\ ResponseBuf' = ResponseBuf
      /\ Flowing("client")' => Flowing("client")
      /\ Flowing("backend")' => Flowing("backend")
  BY <1>1, <1>3, PeerFacts DEF Written, RequestBuf, ResponseBuf, Flowing
<1>5. TypeOK' /\ ArrivesInOrder' /\ ResponseStream'
  BY <1>1, <1>3, <1>4 DEF FlowInv, TypeOK, ArrivesInOrder, ResponseStream
<1>6. RequestFlows' /\ ResponseFlows'
  BY <1>1, <1>3, <1>4, PeerFacts, RequestUntouched, ResponseUntouched
<1>7. Places'
  BY <1>1, <1>4 DEF FlowInv, Places, Done
<1> QED
  BY <1>5, <1>6, <1>7 DEF FlowInv

LEMMA PeerReadsKeeps ==
  ASSUME FlowInv, NEW p \in Peers, PeerReads(p)
  PROVE  FlowInv'
<1>0. TypeOK
  BY DEF FlowInv
<1>1. /\ pc' = pc /\ content_length' = content_length /\ buf' = buf /\ in' = in
      /\ sent' = sent /\ peer' = peer /\ shut' = shut /\ copy' = copy /\ dropped' = dropped
  BY DEF PeerReads
<1>2. /\ out' \in [Peers -> Seq(Nat)] /\ got' \in [Peers -> Seq(Nat)]
      /\ \A q \in Peers : Written(q)' = Written(q) /\ Len(out'[q]) <= Len(out[q])
  BY <1>0, ReadingMoves
<1>3. \A q \in Peers : Len(out[q]) \in Nat /\ Len(out'[q]) \in Nat
  BY <1>0, <1>2, LenProperties DEF TypeOK
<1>4. /\ Written("client")' = Written("client") /\ Written("backend")' = Written("backend")
      /\ RequestBuf' = RequestBuf /\ ResponseBuf' = ResponseBuf
      /\ Flowing("client")' = Flowing("client") /\ Flowing("backend")' = Flowing("backend")
  BY <1>1, <1>2, PeerFacts DEF RequestBuf, ResponseBuf, Flowing
<1>5. \A q \in Peers : Len(out'[q]) <= Capacity + 1
  BY <1>0, <1>2, <1>3, TunnelAssumption DEF TypeOK
<1>6. TypeOK' /\ ArrivesInOrder' /\ ResponseStream'
  BY <1>0, <1>1, <1>2, <1>4, <1>5 DEF FlowInv, TypeOK, ArrivesInOrder, ResponseStream
<1>7. RequestFlows' /\ ResponseFlows'
  BY <1>1, <1>4, RequestUntouched, ResponseUntouched
<1>8. ASSUME pc' # "end", NEW q \in Peers PROVE Len(out'[q]) <= Capacity
  <2>1. Len(out[q]) <= Capacity
    BY <1>1, <1>8 DEF FlowInv, Places
  <2> QED
    BY <2>1, <1>2, <1>3, TunnelAssumption
<1>9. Places'
  BY <1>1, <1>4, <1>8 DEF FlowInv, Places, Done
<1> QED
  BY <1>6, <1>7, <1>9 DEF FlowInv

LEMMA PeerSendsKeeps ==
  ASSUME FlowInv, NEW p \in Peers, PeerSends(p)
  PROVE  FlowInv'
<1>0. TypeOK /\ ArrivesInOrder
  BY DEF FlowInv
<1>1. /\ pc' = pc /\ content_length' = content_length /\ buf' = buf /\ out' = out /\ got' = got
      /\ peer' = peer /\ shut' = shut /\ copy' = copy /\ dropped' = dropped
  BY DEF PeerSends
<1>2. /\ in \in [Peers -> Seq(Nat)] /\ sent \in [Peers -> Nat] /\ Units[p] \in Nat
      /\ \A q \in Peers : sent[q] <= Units[q]
      /\ sent[p] + 1 \in Nat /\ sent[p] + 1 <= Units[p]
  <2>1. sent[p] < Units[p]
    BY DEF PeerSends
  <2>2. /\ in \in [Peers -> Seq(Nat)] /\ sent \in [Peers -> Nat] /\ Units[p] \in Nat
        /\ \A q \in Peers : sent[q] <= Units[q]
    BY <1>0, PeerFacts DEF TypeOK
  <2> QED
    BY <2>1, <2>2
<1>3. /\ sent' = [sent EXCEPT ![p] = sent[p] + 1]
      /\ in' = [in EXCEPT ![p] = Append(in[p], sent[p] + 1)]
  BY DEF PeerSends
<1>4. /\ Append(in[p], sent[p] + 1) \in Seq(Nat)
      /\ Len(Append(in[p], sent[p] + 1)) = Len(in[p]) + 1
      /\ \A i \in 1 .. Len(in[p]) : Append(in[p], sent[p] + 1)[i] = in[p][i]
      /\ Append(in[p], sent[p] + 1)[Len(in[p]) + 1] = sent[p] + 1
      /\ Len(in[p]) \in Nat
  BY <1>2, AppendProperties, LenProperties
<1>5. /\ sent' \in [Peers -> Nat] /\ in' \in [Peers -> Seq(Nat)]
      /\ \A q \in Peers : sent'[q] <= Units[q]
  BY <1>2, <1>3, <1>4
<1>6. /\ sent'[p] = sent[p] + 1 /\ Len(in'[p]) = Len(in[p]) + 1
      /\ \A q \in Peers \ {p} : sent'[q] = sent[q] /\ in'[q] = in[q]
  BY <1>2, <1>3, <1>4
<1>7. /\ Written("client")' = Written("client") /\ Written("backend")' = Written("backend")
      /\ RequestBuf' = RequestBuf /\ ResponseBuf' = ResponseBuf
      /\ Flowing("client")' = Flowing("client") /\ Flowing("backend")' = Flowing("backend")
  BY <1>1 DEF Written, RequestBuf, ResponseBuf, Flowing
<1>8. TypeOK' /\ ResponseStream' /\ Places'
  BY <1>1, <1>5, <1>7 DEF FlowInv, TypeOK, ResponseStream, Places, Done
<1>9. ArrivesInOrder'
  <2>1. ASSUME NEW q \in Peers
        PROVE  /\ Len(in'[q]) <= sent'[q]
               /\ \A i \in 1 .. Len(in'[q]) : in'[q][i] = sent'[q] - Len(in'[q]) + i
    <3>1. CASE q = p
      <4>1. in'[p] = Append(in[p], sent[p] + 1)
        BY <1>2, <1>3
      <4>2. /\ Len(in[p]) <= sent[p]
            /\ \A i \in 1 .. Len(in[p]) : in[p][i] = sent[p] - Len(in[p]) + i
        BY <1>0 DEF ArrivesInOrder
      <4>3. ASSUME NEW i \in 1 .. Len(in[p]) + 1
            PROVE  in'[p][i] = sent[p] - Len(in[p]) + i
        <5>1. CASE i \in 1 .. Len(in[p])
          BY <5>1, <4>1, <4>2, <1>4
        <5>2. CASE i = Len(in[p]) + 1
          BY <5>2, <4>1, <1>2, <1>4
        <5> QED
          BY <5>1, <5>2, <1>4
      <4> QED
        BY <3>1, <4>2, <4>3, <1>2, <1>4, <1>6
    <3>2. CASE q # p
      BY <3>2, <1>0, <1>6 DEF ArrivesInOrder
    <3> QED
      BY <3>1, <3>2
  <2> QED
    BY <2>1 DEF ArrivesInOrder
<1>10. RequestFlows'
  <2>1. CASE p = "client"
    <3>1. sent'["client"] = sent["client"] + 1 /\ Waiting("client")' = Waiting("client") + 1
      BY <2>1, <1>6 DEF Waiting
    <3>2. Flowing("backend") =>
            Delivered("backend") + RequestHeld + dropped + Waiting("client")' = sent'["client"]
      BY <3>1, Counts, PeerFacts
    <3> QED
      BY <3>2, <1>1, <1>7, RequestCounted
  <2>2. CASE p = "backend"
    BY <2>2, <1>1, <1>6, <1>7, PeerFacts, RequestUntouched
  <2> QED
    BY <2>1, <2>2, PeerFacts
<1>11. ResponseFlows'
  <2>1. CASE p = "backend"
    <3>1. sent'["backend"] = sent["backend"] + 1 /\ Waiting("backend")' = Waiting("backend") + 1
      BY <2>1, <1>6 DEF Waiting
    <3>2. Flowing("client") =>
            Delivered("client") + ResponseHeld + Waiting("backend")' = sent'["backend"]
      BY <3>1, Counts, PeerFacts
    <3> QED
      BY <3>2, <1>1, <1>7, ResponseCounted
  <2>2. CASE p = "client"
    BY <2>2, <1>1, <1>6, <1>7, PeerFacts, ResponseUntouched
  <2> QED
    BY <2>1, <2>2, PeerFacts
<1> QED
  BY <1>8, <1>9, <1>10, <1>11 DEF FlowInv

-----------------------------------------------------------------------------
(***************************************************************************)
(* The ends of a request, of a copy and of the connection                  *)
(***************************************************************************)

LEMMA BodyEndsKeeps ==
  ASSUME FlowInv, BodyEnds
  PROVE  FlowInv'
<1>1. /\ pc = "body" /\ pc' = "write" /\ peer["client"] # "open"
      /\ content_length' = content_length /\ buf' = buf /\ in' = in /\ out' = out
      /\ got' = got /\ sent' = sent /\ peer' = peer /\ shut' = shut /\ copy' = copy
      /\ dropped' = dropped
  BY DEF BodyEnds, Ends
<1>2. /\ Written("client")' = Written("client") /\ Written("backend")' = Written("backend")
      /\ RequestBuf' = RequestBuf /\ RequestBuf = buf /\ ResponseBuf' = ResponseBuf
      /\ Flowing("client")' = Flowing("client") /\ Flowing("backend")' = Flowing("backend")
  BY <1>1 DEF Written, RequestBuf, ResponseBuf, Flowing
<1>3. TypeOK' /\ ArrivesInOrder' /\ ResponseStream'
  BY <1>1, <1>2 DEF FlowInv, TypeOK, ArrivesInOrder, ResponseStream
<1>4. RequestFlows'
  <2>1. /\ (Len(Written("backend")) <= Units["client"])'
        /\ (\A i \in 1 .. Len(Written("backend")) : Written("backend")[i] = RequestUnit(i))'
    BY <1>1, <1>2 DEF FlowInv, RequestFlows, RequestUnit
  <2>2. ASSUME Flowing("backend")'
        PROVE  /\ (Len(Written("backend")) + Len(RequestBuf) + dropped + Len(in["client"])
                    = sent["client"])'
               /\ (\A i \in 1 .. Len(RequestBuf) :
                    RequestBuf[i] = RequestUnit(Len(Written("backend")) + i))'
               /\ (Len(Written("backend")) + Len(RequestBuf) >= HeadLen)'
    BY <1>1, <1>2, <2>2 DEF FlowInv, RequestFlows, RequestUnit
  <2> QED
    BY <1>1, <2>1, <2>2 DEF RequestFlows
<1>5. ResponseFlows'
  BY <1>1, <1>2, ResponseUntouched
<1>6. buf # << >>
  <2>1. Len(buf) >= HeadLen
    BY <1>1 DEF FlowInv, Places
  <2> QED
    BY <2>1, EmptySeq, TunnelAssumption
<1>7. Places'
  BY <1>1, <1>2, <1>6 DEF FlowInv, Places
<1> QED
  BY <1>3, <1>4, <1>5, <1>7 DEF FlowInv

\* The proxy's own answer finds a client that has got nothing yet, or does not
\* reach it.
LEMMA AnswerKeeps ==
  ASSUME FlowInv, Answer, pc # "end",
         Written("client") = << >> \/ peer["client"] = "gone" \/ shut["client"]
  PROVE  FlowInv'
<1>0. TypeOK
  BY DEF FlowInv
<1>1. /\ content_length' = content_length /\ buf' = buf /\ in' = in /\ got' = got /\ sent' = sent
      /\ peer' = peer /\ shut' = shut /\ copy' = copy /\ dropped' = dropped
  BY DEF Answer
<1>2. /\ out' \in [Peers -> Seq(Nat)] /\ pc' = "end"
      /\ Written("backend")' = Written("backend")
      /\ \A q \in Peers : Len(out'[q]) <= Len(out[q]) + 1
      /\ \/ Written("client")' = Written("client")
         \/ /\ ~shut["client"] /\ peer["client"] # "gone"
            /\ Written("client")' = Append(Written("client"), Own)
  BY <1>0, AnswerAppends
<1>3. ASSUME NEW q \in Peers PROVE Len(out'[q]) <= Capacity + 1
  <2>1. Len(out[q]) <= Capacity /\ Len(out'[q]) <= Len(out[q]) + 1
    BY <1>2 DEF FlowInv, Places
  <2>2. Len(out[q]) \in Nat /\ Len(out'[q]) \in Nat
    BY <1>0, <1>2, LenProperties DEF TypeOK
  <2> QED
    BY <2>1, <2>2, TunnelAssumption
<1>4. TypeOK'
  BY <1>0, <1>1, <1>2, <1>3 DEF TypeOK
<1>5. ArrivesInOrder'
  BY <1>1, ArrivalsUntouched DEF FlowInv
<1>6. ~Flowing("backend")'
  BY <1>2 DEF Flowing
<1>7. RequestFlows' /\ ResponseFlows'
  BY <1>1, <1>2, <1>6, RequestUntouched, ResponseEnded
<1>8. Places'
  BY <1>1, <1>2 DEF FlowInv, Places
<1>9. ResponseStream'
  <2>1. CASE Written("client")' = Written("client")
    BY <2>1 DEF FlowInv, ResponseStream
  <2>2. CASE Written("client")' = Append(Written("client"), Own) /\ Written("client") = << >>
    <3>1. Append(<< >>, Own) = <<Own>>
      OBVIOUS
    <3> QED
      BY <2>2, <3>1 DEF ResponseStream
  <2> QED
    BY <1>2, <2>1, <2>2
<1> QED
  BY <1>4, <1>5, <1>7, <1>8, <1>9 DEF FlowInv

LEMMA BadRequestKeeps ==
  ASSUME FlowInv, BadRequest
  PROVE  FlowInv'
<1>1. Answer /\ pc \in {"head", "write"}
  BY DEF BadRequest
<1>2. Written("client") = << >>
  BY <1>1 DEF FlowInv, Places
<1> QED
  BY <1>1, <1>2, AnswerKeeps

LEMMA GatewayFailsKeeps ==
  ASSUME FlowInv, GatewayFails
  PROVE  FlowInv'
<1>1. Answer
  BY DEF GatewayFails
<1>2. pc \in {"write", "response"} \/ (pc = "reply" /\ peer["client"] = "gone")
  BY DEF GatewayFails
<1>3. Written("client") = << >> \/ peer["client"] = "gone"
  BY <1>2 DEF FlowInv, Places
<1> QED
  BY <1>1, <1>2, <1>3, AnswerKeeps

\* Before join! returns, the copy from the backend has shut down the client.
LEMMA JoinKeeps ==
  ASSUME FlowInv, Join
  PROVE  FlowInv'
<1>1. pc = "copy" /\ BothDone
  BY DEF Join
<1>2. shut["client"]
  <2>1. "backend" \in Peers /\ Other("backend") = "client" /\ Done("backend")
    BY <1>1, PeerFacts DEF BothDone
  <2>2. \A q \in Peers : Done(q) => shut[Other(q)]
    BY <1>1 DEF FlowInv, Places
  <2> QED
    BY <2>1, <2>2
<1>3. CASE \E p \in Peers : copy[p] # "ok"
  BY <1>1, <1>2, <1>3, AnswerKeeps DEF Join
<1>4. CASE ~(\E p \in Peers : copy[p] # "ok")
  <2>1. /\ pc' = "end" /\ content_length' = content_length /\ buf' = buf /\ in' = in /\ out' = out
        /\ got' = got /\ sent' = sent /\ peer' = peer /\ shut' = shut /\ copy' = copy
        /\ dropped' = dropped
    BY <1>4 DEF Join
  <2>2. /\ Written("client")' = Written("client") /\ Written("backend")' = Written("backend")
        /\ ~Flowing("backend")'
    BY <2>1 DEF Written, Flowing
  <2>3. TypeOK' /\ ArrivesInOrder' /\ ResponseStream'
    BY <2>1, <2>2 DEF FlowInv, TypeOK, ArrivesInOrder, ResponseStream
  <2>4. RequestFlows' /\ ResponseFlows'
    BY <2>1, <2>2, RequestUntouched, ResponseEnded
  <2>5. Places'
    BY <2>1 DEF FlowInv, Places
  <2> QED
    BY <2>3, <2>4, <2>5 DEF FlowInv
<1> QED
  BY <1>3, <1>4

LEMMA CopyEndsKeeps ==
  ASSUME FlowInv, NEW p \in Peers, pc = "copy", CopyEnds(p)
  PROVE  FlowInv'
<1>1. /\ pc' = pc /\ content_length' = content_length /\ buf' = buf /\ in' = in /\ out' = out
      /\ got' = got /\ sent' = sent /\ peer' = peer /\ dropped' = dropped
      /\ shut' = [shut EXCEPT ![Other(p)] = TRUE]
      /\ \/ copy' = [copy EXCEPT ![p] = "ok"]
         \/ copy' = [copy EXCEPT ![p] = "failed"]
  BY DEF CopyEnds, ShutBehind
<1>2. shut \in [Peers -> BOOLEAN] /\ copy \in [Peers -> {"off", "on", "ok", "failed"}]
  BY DEF FlowInv, TypeOK
<1>3. shut' \in [Peers -> BOOLEAN] /\ copy' \in [Peers -> {"off", "on", "ok", "failed"}]
  BY <1>1, <1>2, PeerFacts
<1>4. /\ Written("client")' = Written("client") /\ Written("backend")' = Written("backend")
      /\ RequestBuf' = RequestBuf /\ ResponseBuf' = ResponseBuf
      /\ Flowing("client")' = Flowing("client") /\ Flowing("backend")' = Flowing("backend")
  BY <1>1 DEF Written, RequestBuf, ResponseBuf, Flowing
<1>5. TypeOK' /\ ArrivesInOrder' /\ ResponseStream'
  BY <1>1, <1>3, <1>4 DEF FlowInv, TypeOK, ArrivesInOrder, ResponseStream
<1>6. RequestFlows' /\ ResponseFlows'
  BY <1>1, <1>4, RequestUntouched, ResponseUntouched
<1>7. ASSUME NEW q \in Peers, Done(q)' PROVE shut'[Other(q)]
  <2>1. CASE q = p
    BY <2>1, <1>1, <1>2, PeerFacts
  <2>2. CASE q # p
    <3>1. Done(q)
      BY <2>2, <1>1, <1>2, <1>7 DEF Done
    <3>2. shut[Other(q)]
      BY <3>1 DEF FlowInv, Places
    <3> QED
      BY <3>2, <1>1, <1>2, PeerFacts
  <2> QED
    BY <2>1, <2>2
<1>8. Places'
  BY <1>1, <1>4, <1>7 DEF FlowInv, Places
<1> QED
  BY <1>5, <1>6, <1>8 DEF FlowInv

-----------------------------------------------------------------------------
(***************************************************************************)
(* Reading                                                                 *)
(***************************************************************************)

\* What remains of the arrivals when the first of them are taken.
LEMMA ArrivalsTaken ==
  ASSUME TypeOK, ArrivesInOrder, NEW p \in Peers, NEW k \in 1 .. Len(in[p]),
         in' \in [Peers -> Seq(Nat)], sent' = sent,
         \A q \in Peers \ {p} : in'[q] = in[q],
         Len(in'[p]) = Len(in[p]) - k,
         \A i \in 1 .. Len(in[p]) - k : in'[p][i] = in[p][k + i]
  PROVE  ArrivesInOrder'
<1>1. Len(in[p]) \in Nat /\ sent[p] \in Nat
  BY WrittenType
<1>2. /\ Len(in[p]) <= sent[p]
      /\ \A i \in 1 .. Len(in[p]) : in[p][i] = sent[p] - Len(in[p]) + i
  BY DEF ArrivesInOrder
<1>3. Len(in'[p]) <= sent[p]
  BY <1>1, <1>2
<1>4. ASSUME NEW i \in 1 .. Len(in'[p]) PROVE in'[p][i] = sent[p] - Len(in'[p]) + i
  <2>1. k + i \in 1 .. Len(in[p]) /\ i \in 1 .. Len(in[p]) - k
    BY <1>1
  <2>2. in'[p][i] = sent[p] - Len(in[p]) + (k + i)
    BY <2>1, <1>2
  <2> QED
    BY <2>2, <1>1
<1>5. ASSUME NEW q \in Peers
      PROVE  /\ Len(in'[q]) <= sent'[q]
             /\ \A i \in 1 .. Len(in'[q]) : in'[q][i] = sent'[q] - Len(in'[q]) + i
  <2>1. CASE q = p
    BY <2>1, <1>3, <1>4
  <2>2. CASE q # p
    BY <2>2 DEF ArrivesInOrder
  <2> QED
    BY <2>1, <2>2
<1> QED
  BY <1>5 DEF ArrivesInOrder

\* While the request is read nothing has been dropped and nothing was forwarded, so
\* that the buffer and the arrivals are one stream from the first unit on.
LEMMA RequestFromTheFirst ==
  ASSUME FlowInv, pc \in {"head", "body"}, Flowing("backend")
  PROVE  /\ dropped = 0 /\ Written("backend") = << >>
         /\ Len(buf) + Len(in["client"]) = sent["client"]
         /\ \A i \in 1 .. Len(buf) : buf[i] = i
         /\ \A i \in 1 .. Len(in["client"]) : in["client"][i] = Len(buf) + i
<1>1. dropped = 0 /\ Written("backend") = << >> /\ Len(Written("backend")) = 0
  BY EmptySeq DEF FlowInv, Places
<1>2. RequestBuf = buf
  BY DEF RequestBuf
<1>3. Len(buf) \in Nat /\ Len(in["client"]) \in Nat /\ sent["client"] \in Nat
  BY BufTypes, WrittenType, PeerFacts DEF FlowInv
<1>4. Len(buf) + Len(in["client"]) = sent["client"]
  <2>1. 0 + Len(buf) + 0 + Len(in["client"]) = sent["client"]
    BY <1>1, <1>2 DEF FlowInv, RequestFlows
  <2> QED
    BY <2>1, <1>3
<1>5. ASSUME NEW i \in 1 .. Len(buf) PROVE buf[i] = i
  <2>1. buf[i] = RequestUnit(0 + i)
    BY <1>1, <1>2 DEF FlowInv, RequestFlows
  <2>2. RequestUnit(0 + i) = i
    BY <1>1, <1>3, TunnelAssumption DEF RequestUnit
  <2> QED
    BY <2>1, <2>2
<1>6. ASSUME NEW i \in 1 .. Len(in["client"]) PROVE in["client"][i] = Len(buf) + i
  <2>1. in["client"][i] = sent["client"] - Len(in["client"]) + i
    BY PeerFacts DEF FlowInv, ArrivesInOrder
  <2> QED
    BY <2>1, <1>3, <1>4
<1> QED
  BY <1>1, <1>4, <1>5, <1>6

LEMMA ReadRequestKeeps ==
  ASSUME FlowInv, NEW k, ReadRequest(k)
  PROVE  FlowInv'
<1> DEFINE b == buf \o Arrived("client", k)
<1>0. TypeOK /\ ArrivesInOrder /\ "client" \in Peers /\ "backend" \in Peers
  BY PeerFacts DEF FlowInv
<1>1. /\ pc \in {"head", "body"} /\ Reads("client", k)
      /\ content_length' = content_length /\ out' = out /\ got' = got
      /\ sent' = sent /\ peer' = peer /\ shut' = shut /\ copy' = copy
  BY DEF ReadRequest
<1>2. /\ b \in Seq(Nat) /\ Len(b) = Len(buf) + k /\ k \in 1 .. Len(in["client"])
      /\ \A i \in 1 .. Len(buf) : b[i] = buf[i]
      /\ \A i \in 1 .. k : b[Len(buf) + i] = in["client"][i]
      /\ buf' \in Seq(Nat) /\ Len(buf') \in Nat
      /\ dropped' \in Nat /\ dropped' = dropped + Len(b) - Len(buf')
      /\ Len(buf') = IF Len(b) >= HeadLen /\ pc = "head" /\ content_length = NoLength
                     THEN HeadLen ELSE Len(b)
      /\ \A i \in 1 .. Len(buf') : buf'[i] = b[i]
      /\ pc' = IF Len(b) < HeadLen THEN "head" ELSE IF BodyComplete(buf') THEN "write" ELSE "body"
  BY <1>0, ReadRequestEffect
<1>3. /\ k \in 1 .. Len(in["client"])
      /\ in' \in [Peers -> Seq(Nat)]
      /\ \A q \in Peers \ {"client"} : in'[q] = in[q]
      /\ Len(in'["client"]) = Len(in["client"]) - k
      /\ \A i \in 1 .. Len(in["client"]) - k : in'["client"][i] = in["client"][k + i]
  BY <1>0, <1>1, ReadsTakes
<1> HIDE DEF b
<1>4. /\ Len(buf) \in Nat /\ Len(in["client"]) \in Nat /\ sent["client"] \in Nat /\ k \in Nat
      /\ HeadLen \in Nat \ {0} /\ dropped \in Nat /\ Len(b) \in Nat
  BY <1>0, <1>2, BufTypes, WrittenType, TunnelAssumption
<1>5. /\ Written("client")' = Written("client") /\ Written("backend")' = Written("backend")
      /\ Written("client") = << >> /\ Written("backend") = << >> /\ Len(<< >>) = 0
      /\ Flowing("client")' => Flowing("client")
      /\ Flowing("backend")' => Flowing("backend")
  BY <1>1, EmptySeq DEF FlowInv, Places, Written, Flowing
<1>6. pc' \in {"head", "body", "write"} /\ RequestBuf' = buf' /\ ResponseBuf' = ResponseBuf
  BY <1>1, <1>2 DEF RequestBuf, ResponseBuf
<1>7. TypeOK'
  BY <1>0, <1>1, <1>2, <1>3, <1>6 DEF TypeOK
<1>8. ArrivesInOrder'
  BY <1>0, <1>1, <1>3, ArrivalsTaken
<1>9. dropped = 0 /\ (pc = "body" => Len(buf) >= HeadLen /\ content_length # NoLength)
  BY <1>1 DEF FlowInv, Places
<1>10. /\ content_length # NoLength => dropped' = 0
       /\ pc' = "head" => dropped' = 0
       /\ pc' # "head" => Len(buf') >= HeadLen
  BY <1>2, <1>4, <1>9
<1>11. pc' = "body" => content_length # NoLength
  BY <1>2 DEF BodyComplete
<1>12. pc' = "write" => buf' # << >>
  BY <1>4, <1>5, <1>10
<1>13. Places'
  BY <1>1, <1>2, <1>5, <1>6, <1>10, <1>11, <1>12 DEF FlowInv, Places
<1>14. RequestFlows'
  <2>1. /\ (Len(Written("backend")) <= Units["client"])'
        /\ (\A i \in 1 .. Len(Written("backend")) : Written("backend")[i] = RequestUnit(i))'
    BY <1>4, <1>5, PeerFacts
  <2>2. ASSUME Flowing("backend")'
        PROVE  /\ (Len(Written("backend")) + Len(RequestBuf) + dropped + Len(in["client"])
                    = sent["client"])'
               /\ (\A i \in 1 .. Len(RequestBuf) :
                    RequestBuf[i] = RequestUnit(Len(Written("backend")) + i))'
    <3>1. /\ Len(buf) + Len(in["client"]) = sent["client"]
          /\ \A i \in 1 .. Len(buf) : buf[i] = i
          /\ \A i \in 1 .. Len(in["client"]) : in["client"][i] = Len(buf) + i
      BY <2>2, <1>1, <1>5, RequestFromTheFirst
    <3> DEFINE n == Len(buf)  n2 == Len(buf')  m == Len(in["client"])  m2 == Len(in'["client"])
               l == Len(b)
    <3>2. /\ n \in Nat /\ n2 \in Nat /\ m \in Nat /\ l \in Nat /\ k \in 1 .. m /\ m2 = m - k
          /\ l = n + k /\ dropped' = l - n2 /\ sent["client"] = n + m
          /\ n2 = IF l >= HeadLen /\ pc = "head" /\ content_length = NoLength THEN HeadLen ELSE l
      BY <3>1, <1>2, <1>3, <1>4, <1>9
    <3>3. /\ \A i \in 1 .. n : b[i] = i
          /\ \A i \in 1 .. k : b[n + i] = n + i
          /\ \A i \in 1 .. n2 : buf'[i] = b[i]
      <4>1. \A i \in 1 .. k : i \in 1 .. m
        BY <3>2
      <4>2. \A i \in 1 .. k : b[n + i] = in["client"][i] /\ in["client"][i] = n + i
        BY <4>1, <3>1, <1>2
      <4> QED
        BY <4>2, <3>1, <1>2
    <3> HIDE DEF n, n2, m, m2, l
    <3>4. 0 + n2 + dropped' + m2 = sent["client"]
      BY <3>2, <1>4
    <3>5. ASSUME NEW i \in 1 .. l PROVE b[i] = i
      <4>1. CASE i <= n
        BY <4>1, <3>2, <3>3
      <4>2. CASE i > n
        <5>1. i - n \in 1 .. k /\ n + (i - n) = i
          BY <4>2, <3>2
        <5> QED
          BY <5>1, <3>3
      <4> QED
        BY <4>1, <4>2, <3>2
    <3>6. n2 <= l /\ (n2 <= HeadLen \/ dropped' = 0)
      BY <3>2, <1>4
    <3>7. ASSUME NEW i \in 1 .. n2 PROVE buf'[i] = RequestUnit(0 + i)'
      <4>1. i \in 1 .. l /\ 0 + i = i /\ (i <= HeadLen \/ dropped' = 0)
        BY <3>2, <3>6, <1>4
      <4>2. buf'[i] = i
        BY <4>1, <3>3, <3>5
      <4>3. RequestUnit(i)' = IF i <= HeadLen THEN i ELSE i + dropped'
        BY DEF RequestUnit
      <4>4. RequestUnit(i)' = i
        BY <4>1, <4>3
      <4> QED
        BY <4>1, <4>2, <4>4
    <3>8. 0 + Len(buf') + dropped' + Len(in'["client"]) = sent["client"]
      BY <3>4 DEF n2, m2
    <3>9. \A i \in 1 .. Len(buf') : buf'[i] = RequestUnit(0 + i)'
      BY <3>7 DEF n2
    <3>10. Len(Written("backend"))' = 0 /\ RequestBuf' = buf' /\ sent' = sent
      BY <1>1, <1>5, <1>6
    <3>11. (Len(Written("backend")) + Len(RequestBuf) + dropped + Len(in["client"])
              = sent["client"])'
      BY <3>8, <3>10
    <3>12. (\A i \in 1 .. Len(RequestBuf) :
              RequestBuf[i] = RequestUnit(Len(Written("backend")) + i))'
      BY <3>9, <3>10
    <3> QED
      BY <3>11, <3>12
  <2>3. (pc # "head" => Len(Written("backend")) + Len(RequestBuf) >= HeadLen)'
    <3>1. pc' # "head" => 0 + Len(buf') >= HeadLen
      BY <1>2, <1>4, <1>10
    <3> QED
      BY <3>1, <1>5, <1>6
  <2>4. ((pc \notin {"head", "body"} /\ content_length # NoLength)
          => Len(Written("backend")) + Len(RequestBuf) >= HeadLen + content_length)'
    <3>1. ASSUME pc' = "write", content_length # NoLength
          PROVE  0 + Len(buf') >= HeadLen + content_length
      <4>1. BodyComplete(buf')
        BY <3>1, <1>2
      <4>2. Len(buf') >= HeadLen + content_length
        BY <4>1, <3>1 DEF BodyComplete
      <4> QED
        BY <4>2, <1>2
    <3> QED
      BY <3>1, <1>1, <1>5, <1>6
  <2> QED
    BY <2>1, <2>2, <2>3, <2>4 DEF RequestFlows
<1>15. ResponseFlows'
  BY <1>0, <1>1, <1>3, <1>5, <1>6, ResponseUntouched
<1>16. ResponseStream'
  BY <1>5 DEF FlowInv, ResponseStream
<1> QED
  BY <1>7, <1>8, <1>13, <1>14, <1>15, <1>16 DEF FlowInv

LEMMA ReadResponseKeeps ==
  ASSUME FlowInv, NEW k, ReadResponse(k)
  PROVE  FlowInv'
<1> DEFINE b == buf \o Arrived("backend", k)
<1>0. TypeOK /\ ArrivesInOrder /\ "client" \in Peers /\ "backend" \in Peers
  BY PeerFacts DEF FlowInv
<1>1. /\ pc = "response" /\ Reads("backend", k) /\ buf' = b
      /\ pc' = (IF Len(b) < HeadLen THEN "response" ELSE "reply")
      /\ content_length' = content_length /\ out' = out /\ got' = got
      /\ sent' = sent /\ peer' = peer /\ shut' = shut /\ copy' = copy /\ dropped' = dropped
  BY DEF ReadResponse
<1>2. /\ k \in 1 .. Len(in["backend"])
      /\ in' \in [Peers -> Seq(Nat)]
      /\ \A q \in Peers \ {"backend"} : in'[q] = in[q]
      /\ Len(in'["backend"]) = Len(in["backend"]) - k
      /\ \A i \in 1 .. Len(in["backend"]) - k : in'["backend"][i] = in["backend"][k + i]
      /\ Arrived("backend", k) \in Seq(Nat) /\ Len(Arrived("backend", k)) = k
      /\ \A i \in 1 .. k : Arrived("backend", k)[i] = in["backend"][i]
  BY <1>0, <1>1, ReadsTakes
<1>3. buf \in Seq(Nat) /\ HeadLen \in Nat \ {0}
  BY <1>0, TunnelAssumption DEF TypeOK
<1>4. /\ b \in Seq(Nat) /\ Len(b) = Len(buf) + k
      /\ \A i \in 1 .. Len(buf) + k :
           b[i] = IF i <= Len(buf) THEN buf[i] ELSE Arrived("backend", k)[i - Len(buf)]
  <2>1. Arrived("backend", k) \in Seq(Nat) /\ Len(Arrived("backend", k)) = k
    BY <1>2
  <2> QED
    BY <2>1, <1>3, ConcatProperties
<1> HIDE DEF b
<1>5. /\ Written("client")' = Written("client") /\ Written("backend")' = Written("backend")
      /\ Written("client") = << >> /\ Len(<< >>) = 0
      /\ Flowing("client")' = Flowing("client") /\ Flowing("backend")' = Flowing("backend")
  BY <1>1, EmptySeq DEF FlowInv, Places, Written, Flowing
<1>6. /\ pc' \in {"response", "reply"} /\ RequestBuf' = RequestBuf
      /\ ResponseBuf' = buf' /\ ResponseBuf = buf
  BY <1>1 DEF RequestBuf, ResponseBuf
<1>7. TypeOK'
  <2>1. buf' \in Seq(Nat)
    BY <1>1, <1>4
  <2>2. pc' \in {"head", "body", "write", "response", "reply", "copy", "end"}
    BY <1>6
  <2> QED
    BY <1>0, <1>1, <1>2, <2>1, <2>2 DEF TypeOK
<1>8. ArrivesInOrder'
  BY <1>0, <1>1, <1>2, ArrivalsTaken
<1>9. pc' = "reply" => buf' # << >>
  <2>1. b = << >> => Len(b) < HeadLen
    BY <1>3, <1>5
  <2> QED
    BY <2>1, <1>1
<1>10. Places'
  BY <1>1, <1>5, <1>6, <1>9 DEF FlowInv, Places, Done
<1>11. RequestFlows'
  BY <1>0, <1>1, <1>2, <1>5, <1>6, RequestUntouched
<1>12. ResponseFlows'
  <2>1. (pc # "end" =>
           /\ Len(Written("client")) <= Units["backend"]
           /\ \A i \in 1 .. Len(Written("client")) : Written("client")[i] = i)'
    BY <1>1, <1>5 DEF FlowInv, ResponseFlows
  <2>2. ASSUME Flowing("client")'
        PROVE  /\ (Len(Written("client")) + Len(ResponseBuf) + Len(in["backend"]) = sent["backend"])'
               /\ (\A i \in 1 .. Len(ResponseBuf) : ResponseBuf[i] = Len(Written("client")) + i)'
    <3> DEFINE n == Len(buf)  m == Len(in["backend"])  m2 == Len(in'["backend"])  l == Len(b)
    <3>1. n \in Nat /\ m \in Nat /\ sent["backend"] \in Nat /\ m <= sent["backend"]
          /\ \A i \in 1 .. m : in["backend"][i] = sent["backend"] - m + i
      BY <1>0, BufTypes, WrittenType DEF ArrivesInOrder
    <3>2. /\ 0 + n + m = sent["backend"]
          /\ \A i \in 1 .. n : buf[i] = 0 + i
      BY <2>2, <1>5, <1>6 DEF FlowInv, ResponseFlows
    <3>3. /\ k \in 1 .. m /\ m2 = m - k /\ l = n + k
          /\ \A i \in 1 .. n + k :
               b[i] = IF i <= n THEN buf[i] ELSE Arrived("backend", k)[i - n]
          /\ \A i \in 1 .. k : Arrived("backend", k)[i] = in["backend"][i]
      BY <1>2, <1>4
    <3> HIDE DEF n, m, m2, l
    <3>4. 0 + l + m2 = sent["backend"]
      BY <3>1, <3>2, <3>3
    <3>5. ASSUME NEW i \in 1 .. l PROVE b[i] = 0 + i
      <4>1. CASE i <= n
        BY <4>1, <3>1, <3>2, <3>3
      <4>2. CASE i > n
        <5>1. i - n \in 1 .. k /\ i - n \in 1 .. m /\ ~(i <= n) /\ i \in 1 .. n + k
          BY <4>2, <3>1, <3>3
        <5>2. b[i] = sent["backend"] - m + (i - n)
          BY <5>1, <3>1, <3>3
        <5> QED
          BY <5>2, <3>1, <3>2
      <4> QED
        BY <4>1, <4>2, <3>1
    <3>6. Len(Written("client"))' = 0 /\ ResponseBuf' = b /\ sent' = sent
      BY <1>1, <1>5, <1>6
    <3>7. 0 + Len(b) + Len(in'["backend"]) = sent["backend"]
      BY <3>4 DEF l, m2
    <3>8. \A i \in 1 .. Len(b) : b[i] = 0 + i
      BY <3>5 DEF l
    <3> QED
      BY <3>6, <3>7, <3>8
  <2> QED
    BY <2>1, <2>2 DEF ResponseFlows
<1>13. ResponseStream'
  BY <1>5 DEF FlowInv, ResponseStream
<1> QED
  BY <1>7, <1>8, <1>10, <1>11, <1>12, <1>13 DEF FlowInv

-----------------------------------------------------------------------------
(***************************************************************************)
(* Writing                                                                 *)
(***************************************************************************)

\* One unit more for the backend.
LEMMA RequestAppended ==
  ASSUME FlowInv, NEW u \in Nat, dropped' = dropped,
         Written("backend")' = Append(Written("backend"), u),
         u = RequestUnit(Delivered("backend") + 1), Delivered("backend") + 1 <= Units["client"]
  PROVE  /\ Delivered("backend")' = Delivered("backend") + 1
         /\ (Len(Written("backend")) <= Units["client"])'
         /\ (\A i \in 1 .. Len(Written("backend")) : Written("backend")[i] = RequestUnit(i))'
<1> DEFINE w == Written("backend")  n == Delivered("backend")
<1>1. w \in Seq(Nat) /\ n \in Nat /\ n = Len(w)
  BY WrittenType, PeerFacts DEF FlowInv, Delivered
<1>2. /\ Len(Append(w, u)) = n + 1
      /\ \A i \in 1 .. n : Append(w, u)[i] = w[i]
      /\ Append(w, u)[n + 1] = u
  BY <1>1, AppendProperties
<1>3. \A i \in 1 .. n : w[i] = RequestUnit(i)
  BY <1>1 DEF FlowInv, RequestFlows
<1>4. \A i : RequestUnit(i)' = RequestUnit(i)
  BY DEF RequestUnit
<1>5. Written("backend")' = Append(w, u) /\ u = RequestUnit(n + 1) /\ n + 1 <= Units["client"]
  OBVIOUS
<1>6. Delivered("backend")' = n + 1 /\ (Len(Written("backend")) <= Units["client"])'
  BY <1>2, <1>5 DEF Delivered
<1> HIDE DEF w, n
<1>7. ASSUME NEW i \in 1 .. n + 1 PROVE Append(w, u)[i] = RequestUnit(i)'
  <2>1. CASE i \in 1 .. n
    BY <2>1, <1>2, <1>3, <1>4
  <2>2. CASE i = n + 1
    BY <2>2, <1>2, <1>4, <1>5
  <2> QED
    BY <2>1, <2>2, <1>1
<1>8. (\A i \in 1 .. Len(Written("backend")) : Written("backend")[i] = RequestUnit(i))'
  BY <1>2, <1>5, <1>7
<1> QED
  BY <1>6, <1>8 DEF n

\* One unit more for the client.
LEMMA ResponseAppended ==
  ASSUME FlowInv, pc # "end", NEW u \in Nat,
         Written("client")' = Append(Written("client"), u),
         u = Delivered("client") + 1, Delivered("client") + 1 <= Units["backend"]
  PROVE  /\ Delivered("client")' = Delivered("client") + 1
         /\ (Len(Written("client")) <= Units["backend"])'
         /\ (\A i \in 1 .. Len(Written("client")) : Written("client")[i] = i)'
         /\ ResponseStream'
<1> DEFINE w == Written("client")  n == Delivered("client")
<1>1. w \in Seq(Nat) /\ n \in Nat /\ n = Len(w)
  BY WrittenType, PeerFacts DEF FlowInv, Delivered
<1>2. /\ Append(w, u) \in Seq(Nat) /\ Len(Append(w, u)) = n + 1
      /\ \A i \in 1 .. n : Append(w, u)[i] = w[i]
      /\ Append(w, u)[n + 1] = u
  BY <1>1, AppendProperties
<1>3. \A i \in 1 .. n : w[i] = i
  BY <1>1 DEF FlowInv, ResponseFlows
<1>4. Written("client")' = Append(w, u) /\ u = n + 1 /\ n + 1 <= Units["backend"]
  OBVIOUS
<1>5. Delivered("client")' = n + 1 /\ (Len(Written("client")) <= Units["backend"])'
  BY <1>2, <1>4 DEF Delivered
<1> HIDE DEF w, n
<1>6. ASSUME NEW i \in 1 .. n + 1 PROVE Append(w, u)[i] = i
  <2>1. CASE i \in 1 .. n
    BY <2>1, <1>2, <1>3
  <2>2. CASE i = n + 1
    BY <2>2, <1>2, <1>4
  <2> QED
    BY <2>1, <2>2, <1>1
<1>7. \A i \in 1 .. Len(Append(w, u)) : Append(w, u)[i] = i
  BY <1>2, <1>6
<1>8. IsPrefix(Append(w, u), Stream(Units["backend"]))
  BY <1>2, <1>4, <1>7, ResponseIsAPrefix
<1>9. ResponseStream'
  BY <1>4, <1>8 DEF ResponseStream
<1> QED
  BY <1>4, <1>5, <1>7, <1>9 DEF n

\* What a write of the first unit of the buffer leaves of it.
LEMMA BufferTail ==
  ASSUME TypeOK, buf # << >>
  PROVE  /\ Head(buf) \in Nat /\ Head(buf) = buf[1] /\ Len(buf) \in Nat \ {0}
         /\ Tail(buf) \in Seq(Nat) /\ Len(Tail(buf)) = Len(buf) - 1
         /\ \A i \in 1 .. Len(Tail(buf)) : Tail(buf)[i] = buf[i + 1]
         /\ Len(buf) = 1 => Tail(buf) = << >>
         /\ Len(buf) # 1 => Tail(buf) # << >>
<1>1. buf \in Seq(Nat)
  BY DEF TypeOK
<1>2. /\ Head(buf) \in Nat /\ Len(buf) \in Nat \ {0}
      /\ Tail(buf) \in Seq(Nat) /\ Len(Tail(buf)) = Len(buf) - 1
      /\ \A i \in 1 .. Len(Tail(buf)) : Tail(buf)[i] = buf[i + 1]
  BY <1>1, HeadTailProperties, EmptySeq
<1>3. Head(buf) = buf[1]
  BY <1>1
<1>4. /\ Len(buf) = 1 => Tail(buf) = << >>
      /\ Len(buf) # 1 => Tail(buf) # << >>
  <2>1. Tail(buf) # << >> => Len(Tail(buf)) \in Nat \ {0}
    BY <1>2, EmptySeq
  <2>2. Tail(buf) = << >> => Len(Tail(buf)) = 0
    BY EmptySeq
  <2>3. Len(Tail(buf)) = Len(buf) - 1 /\ Len(buf) \in Nat
    BY <1>2
  <2>4. Len(buf) = 1 => Len(Tail(buf)) = 0
    BY <2>3
  <2>5. Len(Tail(buf)) = 0 => Len(buf) = 1
    BY <2>3
  <2> QED
    BY <2>1, <2>2, <2>4, <2>5
<1> QED
  BY <1>2, <1>3, <1>4

\* A write keeps the bound of the kernel.
LEMMA WriteFits ==
  ASSUME FlowInv, pc # "end", NEW p \in Peers, NEW u \in Nat, Write(p, u), UNCHANGED got
  PROVE  /\ out' \in [Peers -> Seq(Nat)]
         /\ \A q \in Peers : Len(out'[q]) <= Capacity /\ Len(out'[q]) <= Capacity + 1
<1>1. TypeOK /\ Capacity \in Nat /\ \A q \in Peers : Len(out[q]) <= Capacity
  BY TunnelAssumption DEF FlowInv, Places
<1>2. /\ out' \in [Peers -> Seq(Nat)]
      /\ \A q \in Peers \ {p} : out'[q] = out[q]
      /\ \/ out' = out
         \/ Len(out[p]) < Capacity /\ Len(out'[p]) = Len(out[p]) + 1
  BY <1>1, WriteAppends
<1>3. \A q \in Peers : Len(out[q]) \in Nat
  BY <1>1, LenProperties DEF TypeOK
<1>4. ASSUME NEW q \in Peers PROVE Len(out'[q]) <= Capacity
  <2>1. CASE q = p
    BY <2>1, <1>1, <1>2, <1>3
  <2>2. CASE q # p
    BY <2>2, <1>1, <1>2
  <2> QED
    BY <2>1, <2>2
<1>5. \A q \in Peers : Len(out'[q]) \in Nat
  BY <1>2, LenProperties
<1> QED
  BY <1>1, <1>2, <1>4, <1>5

LEMMA WriteRequestKeeps ==
  ASSUME FlowInv, WriteRequest
  PROVE  FlowInv'
<1>0. TypeOK /\ "client" \in Peers /\ "backend" \in Peers /\ buf # << >> /\ pc = "write"
  BY PeerFacts DEF FlowInv, Places, WriteRequest
<1>1. /\ Write("backend", Head(buf)) /\ buf' = Tail(buf)
      /\ pc' = (IF Len(buf) = 1 THEN "response" ELSE "write")
      /\ content_length' = content_length /\ in' = in /\ got' = got /\ sent' = sent
      /\ peer' = peer /\ shut' = shut /\ copy' = copy /\ dropped' = dropped
  BY <1>0 DEF WriteRequest
<1>2. /\ Head(buf) \in Nat /\ Head(buf) = buf[1] /\ Len(buf) \in Nat \ {0}
      /\ Tail(buf) \in Seq(Nat) /\ Len(Tail(buf)) = Len(buf) - 1
      /\ \A i \in 1 .. Len(Tail(buf)) : Tail(buf)[i] = buf[i + 1]
      /\ Len(buf) = 1 => Tail(buf) = << >>
      /\ Len(buf) # 1 => Tail(buf) # << >>
  BY <1>0, BufferTail
<1>3. /\ \A q \in Peers \ {"backend"} : Written(q)' = Written(q)
      /\ \/ peer["backend"] = "gone" /\ Written("backend")' = Written("backend")
         \/ peer["backend"] # "gone" /\ Written("backend")' = Append(Written("backend"), Head(buf))
  BY <1>0, <1>1, <1>2, WriteAppends
<1>4. /\ out' \in [Peers -> Seq(Nat)]
      /\ \A q \in Peers : Len(out'[q]) <= Capacity /\ Len(out'[q]) <= Capacity + 1
  BY <1>0, <1>1, <1>2, WriteFits
<1>5. Written("client")' = Written("client")
  BY <1>0, <1>3
<1>6. /\ pc' \in {"write", "response"} /\ RequestBuf = buf /\ RequestBuf' = Tail(buf)
      /\ ResponseBuf' = << >> /\ ResponseBuf = << >>
      /\ pc' = "write" => buf' # << >>
  BY <1>0, <1>1, <1>2 DEF RequestBuf, ResponseBuf
<1>7. TypeOK' /\ ArrivesInOrder'
  BY <1>0, <1>1, <1>2, <1>4, <1>6, ArrivalsUntouched DEF FlowInv, TypeOK
<1>8. ResponseFlows' /\ ResponseStream'
  <2>1. Flowing("client")' => Flowing("client")
    BY <1>0, <1>1 DEF Flowing
  <2>2. ResponseFlows'
    BY <2>1, <1>0, <1>1, <1>5, <1>6, ResponseUntouched
  <2> QED
    BY <2>2, <1>5 DEF FlowInv, ResponseStream
<1>9. Places'
  BY <1>0, <1>1, <1>4, <1>5, <1>6 DEF FlowInv, Places
<1>10. RequestFlows'
  <2>1. CASE peer["backend"] = "gone"
    <3>1. Written("backend")' = Written("backend") /\ ~Flowing("backend")'
      BY <2>1, <1>1, <1>3 DEF Flowing
    <3> QED
      BY <3>1, <1>1, RequestUntouched
  <2>2. CASE peer["backend"] # "gone"
    <3> DEFINE w == Delivered("backend")  n == Len(buf)  n2 == Len(Tail(buf))  m == Waiting("client")
    <3>0. Written("backend")' = Append(Written("backend"), Head(buf)) /\ Flowing("backend")
      BY <2>2, <1>0, <1>3 DEF Flowing
    <3>1. /\ w \in Nat /\ n \in Nat \ {0} /\ n2 = n - 1 /\ m \in Nat /\ dropped \in Nat
          /\ sent["client"] \in Nat /\ Units["client"] \in Nat /\ sent["client"] <= Units["client"]
          /\ w + n + dropped + m = sent["client"]
      <4>1. RequestHeld = n
        BY <1>6 DEF RequestHeld
      <4> QED
        BY <4>1, <3>0, <1>0, <1>2, Counts
    <3>2. \A i \in 1 .. n : buf[i] = RequestUnit(w + i)
      BY <3>0, <1>6 DEF FlowInv, RequestFlows, Delivered
    <3>3. /\ w + n >= HeadLen
          /\ (content_length # NoLength /\ peer["client"] = "open")
               => w + n >= HeadLen + content_length
      BY <3>0, <1>0, <1>6 DEF FlowInv, RequestFlows, Delivered
    <3>4. \A i \in 1 .. n2 : Tail(buf)[i] = buf[i + 1]
      BY <1>2
    <3> HIDE DEF w, n, n2, m
    <3>5. w + 1 <= Units["client"] /\ 1 \in 1 .. n
      BY <3>1
    <3>6. Head(buf) = RequestUnit(w + 1)
      BY <3>2, <3>5, <1>2
    <3>7. /\ Delivered("backend")' = w + 1
          /\ (Len(Written("backend")) <= Units["client"])'
          /\ (\A i \in 1 .. Len(Written("backend")) : Written("backend")[i] = RequestUnit(i))'
      BY <3>0, <3>5, <3>6, <1>1, <1>2, RequestAppended DEF w
    <3>8. (w + 1) + n2 + dropped + m = sent["client"] /\ (w + 1) + n2 = w + n
      BY <3>1
    <3>9. ASSUME NEW i \in 1 .. n2 PROVE Tail(buf)[i] = RequestUnit((w + 1) + i)
      <4>1. i + 1 \in 1 .. n /\ w + (i + 1) = (w + 1) + i
        BY <3>1
      <4> QED
        BY <4>1, <3>2, <3>4
    <3>10. Len(Written("backend"))' = w + 1
      BY <3>7 DEF Delivered
    <3>11. /\ (Len(Written("backend")) + Len(RequestBuf) + dropped + Len(in["client"])
                = sent["client"])'
           /\ (Len(Written("backend")) + Len(RequestBuf))' = w + n
      BY <3>8, <3>10, <1>1, <1>6 DEF n2, m, Waiting
    <3>12. (\A i \in 1 .. Len(RequestBuf) :
              RequestBuf[i] = RequestUnit(Len(Written("backend")) + i))'
      <4>1. Len(RequestBuf)' = n2 /\ RequestBuf' = Tail(buf)
        BY <1>6 DEF n2
      <4>2. ASSUME NEW i \in 1 .. n2
            PROVE  Tail(buf)[i] = IF (w + 1) + i <= HeadLen THEN (w + 1) + i
                                  ELSE (w + 1) + i + dropped'
        BY <3>9, <1>1 DEF RequestUnit
      <4> QED
        BY <4>1, <4>2, <3>10 DEF RequestUnit
    <3> QED
      BY <3>3, <3>7, <3>11, <3>12, <1>1 DEF RequestFlows
  <2> QED
    BY <2>1, <2>2
<1> QED
  BY <1>7, <1>8, <1>9, <1>10 DEF FlowInv

LEMMA WriteReplyKeeps ==
  ASSUME FlowInv, WriteReply
  PROVE  FlowInv'
<1>0. TypeOK /\ "client" \in Peers /\ "backend" \in Peers /\ buf # << >> /\ pc = "reply"
  BY PeerFacts DEF FlowInv, Places, WriteReply
<1>1. /\ Write("client", Head(buf)) /\ buf' = Tail(buf)
      /\ content_length' = content_length /\ in' = in /\ got' = got /\ sent' = sent
      /\ peer' = peer /\ shut' = shut /\ dropped' = dropped
      /\ \/ Len(buf) = 1 /\ pc' = "copy" /\ copy' = [p \in Peers |-> "on"]
         \/ Len(buf) # 1 /\ pc' = "reply" /\ copy' = copy
  BY <1>0 DEF WriteReply
<1>2. /\ Head(buf) \in Nat /\ Head(buf) = buf[1] /\ Len(buf) \in Nat \ {0}
      /\ Tail(buf) \in Seq(Nat) /\ Len(Tail(buf)) = Len(buf) - 1
      /\ \A i \in 1 .. Len(Tail(buf)) : Tail(buf)[i] = buf[i + 1]
      /\ Len(buf) = 1 => Tail(buf) = << >>
      /\ Len(buf) # 1 => Tail(buf) # << >>
  BY <1>0, BufferTail
<1>3. /\ \A q \in Peers \ {"client"} : Written(q)' = Written(q)
      /\ \/ peer["client"] = "gone" /\ Written("client")' = Written("client")
         \/ peer["client"] # "gone" /\ Written("client")' = Append(Written("client"), Head(buf))
  BY <1>0, <1>1, <1>2, WriteAppends
<1>4. /\ out' \in [Peers -> Seq(Nat)]
      /\ \A q \in Peers : Len(out'[q]) <= Capacity /\ Len(out'[q]) <= Capacity + 1
  BY <1>0, <1>1, <1>2, WriteFits
<1>5. Written("backend")' = Written("backend")
  BY <1>0, <1>3
<1>6. /\ pc' \in {"reply", "copy"} /\ ResponseBuf = buf /\ ResponseBuf' = Tail(buf)
      /\ RequestBuf' = << >> /\ RequestBuf = << >>
      /\ pc' = "reply" => buf' # << >>
  BY <1>0, <1>1, <1>2 DEF RequestBuf, ResponseBuf
<1>7. /\ copy' \in [Peers -> {"off", "on", "ok", "failed"}]
      /\ pc' = "copy" => \A p \in Peers : ~Done(p)'
  BY <1>0, <1>1 DEF TypeOK, Done
<1>8. TypeOK' /\ ArrivesInOrder'
  BY <1>0, <1>1, <1>2, <1>4, <1>6, <1>7, ArrivalsUntouched DEF FlowInv, TypeOK
<1>9. RequestFlows'
  <2>1. Flowing("backend")' => Flowing("backend")
    BY <1>0, <1>1 DEF Flowing
  <2> QED
    BY <2>1, <1>0, <1>1, <1>5, <1>6, RequestUntouched
<1>10. Places'
  BY <1>0, <1>1, <1>4, <1>5, <1>6, <1>7 DEF FlowInv, Places
<1>11. ResponseFlows' /\ ResponseStream'
  <2>1. CASE peer["client"] = "gone"
    <3>1. Written("client")' = Written("client") /\ ~Flowing("client")' /\ pc # "end"
      BY <2>1, <1>0, <1>1, <1>3 DEF Flowing
    <3>2. ResponseFlows'
      BY <3>1, ResponseUntouched
    <3> QED
      BY <3>1, <3>2 DEF FlowInv, ResponseStream
  <2>2. CASE peer["client"] # "gone"
    <3> DEFINE w == Delivered("client")  n == Len(buf)  n2 == Len(Tail(buf))  m == Waiting("backend")
    <3>0. /\ Written("client")' = Append(Written("client"), Head(buf))
          /\ Flowing("client") /\ pc # "end"
      BY <2>2, <1>0, <1>3 DEF Flowing
    <3>1. /\ w \in Nat /\ n \in Nat \ {0} /\ n2 = n - 1 /\ m \in Nat
          /\ sent["backend"] \in Nat /\ Units["backend"] \in Nat /\ sent["backend"] <= Units["backend"]
          /\ w + n + m = sent["backend"]
      <4>1. ResponseHeld = n
        BY <1>6 DEF ResponseHeld
      <4> QED
        BY <4>1, <3>0, <1>0, <1>2, Counts
    <3>2. \A i \in 1 .. n : buf[i] = w + i
      BY <3>0, <1>6 DEF FlowInv, ResponseFlows, Delivered
    <3>3. \A i \in 1 .. n2 : Tail(buf)[i] = buf[i + 1]
      BY <1>2
    <3> HIDE DEF w, n, n2, m
    <3>4. w + 1 <= Units["backend"] /\ 1 \in 1 .. n
      BY <3>1
    <3>5. Head(buf) = w + 1
      BY <3>2, <3>4, <1>2
    <3>6. /\ Delivered("client")' = w + 1
          /\ (Len(Written("client")) <= Units["backend"])'
          /\ (\A i \in 1 .. Len(Written("client")) : Written("client")[i] = i)'
          /\ ResponseStream'
      BY <3>0, <3>4, <3>5, <1>2, ResponseAppended DEF w
    <3>7. (w + 1) + n2 + m = sent["backend"]
      BY <3>1
    <3>8. ASSUME NEW i \in 1 .. n2 PROVE Tail(buf)[i] = (w + 1) + i
      <4>1. i + 1 \in 1 .. n /\ w + (i + 1) = (w + 1) + i
        BY <3>1
      <4> QED
        BY <4>1, <3>2, <3>3
    <3>9. Len(Written("client"))' = w + 1
      BY <3>6 DEF Delivered
    <3>10. (Len(Written("client")) + Len(ResponseBuf) + Len(in["backend"]) = sent["backend"])'
      BY <3>7, <3>9, <1>1, <1>6 DEF n2, m, Waiting
    <3>11. (\A i \in 1 .. Len(ResponseBuf) : ResponseBuf[i] = Len(Written("client")) + i)'
      BY <3>8, <3>9, <1>6 DEF n2
    <3> QED
      BY <3>6, <3>10, <3>11 DEF ResponseFlows
  <2> QED
    BY <2>1, <2>2
<1> QED
  BY <1>8, <1>9, <1>10, <1>11 DEF FlowInv

-----------------------------------------------------------------------------
(***************************************************************************)
(* Copying                                                                 *)
(***************************************************************************)

\* The first of the arrivals is taken.
LEMMA FirstTaken ==
  ASSUME TypeOK, ArrivesInOrder, NEW p \in Peers, in[p] # << >>, sent' = sent,
         in' = [in EXCEPT ![p] = Tail(in[p])]
  PROVE  /\ in' \in [Peers -> Seq(Nat)] /\ ArrivesInOrder'
         /\ \A q \in Peers \ {p} : in'[q] = in[q]
         /\ Waiting(p) \in Nat \ {0} /\ Waiting(p)' = Waiting(p) - 1
         /\ Head(in[p]) \in Nat /\ Head(in[p]) = sent[p] - Waiting(p) + 1
<1>1. in \in [Peers -> Seq(Nat)] /\ in[p] \in Seq(Nat)
  BY DEF TypeOK
<1>2. /\ Head(in[p]) \in Nat /\ Tail(in[p]) \in Seq(Nat)
      /\ Len(in[p]) \in Nat \ {0} /\ Len(Tail(in[p])) = Len(in[p]) - 1
      /\ \A i \in 1 .. Len(Tail(in[p])) : Tail(in[p])[i] = in[p][i + 1]
  BY <1>1, HeadTailProperties, EmptySeq
<1>3. Head(in[p]) = in[p][1]
  BY <1>1
<1>4. /\ in' \in [Peers -> Seq(Nat)] /\ in'[p] = Tail(in[p])
      /\ \A q \in Peers \ {p} : in'[q] = in[q]
  BY <1>1, <1>2
<1>5. ArrivesInOrder'
  <2>1. 1 \in 1 .. Len(in[p]) /\ Len(in'[p]) = Len(in[p]) - 1
    BY <1>2, <1>4
  <2>2. ASSUME NEW i \in 1 .. Len(in[p]) - 1 PROVE in'[p][i] = in[p][1 + i]
    <3>1. i \in 1 .. Len(Tail(in[p])) /\ 1 + i = i + 1
      BY <1>2
    <3> QED
      BY <3>1, <1>2, <1>4
  <2> QED
    BY <2>1, <2>2, <1>4, ArrivalsTaken
<1>6. Head(in[p]) = sent[p] - Len(in[p]) + 1
  <2>1. 1 \in 1 .. Len(in[p])
    BY <1>2
  <2> QED
    BY <2>1, <1>3 DEF ArrivesInOrder
<1> QED
  BY <1>2, <1>4, <1>5, <1>6 DEF Waiting

LEMMA CopyUnitKeeps ==
  ASSUME FlowInv, NEW p \in Peers, pc = "copy", CopyUnit(p)
  PROVE  FlowInv'
<1>0. TypeOK /\ ArrivesInOrder /\ "client" \in Peers /\ "backend" \in Peers /\ Other(p) \in Peers
  BY PeerFacts DEF FlowInv
<1>1. /\ in[p] # << >> /\ Write(Other(p), Head(in[p])) /\ in' = [in EXCEPT ![p] = Tail(in[p])]
      /\ pc' = pc /\ content_length' = content_length /\ buf' = buf /\ got' = got /\ sent' = sent
      /\ peer' = peer /\ shut' = shut /\ copy' = copy /\ dropped' = dropped
  BY DEF CopyUnit
<1>2. /\ in' \in [Peers -> Seq(Nat)] /\ ArrivesInOrder'
      /\ \A q \in Peers \ {p} : in'[q] = in[q]
      /\ Waiting(p) \in Nat \ {0} /\ Waiting(p)' = Waiting(p) - 1
      /\ Head(in[p]) \in Nat /\ Head(in[p]) = sent[p] - Waiting(p) + 1
  BY <1>0, <1>1, FirstTaken
<1>3. /\ \A q \in Peers \ {Other(p)} : Written(q)' = Written(q)
      /\ \/ peer[Other(p)] = "gone" /\ Written(Other(p))' = Written(Other(p))
         \/ /\ peer[Other(p)] # "gone"
            /\ Written(Other(p))' = Append(Written(Other(p)), Head(in[p]))
  BY <1>0, <1>1, <1>2, WriteAppends
<1>4. /\ out' \in [Peers -> Seq(Nat)]
      /\ \A q \in Peers : Len(out'[q]) <= Capacity /\ Len(out'[q]) <= Capacity + 1
  BY <1>0, <1>1, <1>2, WriteFits
<1>5. /\ RequestBuf = << >> /\ RequestBuf' = << >> /\ ResponseBuf = << >> /\ ResponseBuf' = << >>
      /\ Len(<< >>) = 0 /\ RequestHeld = 0 /\ ResponseHeld = 0
      /\ Flowing("client")' = Flowing("client") /\ Flowing("backend")' = Flowing("backend")
  BY <1>1, EmptySeq DEF RequestBuf, ResponseBuf, RequestHeld, ResponseHeld, Flowing
<1>6. TypeOK'
  BY <1>0, <1>1, <1>2, <1>4 DEF TypeOK
<1>7. Places'
  BY <1>1, <1>4 DEF FlowInv, Places, Done
<1>8. CASE p = "client"
  <2>0. Other(p) = "backend" /\ Written("client")' = Written("client") /\ in'["backend"] = in["backend"]
    BY <1>0, <1>2, <1>3, <1>8, PeerFacts
  <2>1. ResponseFlows' /\ ResponseStream'
    <3>1. ResponseFlows'
      BY <2>0, <1>1, <1>5, ResponseUntouched
    <3> QED
      BY <2>0, <3>1 DEF FlowInv, ResponseStream
  <2>2. CASE peer["backend"] = "gone"
    <3>1. Written("backend")' = Written("backend") /\ ~Flowing("backend")'
      BY <2>0, <2>2, <1>1, <1>3 DEF Flowing
    <3>2. RequestFlows'
      BY <3>1, <1>1, RequestUntouched
    <3> QED
      BY <3>2, <2>1, <1>2, <1>6, <1>7 DEF FlowInv
  <2>3. CASE peer["backend"] # "gone"
    <3> DEFINE w == Delivered("backend")  m == Waiting("client")
    <3>0. Written("backend")' = Append(Written("backend"), Head(in["client"])) /\ Flowing("backend")
      BY <2>0, <2>3, <1>3, <1>8 DEF Flowing
    <3>1. /\ w \in Nat /\ m \in Nat \ {0} /\ m' = m - 1 /\ dropped \in Nat /\ HeadLen \in Nat
          /\ sent["client"] \in Nat /\ Units["client"] \in Nat /\ sent["client"] <= Units["client"]
          /\ w + 0 + dropped + m = sent["client"]
          /\ Head(in["client"]) = sent["client"] - m + 1 /\ Head(in["client"]) \in Nat
          /\ content_length # NoLength => content_length \in Nat
      BY <3>0, <1>0, <1>2, <1>5, <1>8, Counts
    <3>2. /\ w + 0 >= HeadLen
          /\ (content_length # NoLength /\ peer["client"] = "open")
               => w + 0 >= HeadLen + content_length
      BY <3>0, <1>5 DEF FlowInv, RequestFlows, Delivered
    <3>3. w + 1 <= Units["client"] /\ Head(in["client"]) = w + 1 + dropped /\ ~(w + 1 <= HeadLen)
      <4> HIDE DEF w, m
      <4> QED
        BY <3>1, <3>2
    <3>4. Head(in["client"]) = RequestUnit(w + 1)
      BY <3>3 DEF RequestUnit
    <3>5. /\ w' = w + 1
          /\ (Len(Written("backend")) <= Units["client"])'
          /\ (\A i \in 1 .. Len(Written("backend")) : Written("backend")[i] = RequestUnit(i))'
      BY <3>0, <3>1, <3>3, <3>4, <1>1, RequestAppended
    <3>6. /\ (w + 1) + 0 + dropped + (m - 1) = sent["client"] /\ (w + 1) + 0 >= HeadLen
          /\ (content_length # NoLength /\ peer["client"] = "open")
               => (w + 1) + 0 >= HeadLen + content_length
      <4> HIDE DEF w, m
      <4> QED
        BY <3>1, <3>2
    <3>7. Len(Written("backend"))' = w + 1 /\ Len(RequestBuf)' = 0 /\ Len(in'["client"]) = m - 1
      BY <3>1, <3>5, <1>5 DEF Delivered, Waiting
    <3>8. /\ (Len(Written("backend")) + Len(RequestBuf) + dropped + Len(in["client"])
               = sent["client"])'
          /\ (Len(Written("backend")) + Len(RequestBuf) >= HeadLen)'
          /\ ((content_length # NoLength /\ peer["client"] = "open")
               => Len(Written("backend")) + Len(RequestBuf) >= HeadLen + content_length)'
      BY <3>6, <3>7, <1>1
    <3>9. (\A i \in 1 .. Len(RequestBuf) :
             RequestBuf[i] = RequestUnit(Len(Written("backend")) + i))'
      BY <3>7
    <3>10. RequestFlows'
      BY <3>5, <3>8, <3>9 DEF RequestFlows
    <3> QED
      BY <3>10, <2>1, <1>2, <1>6, <1>7 DEF FlowInv
  <2> QED
    BY <2>2, <2>3
<1>9. CASE p = "backend"
  <2>0. /\ Other(p) = "client" /\ Written("backend")' = Written("backend")
        /\ in'["client"] = in["client"]
    BY <1>0, <1>2, <1>3, <1>9, PeerFacts
  <2>1. RequestFlows'
    BY <2>0, <1>1, <1>5, RequestUntouched
  <2>2. CASE peer["client"] = "gone"
    <3>1. Written("client")' = Written("client") /\ ~Flowing("client")'
      BY <2>0, <2>2, <1>1, <1>3 DEF Flowing
    <3>2. ResponseFlows'
      BY <3>1, <1>1, ResponseUntouched
    <3>3. ResponseStream'
      BY <3>1 DEF FlowInv, ResponseStream
    <3> QED
      BY <3>2, <3>3, <2>1, <1>2, <1>6, <1>7 DEF FlowInv
  <2>3. CASE peer["client"] # "gone"
    <3> DEFINE w == Delivered("client")  m == Waiting("backend")
    <3>0. Written("client")' = Append(Written("client"), Head(in["backend"])) /\ Flowing("client")
      BY <2>0, <2>3, <1>3, <1>9 DEF Flowing
    <3>1. /\ w \in Nat /\ m \in Nat \ {0} /\ m' = m - 1
          /\ sent["backend"] \in Nat /\ Units["backend"] \in Nat /\ sent["backend"] <= Units["backend"]
          /\ w + 0 + m = sent["backend"]
          /\ Head(in["backend"]) = sent["backend"] - m + 1 /\ Head(in["backend"]) \in Nat
      BY <3>0, <1>0, <1>2, <1>5, <1>9, Counts
    <3>2. w + 1 <= Units["backend"] /\ Head(in["backend"]) = w + 1
      <4> HIDE DEF w, m
      <4> QED
        BY <3>1
    <3>3. /\ w' = w + 1
          /\ (Len(Written("client")) <= Units["backend"])'
          /\ (\A i \in 1 .. Len(Written("client")) : Written("client")[i] = i)'
          /\ ResponseStream'
      BY <3>0, <3>1, <3>2, ResponseAppended
    <3>4. (w + 1) + 0 + (m - 1) = sent["backend"]
      <4> HIDE DEF w, m
      <4> QED
        BY <3>1
    <3>5. Len(Written("client"))' = w + 1 /\ Len(ResponseBuf)' = 0 /\ Len(in'["backend"]) = m - 1
      BY <3>1, <3>3, <1>5 DEF Delivered, Waiting
    <3>6. (Len(Written("client")) + Len(ResponseBuf) + Len(in["backend"]) = sent["backend"])'
      BY <3>4, <3>5, <1>1
    <3>7. (\A i \in 1 .. Len(ResponseBuf) : ResponseBuf[i] = Len(Written("client")) + i)'
      BY <3>5
    <3>8. ResponseFlows'
      BY <3>3, <3>6, <3>7 DEF ResponseFlows
    <3> QED
      BY <3>3, <3>8, <2>1, <1>2, <1>6, <1>7 DEF FlowInv
  <2> QED
    BY <2>2, <2>3
<1> QED
  BY <1>8, <1>9, PeerFacts

LEMMA FlowInit == Init => FlowInv
<1> SUFFICES ASSUME Init PROVE FlowInv
  OBVIOUS
<1>1. /\ pc = "head" /\ content_length \in ContentLengths /\ buf = << >> /\ dropped = 0
      /\ in = [p \in Peers |-> << >>] /\ out = [p \in Peers |-> << >>]
      /\ got = [p \in Peers |-> << >>] /\ sent = [p \in Peers |-> 0]
      /\ peer = [p \in Peers |-> "open"] /\ shut = [p \in Peers |-> FALSE]
      /\ copy = [p \in Peers |-> "off"]
  BY DEF Init
<1>2. << >> \in Seq(Nat) /\ Len(<< >>) = 0 /\ << >> \o << >> = << >>
  BY EmptySeq, ConcatEmptySeq
<1>3. /\ \A p \in Peers : /\ in[p] = << >> /\ out[p] = << >> /\ got[p] = << >>
                          /\ sent[p] = 0 /\ Written(p) = << >> /\ Units[p] \in Nat
      /\ "client" \in Peers /\ "backend" \in Peers
  BY <1>1, <1>2, PeerFacts DEF Written
<1>4. TypeOK
  BY <1>1, <1>2, <1>3, TunnelAssumption DEF TypeOK
<1>5. ArrivesInOrder
  BY <1>2, <1>3 DEF ArrivesInOrder
<1>6. RequestBuf = << >> /\ ResponseBuf = << >>
  BY <1>1 DEF RequestBuf, ResponseBuf
<1>7. RequestFlows /\ ResponseFlows
  BY <1>1, <1>2, <1>3, <1>6 DEF RequestFlows, ResponseFlows
<1>8. Places
  <2>1. \A p \in Peers : Len(out[p]) <= Capacity
    BY <1>2, <1>3, TunnelAssumption
  <2> QED
    BY <1>1, <1>3, <2>1 DEF Places
<1>9. ResponseStream
  <2> DEFINE s == Written("client")
  <2>0. s = << >> /\ Units["backend"] \in Nat
    BY <1>3
  <2> HIDE DEF s
  <2>1. s \in Seq(Nat) /\ Len(s) = 0
    BY <2>0, <1>2
  <2>2. IsPrefix(s, Stream(Units["backend"]))
    <3>1. Len(s) <= Units["backend"]
      BY <2>0, <2>1
    <3>2. \A i \in 1 .. Len(s) : s[i] = i
      BY <2>1
    <3> QED
      BY <2>1, <3>1, <3>2, ResponseIsAPrefix
  <2> QED
    BY <2>2 DEF s, ResponseStream
<1> QED
  BY <1>4, <1>5, <1>7, <1>8, <1>9 DEF FlowInv

LEMMA FlowStep == FlowInv /\ [Next]_vars => FlowInv'
<1> SUFFICES ASSUME FlowInv, [Next]_vars PROVE FlowInv'
  OBVIOUS
<1>1. CASE UNCHANGED vars
  BY <1>1, StutterKeeps
<1>2. ASSUME NEW p \in Peers, PeerSends(p) PROVE FlowInv'
  BY <1>2, PeerSendsKeeps
<1>3. ASSUME NEW p \in Peers, PeerReads(p) PROVE FlowInv'
  BY <1>3, PeerReadsKeeps
<1>4. ASSUME NEW p \in Peers, PeerCloses(p) PROVE FlowInv'
  BY <1>4, PeerClosesKeeps
<1>5. ASSUME NEW p \in Peers, Copy(p) PROVE FlowInv'
  BY <1>5, CopyUnitKeeps, CopyEndsKeeps DEF Copy
<1>6. ASSUME NEW k, ReadRequest(k) PROVE FlowInv'
  BY <1>6, ReadRequestKeeps
<1>7. ASSUME NEW k, ReadResponse(k) PROVE FlowInv'
  BY <1>7, ReadResponseKeeps
<1>8. CASE BodyEnds
  BY <1>8, BodyEndsKeeps
<1>9. CASE BadRequest
  BY <1>9, BadRequestKeeps
<1>10. CASE WriteRequest
  BY <1>10, WriteRequestKeeps
<1>11. CASE GatewayFails
  BY <1>11, GatewayFailsKeeps
<1>12. CASE WriteReply
  BY <1>12, WriteReplyKeeps
<1>13. CASE Join
  BY <1>13, JoinKeeps
<1> QED
  BY <1>1, <1>2, <1>3, <1>4, <1>5, <1>6, <1>7, <1>8, <1>9, <1>10, <1>11, <1>12, <1>13 DEF Next, Task

-----------------------------------------------------------------------------
(***************************************************************************)
(* No direction is cut off by the end of the other                         *)
(***************************************************************************)

\* Where no copy has begun nothing is over.
LEMMA NothingOver ==
  ASSUME CopiesComeLast, pc \notin {"copy", "end"},
         UNCHANGED copy \/ (pc' = "copy" /\ copy' = [p \in Peers |-> "on"])
  PROVE  CopiesComeLast' /\ NothingCutOff'
<1>1. \A p \in Peers : copy[p] = "off"
  BY DEF CopiesComeLast
<1>2. CASE UNCHANGED copy
  BY <1>1, <1>2 DEF CopiesComeLast, NothingCutOff, Over, Done
<1>3. CASE pc' = "copy" /\ copy' = [p \in Peers |-> "on"]
  BY <1>3 DEF CopiesComeLast, NothingCutOff, Over, Done
<1> QED
  BY <1>2, <1>3

\* What is over stays so, as long as nothing is sent or written behind it.
LEMMA StaysOver ==
  ASSUME NothingCutOff, NEW p \in Peers, Over(p), peer' = peer,
         Written(Other(p))' = Written(Other(p)), dropped' = dropped, sent' = sent
  PROVE  SomeoneGone' \/ (peer'[p] = "fin" /\ AllWritten(p)')
<1>1. SomeoneGone \/ (peer[p] = "fin" /\ AllWritten(p))
  BY DEF NothingCutOff
<1>2. SomeoneGone' = SomeoneGone
  BY DEF SomeoneGone
<1>3. AllWritten(p)' = AllWritten(p)
  BY PeerFacts DEF AllWritten
<1> QED
  BY <1>1, <1>2, <1>3

LEMMA RestKeepsUncut ==
  ASSUME NothingCutOff, CopiesComeLast, UNCHANGED <<pc, copy, peer, dropped, sent>>,
         \A q \in Peers : Written(q)' = Written(q)
  PROVE  CopiesComeLast' /\ NothingCutOff'
<1>1. CopiesComeLast'
  BY DEF CopiesComeLast
<1>2. ASSUME NEW p \in Peers, Over(p)'
      PROVE  SomeoneGone' \/ (peer'[p] = "fin" /\ AllWritten(p)')
  <2>1. Over(p)
    BY <1>2 DEF Over, Done
  <2> QED
    BY <2>1, PeerFacts, StaysOver
<1> QED
  BY <1>1, <1>2 DEF NothingCutOff

\* The peers send nothing behind the end of their stream.
LEMMA PeerKeepsUncut ==
  ASSUME TypeOK, NothingCutOff, CopiesComeLast, NEW q \in Peers,
         PeerSends(q) \/ PeerCloses(q)
  PROVE  CopiesComeLast' /\ NothingCutOff'
<1>0. /\ pc' = pc /\ copy' = copy /\ out' = out /\ got' = got /\ dropped' = dropped
      /\ peer \in [Peers -> {"open", "fin", "gone"}] /\ sent \in [Peers -> Nat]
  BY DEF PeerSends, PeerCloses, TypeOK
<1>1. CopiesComeLast'
  BY <1>0 DEF CopiesComeLast
<1>2. \A p \in Peers : Written(p)' = Written(p)
  BY <1>0 DEF Written
<1>3. ASSUME NEW p \in Peers, Over(p)'
      PROVE  SomeoneGone' \/ (peer'[p] = "fin" /\ AllWritten(p)')
  <2>1. SomeoneGone \/ (peer[p] = "fin" /\ AllWritten(p))
    BY <1>0, <1>3 DEF Over, Done, NothingCutOff
  <2>2. CASE SomeoneGone
    BY <1>0, <2>2 DEF SomeoneGone, PeerSends, PeerCloses
  <2>3. CASE peer[p] = "fin" /\ AllWritten(p) /\ ~SomeoneGone
    <3>1. CASE PeerSends(q)
      <4>1. q # p /\ sent'[p] = sent[p] /\ peer' = peer
        BY <1>0, <2>3, <3>1 DEF PeerSends
      <4>2. AllWritten(p)'
        BY <1>0, <1>2, <2>3, <4>1, PeerFacts DEF AllWritten
      <4> QED
        BY <2>3, <4>1, <4>2
    <3>2. CASE PeerCloses(q) /\ peer'[q] = "gone"
      BY <3>2 DEF SomeoneGone
    <3>3. CASE PeerCloses(q) /\ peer'[q] # "gone"
      <4>1. peer[q] = "open" /\ peer' = [peer EXCEPT ![q] = "fin"] /\ sent' = sent
        BY <1>0, <3>3 DEF PeerCloses
      <4>2. peer'[p] = "fin"
        BY <1>0, <2>3, <4>1
      <4>3. AllWritten(p)'
        BY <1>0, <1>2, <2>3, <4>1, PeerFacts DEF AllWritten
      <4> QED
        BY <4>2, <4>3
    <3> QED
      BY <3>1, <3>2, <3>3
  <2> QED
    BY <2>1, <2>2, <2>3
<1> QED
  BY <1>1, <1>3 DEF NothingCutOff

\* A copy writes to the receiver of its own direction, which is not over.
LEMMA CopyUnitCutsNothing ==
  ASSUME TypeOK, NothingCutOff, NEW q \in Peers, pc = "copy", CopyUnit(q)
  PROVE  CopiesComeLast' /\ NothingCutOff'
<1>0. /\ pc' = pc /\ copy' = copy /\ got' = got /\ peer' = peer /\ dropped' = dropped /\ sent' = sent
      /\ copy[q] = "on" /\ in[q] # << >> /\ in \in [Peers -> Seq(Nat)]
      /\ Write(Other(q), Head(in[q])) /\ Other(q) \in Peers
  BY PeerFacts DEF CopyUnit, TypeOK
<1>1. Head(in[q]) \in Nat
  BY <1>0, HeadTailProperties
<1>2. \A p \in Peers \ {Other(q)} : Written(p)' = Written(p)
  BY <1>0, <1>1, WriteAppends
<1>3. ASSUME NEW p \in Peers, Over(p)'
      PROVE  SomeoneGone' \/ (peer'[p] = "fin" /\ AllWritten(p)')
  <2>1. Over(p) /\ p # q
    BY <1>0, <1>3 DEF Over, Done
  <2>2. Other(p) \in Peers \ {Other(q)}
    BY <2>1 DEF Other, Peers
  <2>3. Written(Other(p))' = Written(Other(p))
    BY <1>2, <2>2
  <2> QED
    BY <1>0, <2>1, <2>3, StaysOver
<1> QED
  BY <1>0, <1>3 DEF NothingCutOff, CopiesComeLast

\* A copy ends well when its stream has ended and nothing of it is left; then the
\* counts of the flow say that the other peer was written all of it.
LEMMA CopyEndsCutsNothing ==
  ASSUME FlowInv, NothingCutOff, NEW q \in Peers, pc = "copy", CopyEnds(q)
  PROVE  CopiesComeLast' /\ NothingCutOff'
<1>0. /\ pc' = pc /\ in' = in /\ out' = out /\ got' = got /\ peer' = peer
      /\ dropped' = dropped /\ sent' = sent
      /\ copy \in [Peers -> {"off", "on", "ok", "failed"}] /\ TypeOK
  BY DEF CopyEnds, FlowInv, TypeOK
<1>1. \A p \in Peers : Written(p)' = Written(p)
  BY <1>0 DEF Written
<1>2. SomeoneGone' = SomeoneGone
  BY <1>0 DEF SomeoneGone
<1>3. ASSUME NEW p \in Peers, Over(p)'
      PROVE  SomeoneGone' \/ (peer'[p] = "fin" /\ AllWritten(p)')
  <2>1. CASE p # q
    <3>1. copy'[p] = copy[p]
      BY <1>0, <2>1 DEF CopyEnds
    <3>2. Over(p)
      BY <1>0, <1>3, <3>1 DEF Over, Done
    <3> QED
      BY <1>0, <1>1, <3>2, PeerFacts, StaysOver
  <2>2. CASE SomeoneGone
    BY <1>2, <2>2
  <2>3. CASE p = q /\ ~SomeoneGone
    <3>1. in[p] = << >> /\ peer[p] = "fin"
      BY <2>3, PeerFacts DEF CopyEnds, Ends, SomeoneGone
    <3>2. Flowing("client") /\ Flowing("backend")
      BY <2>3, PeerFacts DEF Flowing, SomeoneGone
    <3>3. RequestHeld = 0 /\ ResponseHeld = 0 /\ Waiting(p) = 0
      BY <3>1, EmptySeq DEF RequestHeld, ResponseHeld, RequestBuf, ResponseBuf, Waiting
    <3>4. AllWritten(p)
      <4>1. CASE p = "client"
        <5>1. Delivered("backend") + dropped = sent["client"]
          <6>1. /\ Delivered("backend") \in Nat /\ dropped \in Nat /\ sent["client"] \in Nat
                /\ Delivered("backend") + RequestHeld + dropped + Waiting("client") = sent["client"]
            BY <3>2, Counts, PeerFacts
          <6> QED
            BY <3>3, <4>1, <6>1
        <5> QED
          BY <4>1, <5>1 DEF AllWritten, Delivered
      <4>2. CASE p = "backend"
        <5>1. Delivered("client") = sent["backend"]
          <6>1. /\ Delivered("client") \in Nat /\ sent["backend"] \in Nat
                /\ Delivered("client") + ResponseHeld + Waiting("backend") = sent["backend"]
            BY <3>2, Counts, PeerFacts
          <6> QED
            BY <3>3, <4>2, <6>1
        <5> QED
          BY <4>2, <5>1 DEF AllWritten, Delivered
      <4> QED
        BY <4>1, <4>2, PeerFacts
    <3>5. AllWritten(p)' = AllWritten(p)
      BY <1>0, <1>1, PeerFacts DEF AllWritten
    <3> QED
      BY <1>0, <3>1, <3>4, <3>5
  <2> QED
    BY <2>1, <2>2, <2>3
<1> QED
  BY <1>0, <1>3 DEF NothingCutOff, CopiesComeLast

\* The connection ends with both copies, and the copies of both directions have shut
\* the streams: an answer of the proxy's own is not put behind a response.
LEMMA JoinCutsNothing ==
  ASSUME FlowInv, NothingCutOff, Join
  PROVE  CopiesComeLast' /\ NothingCutOff'
<1>0. /\ pc = "copy" /\ TypeOK /\ pc' = "end" /\ got' = got /\ peer' = peer /\ copy' = copy
      /\ dropped' = dropped /\ sent' = sent /\ \A p \in Peers : Done(p)
  BY DEF Join, BothDone, Answer, FlowInv
<1>1. \A p \in Peers : shut[Other(p)]
  BY <1>0 DEF FlowInv, Places
<1>2. shut["client"]
  BY <1>1, PeerFacts
<1>3. out' = out
  BY <1>2 DEF Join, Answer
<1>4. \A p \in Peers : Written(p)' = Written(p)
  BY <1>0, <1>3 DEF Written
<1>5. ASSUME NEW p \in Peers, Over(p)'
      PROVE  SomeoneGone' \/ (peer'[p] = "fin" /\ AllWritten(p)')
  <2>1. Over(p)
    BY <1>0 DEF Over
  <2> QED
    BY <1>0, <1>4, <2>1, PeerFacts, StaysOver
<1> QED
  BY <1>0, <1>5 DEF NothingCutOff, CopiesComeLast

LEMMA UncutStep ==
  ASSUME FlowInv, CopiesComeLast, NothingCutOff, [Next]_vars
  PROVE  CopiesComeLast' /\ NothingCutOff'
<1>0. TypeOK
  BY DEF FlowInv
<1>1. CASE UNCHANGED vars
  <2>1. UNCHANGED <<pc, copy, peer, dropped, sent>> /\ \A q \in Peers : Written(q)' = Written(q)
    BY <1>1 DEF vars, Written
  <2> QED
    BY <2>1, RestKeepsUncut
<1>2. ASSUME NEW p \in Peers, PeerSends(p) \/ PeerCloses(p)
      PROVE  CopiesComeLast' /\ NothingCutOff'
  BY <1>0, <1>2, PeerKeepsUncut
<1>3. ASSUME NEW p \in Peers, PeerReads(p) PROVE CopiesComeLast' /\ NothingCutOff'
  <2>1. \A q \in Peers : Written(q)' = Written(q)
    BY <1>0, <1>3, ReadingMoves
  <2>2. UNCHANGED <<pc, copy, peer, dropped, sent>>
    BY <1>3 DEF PeerReads
  <2> QED
    BY <2>1, <2>2, RestKeepsUncut
<1>4. ASSUME NEW p \in Peers, Copy(p) PROVE CopiesComeLast' /\ NothingCutOff'
  BY <1>0, <1>4, CopyUnitCutsNothing, CopyEndsCutsNothing DEF Copy
<1>5. ASSUME \/ \E k \in 1 .. Units["client"] : ReadRequest(k)
             \/ \E k \in 1 .. Units["backend"] : ReadResponse(k)
             \/ BodyEnds \/ BadRequest \/ WriteRequest \/ GatewayFails \/ WriteReply
      PROVE  CopiesComeLast' /\ NothingCutOff'
  <2>1. pc \notin {"copy", "end"}
    BY <1>5 DEF ReadRequest, ReadResponse, BodyEnds, BadRequest, WriteRequest, GatewayFails, WriteReply
  <2>2. UNCHANGED copy \/ (pc' = "copy" /\ copy' = [p \in Peers |-> "on"])
    BY <1>5 DEF ReadRequest, ReadResponse, BodyEnds, BadRequest, WriteRequest, GatewayFails,
                WriteReply, Answer
  <2> QED
    BY <2>1, <2>2, NothingOver
<1>6. CASE Join
  BY <1>6, JoinCutsNothing
<1> QED
  BY <1>1, <1>2, <1>3, <1>4, <1>5, <1>6 DEF Next, Task

-----------------------------------------------------------------------------
(***************************************************************************)
(* The theorems                                                            *)
(***************************************************************************)

LEMMA TunnelInit == Init => TunnelInv
<1> SUFFICES ASSUME Init PROVE TunnelInv
  OBVIOUS
<1>1. FlowInv
  BY FlowInit
<1>2. pc = "head" /\ \A p \in Peers : copy[p] = "off"
  BY DEF Init
<1>3. CopiesComeLast /\ NothingCutOff
  BY <1>2 DEF CopiesComeLast, NothingCutOff, Over, Done
<1> QED
  BY <1>1, <1>3 DEF TunnelInv

LEMMA TunnelStep == TunnelInv /\ [Next]_vars => TunnelInv'
BY FlowStep, UncutStep DEF TunnelInv

\* The inductive invariant holds: whatever the peers do and however the reads are
\* cut, the units under way are consecutive parts of the two streams that
\* socket_to_request and proxy_directive pass on.
THEOREM TunnelInvariant == Spec => []TunnelInv
<1>1. TunnelInv /\ [Next]_vars => TunnelInv'
  BY TunnelStep
<1> QED
  BY <1>1, TunnelInit, PTL DEF Spec

\* The variables keep their types, and no write of the proxy goes beyond what the
\* kernel takes, but for its own answer (reverse_proxy.rs, write_all).
THEOREM TunnelTypeCorrect == Spec => []TypeOK
<1>1. TunnelInv => TypeOK
  BY DEF TunnelInv, FlowInv
<1> QED
  BY <1>1, TunnelInvariant, PTL

\* The backend gets the units of the client in order and without a gap, but for
\* those that were read behind a head without Content-Length (request.rs:135).
THEOREM RequestStreamKept == Spec => []RequestStream
<1>1. TunnelInv => RequestStream
  <2> SUFFICES ASSUME TunnelInv PROVE RequestStream
    OBVIOUS
  <2>1. /\ Written("backend") \in Seq(Nat) /\ Len(Written("backend")) \in Nat
        /\ Units["client"] \in Nat /\ HeadLen \in Nat /\ dropped \in Nat
    BY WrittenType, BufTypes, PeerFacts, TunnelAssumption DEF TunnelInv, FlowInv
  <2>2. /\ Len(Written("backend")) <= Units["client"]
        /\ \A i \in 1 .. Len(Written("backend")) : Written("backend")[i] = RequestUnit(i)
    BY DEF TunnelInv, FlowInv, RequestFlows
  <2>3. Forwarded \in [1 .. Units["client"] -> Nat]
    BY <2>1 DEF Forwarded, RequestUnit
  <2>4. \A i \in 1 .. Len(Written("backend")) : Written("backend")[i] = Forwarded[i]
    BY <2>1, <2>2 DEF Forwarded
  <2>5. IsPrefix(Written("backend"), Forwarded)
    BY <2>1, <2>2, <2>3, <2>4, PrefixByUnits
  <2> QED
    BY <2>5 DEF TunnelInv, FlowInv, Places, RequestStream
<1> QED
  BY <1>1, TunnelInvariant, PTL

\* The client gets a part of the backend's response, in order, or one answer of the
\* proxy's own, never both, although a copy that fails makes directive_process
\* answer 502 after the response has begun (directive.rs:157).
THEOREM ResponseStreamKept == Spec => []ResponseStream
<1>1. TunnelInv => ResponseStream
  BY DEF TunnelInv, FlowInv
<1> QED
  BY <1>1, TunnelInvariant, PTL

\* A response is awaited only when the whole body that Content-Length announces was
\* written, unless the client has ended its stream (request.rs, the body loop).
THEOREM WholeRequestIsFirst == Spec => []WholeRequestFirst
<1>1. TunnelInv => WholeRequestFirst
  <2> SUFFICES ASSUME TunnelInv, pc \in {"response", "reply", "copy"}, content_length # NoLength,
                      peer["client"] = "open", peer["backend"] # "gone"
               PROVE  Len(Written("backend")) >= HeadLen + content_length
    BY DEF WholeRequestFirst
  <2>1. RequestBuf = << >> /\ Len(<< >>) = 0 /\ Flowing("backend")
    BY EmptySeq DEF RequestBuf, Flowing
  <2>2. Len(Written("backend")) + 0 >= HeadLen + content_length
    BY <2>1 DEF TunnelInv, FlowInv, RequestFlows
  <2>3. Len(Written("backend")) \in Nat
    BY WrittenType, PeerFacts DEF TunnelInv, FlowInv
  <2> QED
    BY <2>2, <2>3
<1> QED
  BY <1>1, TunnelInvariant, PTL

\* As long as neither peer is gone, a direction that is over is one whose sender has
\* ended its stream, and all of it was written to the other peer: neither copy ends
\* with the other (tokio::join!, reverse_proxy.rs:181).
THEOREM NothingIsCutOff == Spec => []NothingCutOff
<1>1. TunnelInv => NothingCutOff
  BY DEF TunnelInv
<1> QED
  BY <1>1, TunnelInvariant, PTL
=============================================================================
