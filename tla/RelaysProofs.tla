------------------------------ MODULE RelaysProofs ------------------------------
(***************************************************************************)
(* Proofs about the four relays, for any number of bytes and any size of   *)
(* the socket buffers.  What is on its way to a side is one sequence: what *)
(* the side has read, its buffer, what the relay holds, and what the relay *)
(* has not read yet.  Every step of a peer or a relay moves bytes within   *)
(* that sequence, adds the next byte at its end, or drops a part of it.    *)
(***************************************************************************)
EXTENDS MCPrograms, SequenceTheorems, TLAPS

----------------------------------------------------------------------------
(* Sequences of bytes *)

Bytes == Seq(Nat)

\* Nothing comes twice or out of order, and nothing comes that was not sent.
Run(w, n) == /\ \A i, j \in 1..Len(w) : i < j => w[i] < w[j]
             /\ \A i \in 1..Len(w) : w[i] <= n

LEMMA Joined ==
  ASSUME NEW a \in Bytes, NEW b \in Bytes
  PROVE  /\ a \o b \in Bytes
         /\ Len(a) \in Nat /\ Len(b) \in Nat /\ Len(a \o b) = Len(a) + Len(b)
BY ConcatProperties, LenProperties DEF Bytes

LEMMA Associative ==
  ASSUME NEW a \in Bytes, NEW b \in Bytes, NEW c \in Bytes
  PROVE  a \o b \o c = a \o (b \o c)
BY ConcatAssociative DEF Bytes

\* The same for more parts, under names: a prover that has the equations for all
\* sequences applies them without an end.
Grouped(a, b, c) == a \o b \o c = a \o (b \o c)
Parts(g, o, m, i) == /\ g \o o \in Bytes /\ m \o i \in Bytes /\ g \o o \o m \in Bytes
                     /\ g \o o \o m \o i \in Bytes
                     /\ g \o o \o m \o i = g \o o \o (m \o i)

LEMMA ThreeParts ==
  ASSUME NEW a \in Bytes, NEW b \in Bytes, NEW c \in Bytes
  PROVE  Grouped(a, b, c)
BY Associative DEF Grouped

LEMMA FourParts ==
  ASSUME NEW g \in Bytes, NEW o \in Bytes, NEW m \in Bytes, NEW i \in Bytes
  PROVE  Parts(g, o, m, i)
<1>1. g \o o \in Bytes /\ m \o i \in Bytes
  BY Joined
<1>2. g \o o \o m \in Bytes
  BY <1>1, Joined
<1>3. g \o o \o m \o i \in Bytes
  BY <1>2, Joined
<1>4. \A w \in Bytes : w \o m \o i = w \o (m \o i)
  BY Associative
<1> QED BY <1>1, <1>2, <1>3, <1>4 DEF Parts

\* An element of a concatenation is one of its parts'.
LEMMA PartsOf ==
  ASSUME NEW a \in Bytes, NEW b \in Bytes
  PROVE  /\ \A i \in 1..Len(a) : i \in 1..Len(a \o b) /\ (a \o b)[i] = a[i]
         /\ \A i \in 1..Len(b) : Len(a) + i \in 1..Len(a \o b) /\ (a \o b)[Len(a) + i] = b[i]
         /\ \A i \in 1..Len(a \o b) : \/ i \in 1..Len(a)
                                      \/ \E k \in 1..Len(b) : i = Len(a) + k
<1>1. /\ Len(a) \in Nat /\ Len(b) \in Nat /\ Len(a \o b) = Len(a) + Len(b)
      /\ \A i \in 1..(Len(a) + Len(b)) :
           (a \o b)[i] = IF i <= Len(a) THEN a[i] ELSE b[i - Len(a)]
  BY ConcatProperties, LenProperties DEF Bytes
<1>2. \A i \in 1..Len(a) : i \in 1..Len(a \o b) /\ (a \o b)[i] = a[i]
  BY <1>1
<1>3. \A i \in 1..Len(b) : Len(a) + i \in 1..Len(a \o b) /\ (a \o b)[Len(a) + i] = b[i]
  <2> SUFFICES ASSUME NEW i \in 1..Len(b)
               PROVE  Len(a) + i \in 1..Len(a \o b) /\ (a \o b)[Len(a) + i] = b[i]
    OBVIOUS
  <2>1. /\ Len(a) + i \in 1..(Len(a) + Len(b)) /\ ~(Len(a) + i <= Len(a))
        /\ (Len(a) + i) - Len(a) = i
    BY <1>1
  <2> QED BY <1>1, <2>1
<1>4. \A i \in 1..Len(a \o b) : i \in 1..Len(a) \/ \E k \in 1..Len(b) : i = Len(a) + k
  <2> SUFFICES ASSUME NEW i \in 1..Len(a \o b), i \notin 1..Len(a)
               PROVE  \E k \in 1..Len(b) : i = Len(a) + k
    OBVIOUS
  <2>1. i - Len(a) \in 1..Len(b) /\ i = Len(a) + (i - Len(a))
    BY <1>1
  <2> QED BY <2>1
<1> QED BY <1>2, <1>3, <1>4

\* A run of two parts.
LEMMA RunOfParts ==
  ASSUME NEW a \in Bytes, NEW b \in Bytes, NEW n \in Nat
  PROVE  Run(a \o b, n) <=> /\ Run(a, n) /\ Run(b, n)
                            /\ \A i \in 1..Len(a), j \in 1..Len(b) : a[i] < b[j]
<1>0. Len(a) \in Nat /\ Len(b) \in Nat /\ Len(a \o b) = Len(a) + Len(b)
  BY ConcatProperties, LenProperties DEF Bytes
<1>1. ASSUME Run(a \o b, n)
      PROVE  /\ Run(a, n) /\ Run(b, n)
             /\ \A i \in 1..Len(a), j \in 1..Len(b) : a[i] < b[j]
  <2>1. Run(a, n)
    BY <1>1, PartsOf DEF Run
  <2>2. Run(b, n)
    <3>1. \A i, j \in 1..Len(b) : i < j => Len(a) + i < Len(a) + j
      BY <1>0
    <3> QED BY <1>1, <3>1, PartsOf DEF Run
  <2>3. \A i \in 1..Len(a), j \in 1..Len(b) : a[i] < b[j]
    <3>1. \A i \in 1..Len(a), j \in 1..Len(b) : i < Len(a) + j
      BY <1>0
    <3> QED BY <1>1, <3>1, PartsOf DEF Run
  <2> QED BY <2>1, <2>2, <2>3
<1>2. ASSUME Run(a, n), Run(b, n), \A i \in 1..Len(a), j \in 1..Len(b) : a[i] < b[j]
      PROVE  Run(a \o b, n)
  <2>1. \A i \in 1..Len(a \o b) : (a \o b)[i] <= n
    BY <1>2, PartsOf DEF Run
  <2>2. ASSUME NEW i \in 1..Len(a \o b), NEW j \in 1..Len(a \o b), i < j
        PROVE  (a \o b)[i] < (a \o b)[j]
    <3>1. CASE i \in 1..Len(a) /\ j \in 1..Len(a)
      BY <1>2, <2>2, <3>1, PartsOf DEF Run
    <3>2. ASSUME i \in 1..Len(a), NEW k \in 1..Len(b), j = Len(a) + k
          PROVE  (a \o b)[i] < (a \o b)[j]
      BY <1>2, <3>2, PartsOf
    <3>3. ASSUME NEW l \in 1..Len(b), i = Len(a) + l, NEW k \in 1..Len(b), j = Len(a) + k
          PROVE  (a \o b)[i] < (a \o b)[j]
      <4>1. l < k
        BY <1>0, <2>2, <3>3
      <4> QED BY <1>2, <3>3, <4>1, PartsOf DEF Run
    <3>4. ASSUME NEW l \in 1..Len(b), i = Len(a) + l
          PROVE  j \notin 1..Len(a)
      BY <1>0, <2>2, <3>4
    <3> QED BY <3>1, <3>2, <3>3, <3>4, PartsOf
  <2> QED BY <2>1, <2>2 DEF Run
<1> QED BY <1>1, <1>2

\* A part of it may be dropped.
LEMMA RunDrops ==
  ASSUME NEW a \in Bytes, NEW b \in Bytes, NEW c \in Bytes, NEW n \in Nat, Run(a \o b \o c, n)
  PROVE  Run(a \o c, n)
<1>1. Run(a \o (b \o c), n) /\ b \o c \in Bytes
  BY Joined, Associative
<1>2. Run(a, n) /\ Run(b \o c, n) /\ \A i \in 1..Len(a), j \in 1..Len(b \o c) : a[i] < (b \o c)[j]
  BY <1>1, RunOfParts
<1>3. Run(c, n)
  BY <1>2, RunOfParts
<1>4. \A i \in 1..Len(a), j \in 1..Len(c) : a[i] < c[j]
  BY <1>2, PartsOf
<1> QED BY <1>2, <1>3, <1>4, RunOfParts

\* The next byte comes at its end.
LEMMA RunGrows ==
  ASSUME NEW w \in Bytes, NEW n \in Nat, Run(w, n)
  PROVE  Append(w, n + 1) \in Bytes /\ Run(Append(w, n + 1), n + 1)
<1>1. n + 1 \in Nat /\ Append(w, n + 1) = w \o <<n + 1>> /\ <<n + 1>> \in Bytes
  BY AppendIsConcat DEF Bytes
<1>2. Len(<<n + 1>>) = 1 /\ <<n + 1>>[1] = n + 1
  OBVIOUS
<1>3. Run(<<n + 1>>, n + 1)
  BY <1>2 DEF Run
<1>4. \A i \in 1..Len(w) : w[i] \in Nat
  BY ElementOfSeq DEF Bytes
<1>5. Run(w, n + 1)
  BY <1>4 DEF Run
<1>6. \A i \in 1..Len(w), j \in 1..Len(<<n + 1>>) : w[i] < <<n + 1>>[j]
  BY <1>2, <1>4 DEF Run
<1>7. Run(w \o <<n + 1>>, n + 1)
  BY <1>1, <1>3, <1>5, <1>6, RunOfParts
<1> QED BY <1>1, <1>7, AppendProperties DEF Bytes

\* As the properties have it.
LEMMA RunIsIncreasing ==
  ASSUME NEW w \in Bytes, NEW n \in Nat, Run(w, n)
  PROVE  \A i \in 1..(Len(w) - 1) : w[i] < w[i + 1]
<1>1. Len(w) \in Nat
  BY LenProperties DEF Bytes
<1>2. \A i \in 1..(Len(w) - 1) : i \in 1..Len(w) /\ i + 1 \in 1..Len(w) /\ i < i + 1
  BY <1>1
<1> QED BY <1>2 DEF Run

\* The head of a queue moves to the sequence before it.
LEMMA Shift ==
  ASSUME NEW a \in Bytes, NEW b \in Bytes, b # <<>>
  PROVE  /\ Append(a, Head(b)) \in Bytes /\ Tail(b) \in Bytes
         /\ Append(a, Head(b)) \o Tail(b) = a \o b
         /\ Len(Append(a, Head(b))) = Len(a) + 1 /\ Len(Tail(b)) = Len(b) - 1
<1>1. /\ Head(b) \in Nat /\ Tail(b) \in Bytes /\ Head(b) = b[1] /\ Len(Tail(b)) = Len(b) - 1
  BY HeadTailProperties DEF Bytes
<1>2. Append(a, Head(b)) \in Bytes /\ Len(Append(a, Head(b))) = Len(a) + 1
  BY <1>1, AppendProperties DEF Bytes
<1>3. Append(a, Head(b)) = a \o <<Head(b)>> /\ <<Head(b)>> \in Bytes
  BY <1>1, AppendIsConcat DEF Bytes
<1>4. <<Head(b)>> \o Tail(b) = b
  <2>1. Len(b) \in Nat \ {0}
    BY EmptySeq DEF Bytes
  <2>2. 1 \in 1..Len(b) /\ Len(b) \in 1..Len(b)
    BY <2>1
  <2>3. SubSeq(b, 1, Len(b)) = <<b[1]>> \o SubSeq(b, 2, Len(b))
    BY <2>2, SubSeqRecursiveFirst DEF Bytes
  <2>4. SubSeq(b, 1, Len(b)) = b /\ Tail(b) = SubSeq(b, 2, Len(b))
    BY SubSeqFull, TailIsSubSeq DEF Bytes
  <2> QED BY <1>1, <2>3, <2>4
<1>5. (a \o <<Head(b)>>) \o Tail(b) = a \o (<<Head(b)>> \o Tail(b))
  BY <1>1, <1>3, Associative
<1> QED BY <1>1, <1>2, <1>3, <1>4, <1>5

LEMMA UpToIs ==
  ASSUME NEW n \in Nat
  PROVE  /\ UpTo(n) \in Bytes /\ Len(UpTo(n)) = n
         /\ \A i \in 1..n : UpTo(n)[i] = i
         /\ Append(UpTo(n), n + 1) = UpTo(n + 1)
<1>1. \A k \in Nat : UpTo(k) \in Bytes /\ Len(UpTo(k)) = k /\ \A i \in 1..k : UpTo(k)[i] = i
  <2> SUFFICES ASSUME NEW k \in Nat
               PROVE  UpTo(k) \in Bytes /\ Len(UpTo(k)) = k /\ \A i \in 1..k : UpTo(k)[i] = i
    OBVIOUS
  <2>1. UpTo(k) \in [1..k -> Nat]
    BY DEF UpTo
  <2>2. UpTo(k) \in Seq(Nat)
    BY <2>1, SeqDef
  <2>3. Len(UpTo(k)) \in Nat /\ 1..Len(UpTo(k)) = 1..k
    BY <2>1, <2>2, LenProperties
  <2> QED BY <2>1, <2>2, <2>3 DEF UpTo, Bytes
<1>2. n + 1 \in Nat
  OBVIOUS
<1>3. Append(UpTo(n), n + 1) \in Bytes /\ Len(Append(UpTo(n), n + 1)) = n + 1
      /\ \A i \in 1..n : Append(UpTo(n), n + 1)[i] = UpTo(n)[i]
      /\ Append(UpTo(n), n + 1)[n + 1] = n + 1
  <2>1. UpTo(n) \in Seq(Nat) /\ Len(UpTo(n)) = n
    BY <1>1 DEF Bytes
  <2>2. /\ Append(UpTo(n), n + 1) \in Seq(Nat)
        /\ Len(Append(UpTo(n), n + 1)) = Len(UpTo(n)) + 1
        /\ \A i \in 1..Len(UpTo(n)) : Append(UpTo(n), n + 1)[i] = UpTo(n)[i]
        /\ Append(UpTo(n), n + 1)[Len(UpTo(n)) + 1] = n + 1
    BY <1>2, <2>1, AppendProperties
  <2> QED BY <2>1, <2>2 DEF Bytes
<1>4. \A i \in 1..(n + 1) : Append(UpTo(n), n + 1)[i] = UpTo(n + 1)[i]
  <2>1. \A i \in 1..(n + 1) : i \in 1..n \/ i = n + 1
    OBVIOUS
  <2> QED BY <1>1, <1>2, <1>3, <2>1
<1> QED BY <1>1, <1>2, <1>3, <1>4, SeqEqual DEF Bytes

----------------------------------------------------------------------------
(***************************************************************************)
(* The two sides                                                           *)
(***************************************************************************)

PeersTyped ==
  /\ linked \subseteq Sides /\ writing \subseteq Sides /\ reset \subseteq Sides
  /\ in \in [Sides -> Bytes] /\ out \in [Sides -> Bytes] /\ got \in [Sides -> Bytes]
  /\ sent \in [Sides -> 0..MaxBytes]
  /\ side \in [Sides -> {"open", "finished", "closed"}]
  /\ \A s \in Sides : Len(in[s]) <= Room /\ Len(out[s]) <= Room
  /\ \A s \in reset : side[s] = "closed"
  /\ \A s \in writing : sent[s] < MaxBytes

LEMMA Bounds ==
  ASSUME PeersTyped
  PROVE  /\ \A s \in Sides : /\ Other(s) \in Sides /\ Other(s) # s /\ Other(Other(s)) = s
                             /\ sent[s] \in Nat /\ sent[s] <= MaxBytes
                             /\ in[s] \in Bytes /\ out[s] \in Bytes /\ got[s] \in Bytes
         /\ "client" \in Sides /\ "target" \in Sides
         /\ Other("client") = "target" /\ Other("target") = "client"
         /\ MaxBytes \in Nat /\ Room \in Nat /\ Room # 0 /\ 0 <= Room
         /\ <<>> \in Bytes /\ Len(<<>>) = 0
<1>1. MaxBytes \in Nat /\ Room \in Nat /\ Room # 0 /\ 0 <= Room
  BY PeersAssumption
<1>2. <<>> \in Bytes /\ Len(<<>>) = 0
  BY EmptySeq DEF Bytes
<1>3. \A s \in Sides : Other(s) \in Sides /\ Other(s) # s /\ Other(Other(s)) = s
  BY DEF Sides, Other
<1>4. \A s \in Sides : sent[s] \in Nat /\ sent[s] <= MaxBytes
  BY <1>1 DEF PeersTyped
<1> QED BY <1>1, <1>2, <1>3, <1>4 DEF PeersTyped, Sides, Other

LEMMA PeersStart ==
  ASSUME InitPeers
  PROVE  PeersTyped
<1>1. /\ 0 \in 0..MaxBytes /\ <<>> \in Bytes /\ Len(<<>>) <= Room
  BY PeersAssumption, EmptySeq DEF Bytes
<1> QED BY <1>1 DEF InitPeers, PeersTyped, Sides

\* What a step of a peer does to what is on its way to side s.
Moves(s) == /\ UNCHANGED <<sent[Other(s)], in[Other(s)]>>
            /\ got'[s] \o out'[s] = got[s] \o out[s]
Grows(s) == /\ sent'[Other(s)] = sent[Other(s)] + 1
            /\ in'[Other(s)] = Append(in[Other(s)], sent[Other(s)] + 1)
            /\ UNCHANGED <<got[s], out[s]>>
Drops(s) == /\ side[s] = "closed" /\ reset' # {}
            /\ UNCHANGED <<sent[Other(s)], in[Other(s)], got[s]>>
            /\ out'[s] = <<>>

LEMMA PeerStep ==
  ASSUME PeersTyped, NEW p \in Sides, Peer(p)
  PROVE  /\ PeersTyped'
         /\ linked' = linked /\ reset \subseteq reset'
         /\ \A s \in Sides : /\ side[s] # "open" => side'[s] # "open"
                             /\ side[s] = "closed" => side'[s] = "closed"
                             /\ Moves(s) \/ Grows(s) \/ Drops(s)
<1>0. /\ linked \subseteq Sides /\ linked' = linked /\ reset \subseteq reset'
      /\ DOMAIN side = Sides /\ DOMAIN in = Sides /\ DOMAIN out = Sides
  BY DEF PeersTyped, Peer, StartWrite, Write, Read, Finish, CloseSide, Reset, ownVars
<1>1. CASE StartWrite(p)
  BY <1>0, <1>1 DEF StartWrite, PeersTyped, Moves
<1>2. CASE Finish(p) \/ CloseSide(p)
  <2>1. /\ UNCHANGED <<in, out, got, sent, reset>>
        /\ \E word_ \in {"finished", "closed"} : side' = [side EXCEPT ![p] = word_]
        /\ writing' \subseteq writing /\ side[p] # "closed"
    BY <1>2 DEF Finish, CloseSide
  <2> QED BY <1>0, <2>1 DEF PeersTyped, Moves
<1>3. CASE Write(p)
  <2>1. /\ p \in writing /\ writing' = writing \ {p} /\ Len(in[p]) < Room
        /\ sent' = [sent EXCEPT ![p] = sent[p] + 1] /\ sent'[p] = sent[p] + 1
        /\ in' = [in EXCEPT ![p] = Append(in[p], sent[p] + 1)]
        /\ UNCHANGED <<out, got, side, reset>>
    BY <1>3 DEF Write, PeersTyped
  <2>2. sent[p] + 1 \in Nat /\ sent[p] + 1 \in 0..MaxBytes
    <3>1. sent[p] < MaxBytes
      BY <2>1 DEF PeersTyped
    <3> QED BY <3>1, Bounds
  <2>3. Append(in[p], sent[p] + 1) \in Bytes /\ Len(Append(in[p], sent[p] + 1)) <= Room
    <3>1. /\ Append(in[p], sent[p] + 1) \in Bytes
          /\ Len(Append(in[p], sent[p] + 1)) = Len(in[p]) + 1 /\ Len(in[p]) \in Nat
      BY <2>2, Bounds, AppendProperties, LenProperties DEF Bytes
    <3> QED BY <2>1, <3>1, Bounds
  <2>4. \A s \in Sides : IF s = Other(p) THEN Grows(s) ELSE Moves(s)
    BY <2>1, Bounds DEF Grows, Moves, PeersTyped
  <2>5. PeersTyped'
    BY <1>0, <2>1, <2>2, <2>3 DEF PeersTyped
  <2> QED BY <1>0, <2>1, <2>4, <2>5
<1>4. CASE Read(p)
  <2>1. /\ out[p] # <<>>
        /\ got' = [got EXCEPT ![p] = Append(got[p], Head(out[p]))]
        /\ out' = [out EXCEPT ![p] = Tail(out[p])]
        /\ UNCHANGED <<in, sent, side, writing, reset>>
    BY <1>4 DEF Read
  <2>2. /\ Append(got[p], Head(out[p])) \in Bytes /\ Tail(out[p]) \in Bytes
        /\ Append(got[p], Head(out[p])) \o Tail(out[p]) = got[p] \o out[p]
        /\ Len(Tail(out[p])) = Len(out[p]) - 1
    BY <2>1, Bounds, Shift
  <2>3. Len(Tail(out[p])) <= Room
    <3>1. Len(out[p]) \in Nat /\ Len(out[p]) <= Room
      BY Bounds, LenProperties DEF Bytes, PeersTyped
    <3> QED BY <2>2, <3>1, Bounds
  <2>4. \A s \in Sides : Moves(s)
    BY <2>1, <2>2, Bounds DEF Moves, PeersTyped
  <2>5. PeersTyped'
    BY <1>0, <2>1, <2>2, <2>3 DEF PeersTyped
  <2> QED BY <1>0, <2>1, <2>4, <2>5
<1>5. CASE Reset(p)
  <2>1. /\ side[p] = "closed" /\ reset' = reset \cup {p}
        /\ out' = [out EXCEPT ![p] = <<>>]
        /\ UNCHANGED <<in, sent, got, side, writing>>
    BY <1>5 DEF Reset, ownVars
  <2>2. \A s \in Sides : IF s = p THEN Drops(s) ELSE Moves(s)
    BY <2>1, Bounds DEF Drops, Moves, PeersTyped
  <2>3. PeersTyped'
    BY <1>0, <2>1, Bounds DEF PeersTyped
  <2> QED BY <1>0, <2>1, <2>2, <2>3
<1> QED BY <1>1, <1>2, <1>3, <1>4, <1>5 DEF Peer

\* What is on its way to side s, where the relay holds m.
Way(s, m) == got[s] \o out[s] \o m \o in[Other(s)]

LEMMA WayStep ==
  ASSUME PeersTyped, NEW p \in Sides, Peer(p), NEW s \in Sides, NEW m \in Bytes
  PROVE  /\ Way(s, m) \in Bytes
         /\ \/ Way(s, m)' = Way(s, m) /\ sent'[Other(s)] = sent[Other(s)]
            \/ /\ Way(s, m)' = Append(Way(s, m), sent[Other(s)] + 1)
               /\ sent'[Other(s)] = sent[Other(s)] + 1
            \/ /\ side[s] = "closed" /\ reset' # {}
               /\ sent'[Other(s)] = sent[Other(s)]
               /\ Way(s, m)' = got[s] \o (m \o in[Other(s)])
               /\ Way(s, m) = got[s] \o out[s] \o (m \o in[Other(s)])
<1>1. Moves(s) \/ Grows(s) \/ Drops(s)
  BY PeerStep
<1>2. got[s] \in Bytes /\ out[s] \in Bytes /\ in[Other(s)] \in Bytes
  BY Bounds
<1>3. /\ got[s] \o out[s] \in Bytes /\ m \o in[Other(s)] \in Bytes
      /\ got[s] \o out[s] \o m \in Bytes /\ Way(s, m) \in Bytes
      /\ Way(s, m) = got[s] \o out[s] \o (m \o in[Other(s)])
  <2>1. Parts(got[s], out[s], m, in[Other(s)])
    BY <1>2, FourParts
  <2> QED BY <2>1 DEF Parts, Way
<1>4. CASE Moves(s)
  BY <1>3, <1>4 DEF Way, Moves
<1>5. CASE Grows(s)
  <2>1. sent[Other(s)] + 1 \in Nat /\ <<sent[Other(s)] + 1>> \in Bytes
    BY Bounds DEF Bytes
  <2>2. in'[Other(s)] = in[Other(s)] \o <<sent[Other(s)] + 1>>
    BY <1>2, <1>5, <2>1, AppendIsConcat DEF Grows, Bytes
  <2>3. Way(s, m)' = got[s] \o out[s] \o m \o (in[Other(s)] \o <<sent[Other(s)] + 1>>)
    BY <1>5, <2>2 DEF Way, Grows
  <2>4. Way(s, m)' = Way(s, m) \o <<sent[Other(s)] + 1>>
    <3>1. Grouped(got[s] \o out[s] \o m, in[Other(s)], <<sent[Other(s)] + 1>>)
      BY <1>2, <1>3, <2>1, ThreeParts
    <3> QED BY <2>3, <3>1 DEF Grouped, Way
  <2>5. Way(s, m)' = Append(Way(s, m), sent[Other(s)] + 1)
    BY <1>3, <2>1, <2>4, AppendIsConcat DEF Bytes
  <2> QED BY <1>3, <1>5, <2>5 DEF Grows
<1>6. CASE Drops(s)
  <2>1. Way(s, m)' = got[s] \o <<>> \o m \o in[Other(s)]
    BY <1>6 DEF Way, Drops
  <2>2. got[s] \o <<>> = got[s]
    BY <1>2, ConcatEmptySeq DEF Bytes
  <2>3. Way(s, m)' = got[s] \o (m \o in[Other(s)])
    <3>1. Grouped(got[s], m, in[Other(s)])
      BY <1>2, ThreeParts
    <3> QED BY <2>1, <2>2, <3>1 DEF Grouped
  <2> QED BY <1>3, <1>6, <2>3 DEF Drops
<1> QED BY <1>1, <1>4, <1>5, <1>6

\* The peers are the same for every relay.
LEMMA PassthroughPeers ==
  /\ Relayed!InitPeers => InitPeers
  /\ \A s : Relayed!Peer(s) => Peer(s)
  /\ PeersTyped => Relayed!PeersTypeOK
  /\ Relayed!Sides = Sides /\ Relayed!ReadableNow = ReadableNow
  /\ \A b, c : Relayed!TakeWhatFits(b, c) = TakeWhatFits(b, c)
  /\ \A n : Relayed!UpTo(n) = UpTo(n)
<1>1. Relayed!InitPeers => InitPeers
  BY DEF Relayed!InitPeers, InitPeers, Relayed!Sides, Sides
<1>2. \A s : Relayed!Peer(s) => Peer(s)
  BY DEF Relayed!Peer, Relayed!StartWrite, Relayed!Write, Relayed!Read, Relayed!Finish,
         Relayed!CloseSide, Relayed!Reset, Relayed!ownVars,
         Peer, StartWrite, Write, Read, Finish, CloseSide, Reset, ownVars
<1>3. PeersTyped => Relayed!PeersTypeOK
  BY DEF PeersTyped, Relayed!PeersTypeOK, Relayed!Sides, Sides
<1>4. Relayed!Sides = Sides /\ Relayed!ReadableNow = ReadableNow
  BY DEF Relayed!Sides, Sides, Relayed!ReadableNow, ReadableNow
<1>5. \A b, c : Relayed!TakeWhatFits(b, c) = TakeWhatFits(b, c)
  BY Zenon DEF Relayed!TakeWhatFits, TakeWhatFits, Relayed!Min, Min
<1>6. \A n : Relayed!UpTo(n) = UpTo(n)
  BY DEF Relayed!UpTo, UpTo
<1> QED BY <1>1, <1>2, <1>3, <1>4, <1>5, <1>6

\* A step of a peer keeps a run a run, and a whole stream whole.
LEMMA RunStep ==
  ASSUME PeersTyped, NEW p \in Sides, Peer(p), NEW s \in Sides, NEW m \in Bytes,
         Run(Way(s, m), sent[Other(s)])
  PROVE  Run(Way(s, m)', sent'[Other(s)])
<1>1. Way(s, m) \in Bytes /\ sent[Other(s)] \in Nat
  BY WayStep, Bounds
<1>2. CASE Way(s, m)' = Way(s, m) /\ sent'[Other(s)] = sent[Other(s)]
  BY <1>2
<1>3. CASE /\ Way(s, m)' = Append(Way(s, m), sent[Other(s)] + 1)
           /\ sent'[Other(s)] = sent[Other(s)] + 1
  BY <1>1, <1>3, RunGrows
<1>4. CASE /\ sent'[Other(s)] = sent[Other(s)]
           /\ Way(s, m)' = got[s] \o (m \o in[Other(s)])
           /\ Way(s, m) = got[s] \o out[s] \o (m \o in[Other(s)])
  <2>1. got[s] \in Bytes /\ out[s] \in Bytes /\ in[Other(s)] \in Bytes
    BY Bounds
  <2>2. m \o in[Other(s)] \in Bytes
    BY <2>1, Joined
  <2> QED BY <1>1, <1>4, <2>1, <2>2, RunDrops
<1> QED BY <1>2, <1>3, <1>4, WayStep

LEMMA WholeStep ==
  ASSUME PeersTyped, NEW p \in Sides, Peer(p), NEW s \in Sides, NEW m \in Bytes,
         Way(s, m) = UpTo(sent[Other(s)]), side[s] # "closed" \/ reset' = {}
  PROVE  Way(s, m)' = UpTo(sent'[Other(s)])
<1>1. sent[Other(s)] \in Nat
  BY Bounds
<1>2. \/ Way(s, m)' = Way(s, m) /\ sent'[Other(s)] = sent[Other(s)]
      \/ /\ Way(s, m)' = Append(Way(s, m), sent[Other(s)] + 1)
         /\ sent'[Other(s)] = sent[Other(s)] + 1
  BY WayStep
<1>3. Append(UpTo(sent[Other(s)]), sent[Other(s)] + 1) = UpTo(sent[Other(s)] + 1)
  BY <1>1, UpToIs
<1> QED BY <1>2, <1>3

LEMMA NoMiddle ==
  ASSUME NEW g \in Bytes, NEW o \in Bytes, NEW i \in Bytes
  PROVE  g \o o \o <<>> \o i = g \o o \o i /\ g \o o \o i \o <<>> = g \o o \o i
<1>1. g \o o \in Bytes /\ g \o o \o i \in Bytes
  BY Joined
<1>2. g \o o \o <<>> = g \o o
  BY <1>1, ConcatEmptySeq DEF Bytes
<1>3. g \o o \o i \o <<>> = g \o o \o i
  BY <1>1, ConcatEmptySeq DEF Bytes
<1> QED BY <1>2, <1>3

\* send() to a socket that does not block takes the beginning.
LEMMA Fits ==
  ASSUME NEW b \in Bytes, NEW c \in Bytes, Len(b) <= Room
  PROVE  LET rest == SubSeq(c, Len(TakeWhatFits(b, c)) - Len(b) + 1, Len(c))
         IN /\ TakeWhatFits(b, c) \in Bytes /\ rest \in Bytes
            /\ Len(TakeWhatFits(b, c)) <= Room
            /\ b \o c = TakeWhatFits(b, c) \o rest
            /\ Len(b \o c) <= Room => TakeWhatFits(b, c) = b \o c /\ rest = <<>>
<1> DEFINE w == b \o c
           n == Min({Room, Len(w)})
           f == TakeWhatFits(b, c)
           rest == SubSeq(c, Len(f) - Len(b) + 1, Len(c))
<1>1. w \in Bytes /\ Len(b) \in Nat /\ Len(c) \in Nat /\ Len(w) = Len(b) + Len(c)
  BY Joined
<1>2. Room \in Nat /\ Room # 0
  BY PeersAssumption
<1>3. /\ n \in Nat /\ n <= Room /\ n <= Len(w) /\ Len(b) <= n
      /\ Len(w) <= Room => n = Len(w)
  <2>1. \E x \in {Room, Len(w)} : \A y \in {Room, Len(w)} : x <= y
    BY <1>1, <1>2
  <2>2. n \in {Room, Len(w)} /\ \A y \in {Room, Len(w)} : n <= y
    BY <2>1 DEF Min
  <2> QED BY <1>1, <1>2, <2>2
<1>4. f = SubSeq(w, 1, n)
  BY DEF TakeWhatFits
<1> HIDE DEF n, w, f
<1>5. \A i \in 1..Len(w) : w[i] \in Nat
  BY <1>1, ElementOfSeq DEF Bytes
<1>6. f \in Bytes /\ Len(f) = n
  <2>1. \A i \in 1..n : w[i] \in Nat
    BY <1>1, <1>3, <1>5
  <2>2. f \in Seq(Nat) /\ Len(f) = IF 1 <= n THEN n - 1 + 1 ELSE 0
    BY <1>3, <1>4, <2>1, SubSeqProperties
  <2> QED BY <1>3, <2>2 DEF Bytes
<1>7. rest \in Bytes
  <2>1. Len(f) - Len(b) + 1 \in 1..(Len(c) + 1) /\ Len(f) - Len(b) + 1 \in Int /\ Len(c) \in Int
    BY <1>1, <1>3, <1>6
  <2>2. \A i \in (Len(f) - Len(b) + 1)..Len(c) : c[i] \in Nat
    <3>1. \A i \in 1..Len(c) : c[i] \in Nat
      BY ElementOfSeq DEF Bytes
    <3> QED BY <2>1, <3>1
  <2> HIDE DEF f
  <2> QED BY <2>1, <2>2, SubSeqProperties DEF Bytes
<1>8. rest = SubSeq(w, n + 1, Len(w))
  <2>1. CASE n = Len(w)
    <3>1. Len(f) - Len(b) + 1 = Len(c) + 1
      BY <1>1, <1>6, <2>1
    <3>2. SubSeq(c, Len(c) + 1, Len(c)) = <<>>
      BY <1>1, SubSeqEmpty
    <3>3. SubSeq(w, Len(w) + 1, Len(w)) = <<>>
      BY <1>1, SubSeqEmpty
    <3> QED BY <2>1, <3>1, <3>2, <3>3
  <2>2. CASE n < Len(w)
    <3>1. /\ n + 1 \in Len(b) + 1..Len(b) + Len(c) /\ Len(w) \in Len(b) + 1..Len(b) + Len(c)
          /\ (n + 1) - Len(b) = Len(f) - Len(b) + 1 /\ Len(w) - Len(b) = Len(c)
      BY <1>1, <1>3, <1>6, <2>2
    <3>2. SubSeq(b \o c, n + 1, Len(w)) = SubSeq(c, (n + 1) - Len(b), Len(w) - Len(b))
      BY <3>1, SubSeqOfConcat2 DEF Bytes
    <3> QED BY <3>1, <3>2 DEF w
  <2> QED BY <1>1, <1>3, <2>1, <2>2
<1>9. w = f \o rest
  <2>1. 1 \in 1..Len(w) + 1 /\ n \in 1 - 1..Len(w) /\ Len(w) \in n..Len(w)
    BY <1>1, <1>3
  <2>2. SubSeq(w, 1, n) \o SubSeq(w, n + 1, Len(w)) = SubSeq(w, 1, Len(w))
    BY <1>1, <2>1, ConcatAdjacentSubSeq DEF Bytes
  <2>3. SubSeq(w, 1, Len(w)) = w
    BY <1>1, SubSeqFull DEF Bytes
  <2> QED BY <1>4, <1>8, <2>2, <2>3
<1>10. Len(w) <= Room => f = w /\ rest = <<>>
  <2>1. SubSeq(w, 1, Len(w)) = w
    BY <1>1, SubSeqFull DEF Bytes
  <2>2. SubSeq(w, Len(w) + 1, Len(w)) = <<>>
    BY <1>1, SubSeqEmpty
  <2> QED BY <1>3, <1>4, <1>8, <2>1, <2>2
<1> QED BY <1>3, <1>6, <1>7, <1>9, <1>10 DEF w, f

----------------------------------------------------------------------------
(***************************************************************************)
(* The passthrough proxy                                                   *)
(***************************************************************************)

ThreadTyped ==
  /\ PeersTyped
  /\ pc \in {"connecting", "selecting", "upstream", "sending", "downstream", "closing",
             "done", "killed"}
  /\ readable \subseteq Sides /\ ended \in BOOLEAN
  /\ hold \in Bytes /\ (hold # <<>> => pc = "sending")

Upstream == side["target"] # "closed" /\ pc # "killed" /\ (pc = "done" => in["target"] = <<>>)
              => Way("target", hold) = UpTo(sent["client"])

Downstream == /\ Run(Way("client", <<>>), sent["target"])
              /\ sent["target"] <= Room /\ reset = {} /\ pc \notin {"done", "killed"}
                   => Way("client", <<>>) = UpTo(sent["target"])

RelayInv == ThreadTyped /\ Upstream /\ Downstream

\* A step of one of the sides, while the thread does nothing.
LEMMA SideStep ==
  ASSUME RelayInv, NEW p \in Sides, Peer(p), UNCHANGED relayVars
  PROVE  RelayInv'
<1>1. ThreadTyped'
  BY PeerStep DEF RelayInv, ThreadTyped, relayVars
<1>2. /\ PeersTyped /\ "client" \in Sides /\ "target" \in Sides /\ <<>> \in Bytes
      /\ Other("client") = "target" /\ Other("target") = "client"
  BY Bounds DEF RelayInv, ThreadTyped
<1>3. Upstream'
  <2>1. PICK m \in Bytes : m = hold
    BY DEF RelayInv, ThreadTyped
  <2> SUFFICES ASSUME side'["target"] # "closed", pc # "killed",
                      pc = "done" => in'["target"] = <<>>
               PROVE  Way("target", m)' = UpTo(sent'["client"])
    BY <2>1 DEF Upstream, relayVars, Way
  <2>2. side["target"] # "closed"
    BY <1>2, PeerStep
  <2>3. in'["target"] = <<>> => in["target"] = <<>>
    <3>1. in'["target"] = in["target"]
          \/ in'["target"] = Append(in["target"], sent["target"] + 1)
      BY <1>2, PeerStep DEF Moves, Grows, Drops
    <3>2. Append(in["target"], sent["target"] + 1) # <<>>
      <4>1. in["target"] \in Seq(Nat) /\ sent["target"] + 1 \in Nat
        BY <1>2, Bounds DEF Bytes
      <4> QED BY <4>1, AppendProperties
    <3> QED BY <3>1, <3>2
  <2>4. Way("target", m) = UpTo(sent["client"])
    BY <2>1, <2>2, <2>3 DEF RelayInv, Upstream, Way
  <2> QED BY <1>2, <2>2, <2>4, WholeStep
<1>4. Downstream'
  <2>1. Run(Way("client", <<>>), sent["target"])'
    BY <1>2, RunStep DEF RelayInv, Downstream
  <2>2. ASSUME sent'["target"] <= Room, reset' = {}, pc \notin {"done", "killed"}
        PROVE  Way("client", <<>>)' = UpTo(sent'["target"])
    <3>1. sent["target"] <= sent'["target"]
      <4>1. sent["target"] \in Nat
            /\ (sent'["target"] = sent["target"] \/ sent'["target"] = sent["target"] + 1)
        <5>1. Moves("client") \/ Grows("client") \/ Drops("client")
          BY <1>2, PeerStep
        <5>2. sent["target"] \in Nat
          BY <1>2, Bounds
        <5> QED BY <1>2, <5>1, <5>2 DEF Moves, Grows, Drops
      <4> QED BY <4>1
    <3>2. sent["target"] <= Room /\ reset = {}
      <4>1. sent["target"] \in Nat /\ sent'["target"] \in Nat /\ Room \in Nat
        <5>1. PeersTyped'
          BY <1>2, PeerStep
        <5>2. sent'["target"] \in 0..MaxBytes
          BY <1>2, <5>1 DEF PeersTyped
        <5> QED BY <1>2, <5>2, Bounds
      <4> QED BY <1>2, <2>2, <3>1, <4>1, PeerStep
    <3>3. Way("client", <<>>) = UpTo(sent["target"])
      BY <2>2, <3>2 DEF RelayInv, Downstream
    <3> QED BY <1>2, <2>2, <3>3, WholeStep
  <2> QED BY <2>1, <2>2 DEF Downstream, relayVars
<1> QED BY <1>1, <1>3, <1>4 DEF RelayInv

\* What the thread does with its own state only.
LEMMA QuietStep ==
  ASSUME RelayInv,
         Relayed!ConnectTarget \/ Relayed!Select \/ Relayed!ClientIsQuiet \/ Relayed!TargetIsQuiet
  PROVE  RelayInv'
<1>1. /\ UNCHANGED <<in, out, sent, got, side, writing, reset, hold>>
      /\ linked' \in {linked, Sides, {}}
      /\ readable' \subseteq Sides /\ ended' \in BOOLEAN
      /\ pc' \in {"selecting", "upstream", "downstream", "closing", "killed"}
      /\ pc \in {"connecting", "selecting", "upstream", "downstream"}
  BY PassthroughPeers
     DEF Relayed!ConnectTarget, Relayed!Select, Relayed!ClientIsQuiet, Relayed!TargetIsQuiet,
         Relayed!ownVars, Relayed!peersVars, RelayInv, ThreadTyped, PeersTyped, ReadableNow
<1>2. ThreadTyped'
  BY <1>1 DEF RelayInv, ThreadTyped, PeersTyped
<1>3. (Upstream /\ Downstream)'
  BY <1>1 DEF RelayInv, Upstream, Downstream, Way
<1> QED BY <1>2, <1>3 DEF RelayInv

LEMMA ReadStep ==
  ASSUME RelayInv, Relayed!ReadClient
  PROVE  RelayInv'
<1>1. /\ pc = "upstream" /\ pc' = "sending"
      /\ hold' = in["client"] /\ in' = [in EXCEPT !["client"] = <<>>]
      /\ ended' \in BOOLEAN
      /\ UNCHANGED <<linked, out, sent, got, side, writing, reset, readable>>
  BY DEF Relayed!ReadClient, Relayed!ownVars
<1>2. /\ PeersTyped /\ "client" \in Sides /\ "target" \in Sides /\ <<>> \in Bytes
      /\ Other("client") = "target" /\ Other("target") = "client"
      /\ Len(<<>>) = 0 /\ 0 <= Room
      /\ got["target"] \in Bytes /\ out["target"] \in Bytes /\ in["client"] \in Bytes
  BY Bounds DEF RelayInv, ThreadTyped
<1>3. hold = <<>>
  BY <1>1 DEF RelayInv, ThreadTyped
<1>4. in'["client"] = <<>> /\ in'["target"] = in["target"]
  BY <1>1, <1>2 DEF PeersTyped
<1>5. PeersTyped'
  BY <1>1, <1>2 DEF PeersTyped
<1>6. ThreadTyped'
  BY <1>1, <1>2, <1>5 DEF RelayInv, ThreadTyped
<1>7. Way("target", hold)' = Way("target", hold)
  <2>1. Way("target", hold)' = got["target"] \o out["target"] \o in["client"] \o <<>>
    BY <1>1, <1>2, <1>4 DEF Way
  <2>2. Way("target", hold) = got["target"] \o out["target"] \o <<>> \o in["client"]
    BY <1>2, <1>3 DEF Way
  <2>3. /\ got["target"] \o out["target"] \o <<>> \o in["client"]
             = got["target"] \o out["target"] \o in["client"]
        /\ got["target"] \o out["target"] \o in["client"] \o <<>>
             = got["target"] \o out["target"] \o in["client"]
    BY <1>2, NoMiddle, Zenon
  <2> QED BY <2>1, <2>2, <2>3
<1>8. Upstream'
  BY <1>1, <1>4, <1>7 DEF RelayInv, Upstream
<1>9. Downstream'
  BY <1>1, <1>2, <1>4 DEF RelayInv, Downstream, Way
<1> QED BY <1>6, <1>8, <1>9 DEF RelayInv

\* send() to the target, a byte at a time.
LEMMA SendStep ==
  ASSUME RelayInv, Relayed!SendTarget
  PROVE  RelayInv'
<1>1. /\ pc = "sending" /\ pc' \in {"sending", "downstream", "killed"}
      /\ linked' \in {linked, {}}
      /\ UNCHANGED <<in, sent, got, side, writing, reset, readable, ended>>
      /\ \/ "target" \in reset /\ UNCHANGED out /\ hold' = <<>> /\ pc' # "sending"
         \/ UNCHANGED <<hold, out>> /\ hold = <<>>
         \/ /\ hold # <<>> /\ hold' = Tail(hold) /\ Len(out["target"]) < Room
            /\ out' = [out EXCEPT !["target"] = Append(out["target"], Head(hold))]
            /\ pc' = "sending"
  BY DEF Relayed!SendTarget, Relayed!SendWaiting, Relayed!SendFails, Relayed!ownVars
<1>2. /\ PeersTyped /\ "client" \in Sides /\ "target" \in Sides /\ <<>> \in Bytes
      /\ Other("client") = "target" /\ Other("target") = "client"
      /\ got["target"] \in Bytes /\ out["target"] \in Bytes /\ in["client"] \in Bytes
      /\ hold \in Bytes
  BY Bounds DEF RelayInv, ThreadTyped
<1>3. CASE "target" \in reset /\ UNCHANGED out /\ hold' = <<>> /\ pc' # "sending"
  <2>1. side'["target"] = "closed"
    BY <1>1, <1>3 DEF RelayInv, ThreadTyped, PeersTyped
  <2>2. ThreadTyped'
    BY <1>1, <1>2, <1>3 DEF RelayInv, ThreadTyped, PeersTyped
  <2>3. (Upstream /\ Downstream)'
    BY <1>1, <1>3, <2>1 DEF RelayInv, Upstream, Downstream, Way
  <2> QED BY <2>2, <2>3 DEF RelayInv
<1>4. CASE UNCHANGED <<hold, out>> /\ hold = <<>>
  <2>1. ThreadTyped'
    BY <1>1, <1>4 DEF RelayInv, ThreadTyped, PeersTyped
  <2>2. (Upstream /\ Downstream)'
    BY <1>1, <1>4 DEF RelayInv, Upstream, Downstream, Way
  <2> QED BY <2>1, <2>2 DEF RelayInv
<1>5. CASE /\ hold # <<>> /\ hold' = Tail(hold) /\ Len(out["target"]) < Room
           /\ out' = [out EXCEPT !["target"] = Append(out["target"], Head(hold))]
           /\ pc' = "sending"
  <2>1. /\ Append(out["target"], Head(hold)) \in Bytes /\ Tail(hold) \in Bytes
        /\ Append(out["target"], Head(hold)) \o Tail(hold) = out["target"] \o hold
        /\ Len(Append(out["target"], Head(hold))) = Len(out["target"]) + 1
    BY <1>2, <1>5, Shift
  <2>2. /\ out' = [out EXCEPT !["target"] = out'["target"]]
        /\ out'["target"] = Append(out["target"], Head(hold))
        /\ out'["client"] = out["client"]
    BY <1>2, <1>5 DEF PeersTyped
  <2>3. Len(out'["target"]) <= Room
    <3>1. Len(out["target"]) \in Nat /\ Room \in Nat
      BY <1>2, LenProperties, Bounds DEF Bytes
    <3> QED BY <1>5, <2>1, <2>2, <3>1
  <2>4. PeersTyped'
    <3>1. \A s \in Sides : s = "target" \/ out'[s] = out[s]
      BY <1>2, <2>2 DEF PeersTyped
    <3>2. out' \in [Sides -> Bytes]
      BY <1>2, <2>1, <2>2 DEF PeersTyped
    <3>3. \A s \in Sides : Len(out'[s]) <= Room
      BY <1>2, <2>3, <3>1 DEF PeersTyped
    <3> QED BY <1>1, <1>2, <3>2, <3>3 DEF PeersTyped
  <2>5. ThreadTyped'
    BY <1>1, <1>5, <2>1, <2>4 DEF RelayInv, ThreadTyped
  <2>6. Way("target", hold)' = Way("target", hold)
    <3>1. Way("target", hold)' = got["target"] \o out'["target"] \o hold' \o in["client"]
      BY <1>1, <1>2 DEF Way
    <3>2. got["target"] \o out'["target"] \o hold' \o in["client"]
            = got["target"] \o out["target"] \o hold \o in["client"]
      <4>1. out'["target"] \in Bytes /\ hold' \in Bytes
            /\ out'["target"] \o hold' = out["target"] \o hold
        BY <1>5, <2>1, <2>2
      <4>2. /\ Grouped(got["target"], out["target"], hold)
            /\ Grouped(got["target"], out'["target"], hold')
        BY <1>2, <4>1, ThreeParts
      <4> QED BY <4>1, <4>2 DEF Grouped
    <3> QED BY <1>2, <3>1, <3>2 DEF Way
  <2>7. Upstream'
    BY <1>1, <1>5, <2>6 DEF RelayInv, Upstream
  <2>8. Downstream'
    BY <1>1, <1>2, <1>5, <2>2 DEF RelayInv, Downstream, Way
  <2> QED BY <2>5, <2>7, <2>8 DEF RelayInv
<1> QED BY <1>1, <1>3, <1>4, <1>5

\* What a client has been sent loses its middle: what did not fit, or was not read.
LEMMA Dropped ==
  ASSUME NEW g \in Bytes, NEW o \in Bytes, NEW i \in Bytes, NEW n \in Nat,
         Run(g \o o \o i, n)
  PROVE  /\ Run(g \o o, n)
         /\ Run(g \o i, n)
<1>1. g \o o \in Bytes
  BY Joined
<1>2. Run(g \o o, n)
  BY <1>1, RunOfParts
<1> QED BY <1>2, RunDrops

\* Everything that the target has sent goes to the client's buffer, as far as it fits.
LEMMA DownStep ==
  ASSUME RelayInv, Relayed!RelayDown
  PROVE  RelayInv'
<1> DEFINE o == out["client"]
           i == in["target"]
           g == got["client"]
<1>1. /\ pc = "downstream" /\ pc' \in {"closing", "selecting", "killed"}
      /\ linked' \in {linked, {}} /\ ended' \in BOOLEAN
      /\ in' = [in EXCEPT !["target"] = <<>>]
      /\ UNCHANGED <<sent, got, side, writing, reset, readable, hold>>
      /\ \/ "client" \in reset /\ UNCHANGED out
         \/ out' = [out EXCEPT !["client"] = TakeWhatFits(o, i)]
  BY PassthroughPeers DEF Relayed!RelayDown, Relayed!SendFails, Relayed!ownVars, RelayInv, ThreadTyped
<1>2. /\ PeersTyped /\ "client" \in Sides /\ "target" \in Sides /\ <<>> \in Bytes
      /\ Other("client") = "target" /\ Other("target") = "client"
      /\ g \in Bytes /\ o \in Bytes /\ i \in Bytes
      /\ Len(o) <= Room /\ Len(<<>>) <= Room /\ sent["target"] \in Nat
  BY Bounds DEF RelayInv, ThreadTyped, PeersTyped
<1>3. in'["target"] = <<>> /\ in'["client"] = in["client"]
  BY <1>1, <1>2 DEF PeersTyped
<1>4. TakeWhatFits(o, i) \in Bytes /\ Len(TakeWhatFits(o, i)) <= Room
  BY <1>2, Fits
<1>5. ThreadTyped'
  <2>1. out' \in [Sides -> Bytes] /\ \A s \in Sides : Len(out'[s]) <= Room
    BY <1>1, <1>2, <1>4 DEF PeersTyped
  <2>2. in' \in [Sides -> Bytes] /\ \A s \in Sides : Len(in'[s]) <= Room
    BY <1>1, <1>2 DEF PeersTyped
  <2>3. PeersTyped'
    BY <1>1, <1>2, <2>1, <2>2 DEF PeersTyped
  <2> QED BY <1>1, <2>3 DEF RelayInv, ThreadTyped
<1>6. out'["target"] = out["target"]
  BY <1>1, <1>2 DEF PeersTyped
<1>7. Upstream'
  BY <1>1, <1>2, <1>3, <1>6 DEF RelayInv, Upstream, Way
<1>8. Way("client", <<>>) = g \o o \o i
  <2>1. Way("client", <<>>) = g \o o \o <<>> \o i
    BY <1>2 DEF Way
  <2> HIDE DEF g, o, i
  <2>2. g \o o \o <<>> \o i = g \o o \o i
    BY <1>2, NoMiddle, Zenon
  <2> QED BY <2>1, <2>2
<1>9. Way("client", <<>>)' = g \o out'["client"]
  <2>1. Way("client", <<>>)' = g \o out'["client"] \o <<>> \o <<>>
    BY <1>1, <1>2, <1>3 DEF Way
  <2>2. out'["client"] \in Bytes
    BY <1>5, <1>2 DEF ThreadTyped, PeersTyped
  <2>3. g \o out'["client"] \in Bytes
    BY <1>2, <2>2, Joined
  <2>4. g \o out'["client"] \o <<>> = g \o out'["client"]
    BY <2>3, ConcatEmptySeq DEF Bytes
  <2> QED BY <2>1, <2>4
<1>10. Run(g \o o \o i, sent["target"])
  BY <1>8 DEF RelayInv, Downstream
<1>11. CASE "client" \in reset /\ UNCHANGED out
  <2>1. Run(g \o o, sent["target"])
    BY <1>2, <1>10, Dropped
  <2> QED BY <1>1, <1>5, <1>7, <1>9, <1>11, <2>1 DEF RelayInv, Downstream
<1>12. CASE out' = [out EXCEPT !["client"] = TakeWhatFits(o, i)]
  <2> DEFINE f == TakeWhatFits(o, i)
  <2>1. out'["client"] = f
    BY <1>2, <1>12 DEF PeersTyped
  <2>2. PICK rest \in Bytes : o \o i = f \o rest /\ (Len(o \o i) <= Room => f = o \o i)
    BY <1>2, Fits
  <2>3. g \o o \o i = g \o f \o rest
    <3>1. Grouped(g, o, i) /\ Grouped(g, f, rest)
      BY <1>2, <1>4, ThreeParts
    <3> QED BY <2>2, <3>1 DEF Grouped
  <2>4. Run(g \o f, sent["target"])
    BY <1>2, <1>4, <1>10, <2>3, Dropped
  <2>5. ASSUME sent["target"] <= Room, reset = {}
        PROVE  g \o f = UpTo(sent["target"])
    <3>1. g \o o \o i = UpTo(sent["target"])
      BY <1>1, <1>8, <2>5 DEF RelayInv, Downstream
    <3>2. Len(g \o o \o i) = sent["target"]
      BY <1>2, <3>1, UpToIs
    <3>3. Grouped(g, o, i)
      BY <1>2, ThreeParts
    <3>4. o \o i \in Bytes /\ Len(o \o i) \in Nat /\ Len(g) \in Nat
      BY <1>2, Joined, LenProperties DEF Bytes
    <3>5. Len(g \o (o \o i)) = Len(g) + Len(o \o i)
      BY <1>2, <3>4, Joined
    <3>6. Len(o \o i) <= Room
      <4>1. Len(g) + Len(o \o i) = sent["target"]
        BY <3>2, <3>3, <3>5 DEF Grouped
      <4>2. \A x, y, z, r \in Nat : x + y = z /\ z <= r => y <= r
        OBVIOUS
      <4> HIDE DEF g, o, i
      <4> QED BY <1>2, <2>5, <3>4, <4>1, <4>2, PeersAssumption
    <3> QED BY <2>2, <3>1, <3>3, <3>6 DEF Grouped
  <2> QED BY <1>1, <1>5, <1>7, <1>9, <2>1, <2>4, <2>5 DEF RelayInv, Downstream
<1> QED BY <1>1, <1>11, <1>12

LEMMA CloseStep ==
  ASSUME RelayInv, Relayed!Close
  PROVE  RelayInv'
<1>1. /\ pc = "closing" /\ pc' = "done" /\ linked' \subseteq linked
      /\ UNCHANGED <<in, sent, got, side, writing, reset, readable, ended, hold>>
      /\ \E lost_ \in SUBSET {s \in Sides : in[s] # <<>>} :
           out' = [s \in Sides |-> IF s \in lost_ THEN <<>> ELSE out[s]]
  BY PassthroughPeers DEF Relayed!Close, Relayed!CloseSockets, Relayed!ownVars
<1>2. /\ PeersTyped /\ "client" \in Sides /\ "target" \in Sides /\ <<>> \in Bytes
      /\ Other("client") = "target" /\ Other("target") = "client"
      /\ got["client"] \in Bytes /\ out["client"] \in Bytes /\ in["target"] \in Bytes
      /\ Len(<<>>) <= Room /\ sent["target"] \in Nat
  BY Bounds DEF RelayInv, ThreadTyped, PeersTyped
<1>3. \A s \in Sides : \/ out'[s] = out[s]
                       \/ out'[s] = <<>> /\ in[s] # <<>>
  BY <1>1
<1>4. ThreadTyped'
  <2>1. out' \in [Sides -> Bytes] /\ \A s \in Sides : Len(out'[s]) <= Room
    BY <1>1, <1>2 DEF PeersTyped
  <2>2. PeersTyped'
    BY <1>1, <1>2, <2>1 DEF PeersTyped
  <2> QED BY <1>1, <2>2 DEF RelayInv, ThreadTyped
<1>5. Upstream'
  <2>1. in["target"] = <<>> => out'["target"] = out["target"]
    BY <1>2, <1>3
  <2> QED BY <1>1, <1>2, <2>1 DEF RelayInv, Upstream, Way
<1>6. Downstream'
  <2>1. CASE out'["client"] = out["client"]
    BY <1>1, <1>2, <2>1 DEF RelayInv, Downstream, Way
  <2>2. CASE out'["client"] = <<>>
    <3>1. Run(got["client"] \o out["client"] \o in["target"], sent["target"])
      <4>1. got["client"] \o out["client"] \o <<>> \o in["target"]
              = got["client"] \o out["client"] \o in["target"]
        BY <1>2, NoMiddle, Zenon
      <4> QED BY <1>2, <4>1 DEF RelayInv, Downstream, Way
    <3>2. Run(got["client"] \o in["target"], sent["target"])
      BY <1>2, <3>1, Dropped
    <3>3. got["client"] \o <<>> = got["client"]
      BY <1>2, ConcatEmptySeq DEF Bytes
    <3> QED BY <1>1, <1>2, <2>2, <3>2, <3>3 DEF Downstream, Way
  <2> QED BY <1>2, <1>3, <2>1, <2>2
<1> QED BY <1>4, <1>5, <1>6 DEF RelayInv

LEMMA RelaySteps ==
  ASSUME RelayInv, Relayed!Next \/ UNCHANGED <<relayVars, peersVars>>
  PROVE  RelayInv'
<1>1. CASE UNCHANGED <<relayVars, peersVars>>
  BY <1>1 DEF relayVars, peersVars, ownVars, RelayInv, ThreadTyped, PeersTyped, Upstream,
              Downstream, Way
<1>2. CASE \E s \in Relayed!Sides : Relayed!Peer(s) /\ UNCHANGED Relayed!threadVars
  BY <1>2, SideStep, PassthroughPeers DEF Relayed!threadVars, relayVars
<1> QED BY <1>1, <1>2, QuietStep, ReadStep, SendStep, DownStep, CloseStep
        DEF Relayed!Next, Relayed!Thread

LEMMA RelayStart ==
  ASSUME Relayed!Init
  PROVE  RelayInv
<1>1. InitPeers /\ pc = "connecting" /\ readable = {} /\ hold = <<>> /\ ended = FALSE
  BY PassthroughPeers DEF Relayed!Init
<1>2. PeersTyped /\ <<>> \in Bytes
  BY <1>1, PeersStart, EmptySeq DEF Bytes
<1>3. ThreadTyped
  BY <1>1, <1>2 DEF ThreadTyped
<1>4. \A s \in Sides : Way(s, <<>>) = <<>> /\ sent[s] = 0
  <2>1. <<>> \o <<>> = <<>>
    BY <1>2, ConcatEmptySeq DEF Bytes
  <2> QED BY <1>1, <2>1 DEF InitPeers, Way, Sides, Other
<1>5. UpTo(0) = <<>> /\ Run(<<>>, 0)
  BY DEF UpTo, Run
<1> QED BY <1>1, <1>2, <1>3, <1>4, <1>5, Bounds DEF RelayInv, Upstream, Downstream

----------------------------------------------------------------------------
(***************************************************************************)
(* The task of a CProxySocket                                              *)
(***************************************************************************)

LEMMA TaskPeers ==
  /\ Proxied!InitPeers => InitPeers
  /\ \A s : Proxied!Peer(s) => Peer(s)
  /\ PeersTyped => Proxied!PeersTypeOK
  /\ Proxied!Sides = Sides /\ Proxied!ReadableNow = ReadableNow
  /\ \A n : Proxied!UpTo(n) = UpTo(n)
  /\ \A s : Proxied!Other(s) = Other(s)
<1>1. Proxied!InitPeers => InitPeers
  BY DEF Proxied!InitPeers, InitPeers, Proxied!Sides, Sides
<1>2. \A s : Proxied!Peer(s) => Peer(s)
  BY DEF Proxied!Peer, Proxied!StartWrite, Proxied!Write, Proxied!Read, Proxied!Finish,
         Proxied!CloseSide, Proxied!Reset, Proxied!ownVars,
         Peer, StartWrite, Write, Read, Finish, CloseSide, Reset, ownVars
<1>3. PeersTyped => Proxied!PeersTypeOK
  BY DEF PeersTyped, Proxied!PeersTypeOK, Proxied!Sides, Sides
<1>4. Proxied!Sides = Sides /\ Proxied!ReadableNow = ReadableNow
  BY DEF Proxied!Sides, Sides, Proxied!ReadableNow, ReadableNow
<1>5. \A n : Proxied!UpTo(n) = UpTo(n)
  BY DEF Proxied!UpTo, UpTo
<1>6. \A s : Proxied!Other(s) = Other(s)
  BY DEF Proxied!Other, Other
<1> QED BY <1>1, <1>2, <1>3, <1>4, <1>5, <1>6

\* Where the task is when it sends to side s.
SendsTo(s) == IF s = "target" THEN "sending" ELSE "answering"
Held(s) == IF pc = SendsTo(s) THEN hold ELSE <<>>

TaskTyped ==
  /\ PeersTyped
  /\ pc \in {"connecting", "selecting", "upstream", "sending", "downstream", "answering",
             "returned", "killed"}
  /\ readable \subseteq Sides /\ hold \in Bytes
  /\ hold # <<>> => pc \in {"sending", "answering"}

BothWhole == pc # "killed" => \A s \in Sides : side[s] # "closed" =>
               Way(s, Held(s)) = UpTo(sent[Other(s)])

TaskInv == TaskTyped /\ BothWhole

LEMMA TaskBounds ==
  ASSUME TaskInv
  PROVE  /\ PeersTyped /\ "client" \in Sides /\ "target" \in Sides /\ <<>> \in Bytes
         /\ Len(<<>>) <= Room
         /\ \A s \in Sides : /\ Other(s) \in Sides /\ Other(s) # s /\ Other(Other(s)) = s
                             /\ SendsTo(s) # SendsTo(Other(s)) /\ SendsTo(s) # "killed"
                             /\ Held(s) \in Bytes
                             /\ got[s] \in Bytes /\ out[s] \in Bytes /\ in[s] \in Bytes
<1>1. PeersTyped
  BY DEF TaskInv, TaskTyped
<1>2. \A s \in Sides : Held(s) \in Bytes
  BY <1>1, Bounds DEF TaskInv, TaskTyped, Held
<1>3. \A s \in Sides : SendsTo(s) # SendsTo(Other(s)) /\ SendsTo(s) # "killed"
  BY DEF Sides, Other, SendsTo
<1> QED BY <1>1, <1>2, <1>3, Bounds

LEMMA TaskSideStep ==
  ASSUME TaskInv, NEW p \in Sides, Peer(p), UNCHANGED relayVars
  PROVE  TaskInv'
<1>1. TaskTyped'
  BY PeerStep DEF TaskInv, TaskTyped, relayVars
<1>2. ASSUME pc # "killed", NEW s \in Sides, side'[s] # "closed"
      PROVE  Way(s, Held(s))' = UpTo(sent'[Other(s)])
  <2>1. PICK m \in Bytes : m = Held(s)
    BY TaskBounds
  <2>2. m = Held(s)'
    BY <2>1 DEF relayVars, Held
  <2>3. side[s] # "closed"
    BY <1>2, TaskBounds, PeerStep
  <2>4. Way(s, m) = UpTo(sent[Other(s)])
    BY <1>2, <2>1, <2>3 DEF TaskInv, BothWhole
  <2>5. Way(s, m)' = UpTo(sent'[Other(s)])
    BY <2>3, <2>4, TaskBounds, WholeStep
  <2> QED BY <2>2, <2>5 DEF Way
<1> QED BY <1>1, <1>2 DEF TaskInv, BothWhole, relayVars

\* The task returns without closing the sockets.
LEMMA TaskQuietStep ==
  ASSUME TaskInv,
         \/ Proxied!ReachTarget \/ Proxied!Select \/ Proxied!ClientIsQuiet
         \/ Proxied!NothingFromTarget
  PROVE  TaskInv'
<1>1. /\ UNCHANGED <<in, out, sent, got, side, writing, reset, hold>>
      /\ linked' \in {linked, Sides, {}}
      /\ readable' \subseteq Sides
      /\ pc' \in {"selecting", "upstream", "downstream", "returned", "killed"}
      /\ pc \in {"connecting", "selecting", "upstream", "downstream"}
  BY TaskPeers
     DEF Proxied!ReachTarget, Proxied!Select, Proxied!ClientIsQuiet, Proxied!NothingFromTarget,
         Proxied!AfterTurn, Proxied!ownVars, Proxied!peersVars, TaskInv, TaskTyped, PeersTyped,
         ReadableNow
<1>2. TaskTyped'
  BY <1>1 DEF TaskInv, TaskTyped, PeersTyped
<1>3. \A s \in Sides : Held(s) = <<>> /\ Held(s)' = <<>>
  BY <1>1 DEF Held, SendsTo
<1>4. BothWhole'
  BY <1>1, <1>3 DEF TaskInv, BothWhole, Way
<1> QED BY <1>2, <1>4 DEF TaskInv

\* recv() from either side, for the other one.
LEMMA TaskReadStep ==
  ASSUME TaskInv, Proxied!ReadClient \/ Proxied!ReadTarget
  PROVE  TaskInv'
<1>1. PICK s \in Sides :
        /\ pc \in {"upstream", "downstream"} /\ pc' = SendsTo(s)
        /\ hold' = in[Other(s)] /\ in' = [in EXCEPT ![Other(s)] = <<>>]
        /\ UNCHANGED <<linked, out, sent, got, side, writing, reset, readable>>
  <2>1. "client" \in Sides /\ "target" \in Sides
    BY TaskBounds
  <2>2. Other("client") = "target" /\ Other("target") = "client"
        /\ SendsTo("client") = "answering" /\ SendsTo("target") = "sending"
    BY DEF Other, SendsTo
  <2>3. CASE Proxied!ReadClient
    BY <2>1, <2>2, <2>3 DEF Proxied!ReadClient, Proxied!ownVars
  <2>4. CASE Proxied!ReadTarget
    BY <2>1, <2>2, <2>4 DEF Proxied!ReadTarget, Proxied!ownVars
  <2> QED BY <2>3, <2>4
<1>2. in'[Other(s)] = <<>> /\ in'[s] = in[s]
  BY <1>1, TaskBounds DEF PeersTyped
<1>3. TaskTyped'
  <2>1. in' \in [Sides -> Bytes] /\ \A t \in Sides : Len(in'[t]) <= Room
    BY <1>1, TaskBounds DEF PeersTyped
  <2>2. PeersTyped'
    BY <1>1, <2>1, TaskBounds DEF PeersTyped
  <2>3. SendsTo(s) \in {"sending", "answering"}
    BY DEF SendsTo
  <2> QED BY <1>1, <2>2, <2>3, TaskBounds DEF TaskInv, TaskTyped
<1>4. /\ Held(s) = <<>> /\ Held(s)' = in[Other(s)]
      /\ Held(Other(s)) = <<>> /\ Held(Other(s))' = <<>>
  BY <1>1, TaskBounds DEF Held, SendsTo
<1>5. Way(s, Held(s))' = Way(s, Held(s))
  <2>1. Way(s, Held(s))' = got[s] \o out[s] \o in[Other(s)] \o <<>>
    BY <1>1, <1>2, <1>4 DEF Way
  <2>2. Way(s, Held(s)) = got[s] \o out[s] \o <<>> \o in[Other(s)]
    BY <1>4 DEF Way
  <2>3. /\ got[s] \o out[s] \o <<>> \o in[Other(s)] = got[s] \o out[s] \o in[Other(s)]
        /\ got[s] \o out[s] \o in[Other(s)] \o <<>> = got[s] \o out[s] \o in[Other(s)]
    <3>1. got[s] \in Bytes /\ out[s] \in Bytes /\ in[Other(s)] \in Bytes
      BY TaskBounds
    <3> QED BY <3>1, NoMiddle, Zenon
  <2> QED BY <2>1, <2>2, <2>3
<1>6. Way(Other(s), Held(Other(s)))' = Way(Other(s), Held(Other(s)))
  BY <1>1, <1>2, <1>4, TaskBounds DEF Way
<1>7. \A t \in Sides : t = s \/ t = Other(s)
  BY DEF Sides, Other
<1>8. pc # "killed"
  BY <1>1
<1>9. BothWhole'
  BY <1>1, <1>5, <1>6, <1>7, <1>8 DEF TaskInv, BothWhole
<1> QED BY <1>3, <1>9 DEF TaskInv

\* send() to either side; one that was reset has closed its stream before.
LEMMA TaskSendStep ==
  ASSUME TaskInv, Proxied!SendTarget \/ Proxied!SendClient
  PROVE  TaskInv'
<1>1. PICK s \in Sides :
        /\ pc = SendsTo(s)
        /\ linked' \in {linked, {}}
        /\ UNCHANGED <<in, sent, got, side, writing, reset, readable>>
        /\ \/ s \in reset /\ UNCHANGED out /\ hold' = <<>>
              /\ pc' \in {"downstream", "returned", "selecting", "killed"}
           \/ UNCHANGED <<hold, out>> /\ hold = <<>>
              /\ pc' \in {"downstream", "returned", "selecting"}
           \/ /\ hold # <<>> /\ hold' = Tail(hold) /\ Len(out[s]) < Room
              /\ out' = [out EXCEPT ![s] = Append(out[s], Head(hold))]
              /\ pc' = SendsTo(s)
  <2>1. "client" \in Sides /\ "target" \in Sides
        /\ SendsTo("client") = "answering" /\ SendsTo("target") = "sending"
    BY TaskBounds DEF SendsTo
  <2>2. CASE Proxied!SendTarget
    BY <2>1, <2>2 DEF Proxied!SendTarget, Proxied!SendWaiting, Proxied!SendFails, Proxied!ownVars
  <2>3. CASE Proxied!SendClient
    BY <2>1, <2>3 DEF Proxied!SendClient, Proxied!SendWaiting, Proxied!SendFails,
                      Proxied!AfterTurn, Proxied!ownVars
  <2> QED BY <2>2, <2>3
<1>2. /\ \A t \in Sides : t = s \/ t = Other(s)
      /\ SendsTo(s) \in {"sending", "answering"} /\ pc # "killed"
  BY <1>1 DEF Sides, Other, SendsTo
<1>3. Held(s) = hold /\ Held(Other(s)) = <<>>
  BY <1>1, TaskBounds DEF Held
<1>4. CASE s \in reset /\ UNCHANGED out /\ hold' = <<>>
           /\ pc' \in {"downstream", "returned", "selecting", "killed"}
  <2>1. side'[s] = "closed"
    BY <1>1, <1>4, TaskBounds DEF PeersTyped
  <2>2. TaskTyped'
    BY <1>1, <1>4, TaskBounds DEF TaskInv, TaskTyped, PeersTyped
  <2>3. Held(Other(s))' = <<>>
    BY <1>4 DEF Held
  <2>4. BothWhole'
    BY <1>1, <1>2, <1>3, <1>4, <2>1, <2>3 DEF TaskInv, BothWhole, Way
  <2> QED BY <2>2, <2>4 DEF TaskInv
<1>5. CASE UNCHANGED <<hold, out>> /\ hold = <<>>
           /\ pc' \in {"downstream", "returned", "selecting"}
  <2>1. TaskTyped'
    BY <1>1, <1>5, TaskBounds DEF TaskInv, TaskTyped, PeersTyped
  <2>2. Held(s)' = <<>> /\ Held(Other(s))' = <<>>
    BY <1>5 DEF Held
  <2>3. BothWhole'
    BY <1>1, <1>2, <1>3, <1>5, <2>2 DEF TaskInv, BothWhole, Way
  <2> QED BY <2>1, <2>3 DEF TaskInv
<1>6. CASE /\ hold # <<>> /\ hold' = Tail(hold) /\ Len(out[s]) < Room
           /\ out' = [out EXCEPT ![s] = Append(out[s], Head(hold))]
           /\ pc' = SendsTo(s)
  <2>0. hold \in Bytes /\ out[s] \in Bytes /\ got[s] \in Bytes
    BY TaskBounds DEF TaskInv, TaskTyped
  <2>1. /\ Append(out[s], Head(hold)) \in Bytes /\ Tail(hold) \in Bytes
        /\ Append(out[s], Head(hold)) \o Tail(hold) = out[s] \o hold
        /\ Len(Append(out[s], Head(hold))) = Len(out[s]) + 1
    BY <1>6, <2>0, Shift
  <2>2. /\ out'[s] = Append(out[s], Head(hold))
        /\ out'[Other(s)] = out[Other(s)]
    BY <1>6, TaskBounds DEF PeersTyped
  <2>3. Len(out'[s]) <= Room
    <3>1. Len(out[s]) \in Nat /\ Room \in Nat
      BY <2>0, LenProperties, PeersAssumption DEF Bytes
    <3> QED BY <1>6, <2>1, <2>2, <3>1
  <2>4. PeersTyped'
    <3>1. out' \in [Sides -> Bytes]
      BY <1>6, <2>1, TaskBounds DEF PeersTyped
    <3>2. \A t \in Sides : Len(out'[t]) <= Room
      BY <1>2, <2>2, <2>3, TaskBounds DEF PeersTyped
    <3> QED BY <1>1, <3>1, <3>2, TaskBounds DEF PeersTyped
  <2>5. TaskTyped'
    BY <1>1, <1>2, <1>6, <2>1, <2>4 DEF TaskInv, TaskTyped
  <2>6. Held(s)' = hold' /\ Held(Other(s))' = <<>>
    BY <1>6, TaskBounds DEF Held
  <2>7. Way(s, Held(s))' = Way(s, Held(s))
    <3>1. Way(s, Held(s))' = got[s] \o out'[s] \o hold' \o in[Other(s)]
      BY <1>1, <2>6 DEF Way
    <3>2. out'[s] \in Bytes /\ hold' \in Bytes /\ out'[s] \o hold' = out[s] \o hold
      BY <1>6, <2>1, <2>2
    <3>3. Grouped(got[s], out[s], hold) /\ Grouped(got[s], out'[s], hold')
      BY <2>0, <3>2, ThreeParts
    <3> QED BY <1>3, <3>1, <3>2, <3>3 DEF Grouped, Way
  <2>8. Way(Other(s), Held(Other(s)))' = Way(Other(s), Held(Other(s)))
    BY <1>1, <1>3, <2>2, <2>6 DEF Way
  <2>9. BothWhole'
    BY <1>1, <1>2, <1>6, <2>7, <2>8 DEF TaskInv, BothWhole
  <2> QED BY <2>5, <2>9 DEF TaskInv
<1> QED BY <1>1, <1>4, <1>5, <1>6

LEMMA TaskSteps ==
  ASSUME TaskInv, Proxied!TaskNext \/ UNCHANGED <<relayVars, peersVars>>
  PROVE  TaskInv'
<1>1. CASE UNCHANGED <<relayVars, peersVars>>
  BY <1>1 DEF relayVars, peersVars, ownVars, TaskInv, TaskTyped, PeersTyped, BothWhole, Held, Way
<1>2. CASE \E s \in Proxied!Sides : Proxied!Peer(s) /\ UNCHANGED Proxied!threadVars
  BY <1>2, TaskSideStep, TaskPeers DEF Proxied!threadVars, relayVars
<1> QED BY <1>1, <1>2, TaskQuietStep, TaskReadStep, TaskSendStep
        DEF Proxied!TaskNext, Proxied!Task

LEMMA TaskStart ==
  ASSUME Relayed!Init
  PROVE  TaskInv
<1>1. InitPeers /\ pc = "connecting" /\ readable = {} /\ hold = <<>>
  BY PassthroughPeers DEF Relayed!Init
<1>2. PeersTyped /\ <<>> \in Bytes
  BY <1>1, PeersStart, EmptySeq DEF Bytes
<1>3. TaskTyped
  BY <1>1, <1>2 DEF TaskTyped
<1>4. \A s \in Sides : Way(s, <<>>) = <<>> /\ sent[Other(s)] = 0 /\ Held(s) = <<>>
  <2>1. <<>> \o <<>> = <<>>
    BY <1>2, ConcatEmptySeq DEF Bytes
  <2> QED BY <1>1, <2>1 DEF InitPeers, Way, Sides, Other, Held, SendsTo
<1>5. UpTo(0) = <<>>
  BY DEF UpTo
<1> QED BY <1>3, <1>4, <1>5 DEF TaskInv, BothWhole

----------------------------------------------------------------------------
\* A step of a behaviour of one relay is one of its own.
LEMMA RelayIsOwn ==
  ASSUME [Next]_vars
  PROVE  /\ program' = program
         /\ program = "passthrough-proxy"
              => Relayed!Next \/ UNCHANGED <<relayVars, peersVars>>
         /\ program = "CProxySocket"
              => Proxied!TaskNext \/ UNCHANGED <<relayVars, peersVars>>
         /\ program = "libuv-based" => Uv!Next \/ UNCHANGED <<uvVars, peersVars>>
         /\ program = "ssl-proxy" => Ssl!Next \/ UNCHANGED <<sslVars, peersVars>>
<1>1. CASE UNCHANGED vars
  BY <1>1 DEF vars
<1>2. CASE Next
  BY <1>2 DEF Next, InPassthrough, InProxySocket, InLibuv, InSslProxy, InSlotServer,
              InChatClient, InSslEcho, InUpload, InTurnChat, InLogger, InBalancer, InSocket
<1> QED BY <1>1, <1>2

\* What the passthrough proxy has read from the client reaches the target, and what a
\* CProxySocket has read from either side the other, whole and in order, as long as
\* the receiver stays (Proxy.cpp:62-71, CProxySocket.cpp).
THEOREM TheRelaysLoseNothing == Spec => []NothingIsLost
<1> DEFINE Both == /\ program = "passthrough-proxy" => RelayInv
                   /\ program = "CProxySocket" => TaskInv
<1>1. Init => Both
  BY RelayStart, TaskStart DEF Init
<1>2. Both /\ [Next]_vars => Both'
  BY RelayIsOwn, RelaySteps, TaskSteps
<1>3. Both => NothingIsLost
  <2>1. ASSUME RelayInv
        PROVE  Relayed!UpstreamIsWhole
    <3>1. Relayed!TypeOK
      BY <2>1, PassthroughPeers DEF RelayInv, ThreadTyped, Relayed!TypeOK
    <3>2. Other("target") = "client"
      BY DEF Other
    <3> QED BY <2>1, <3>1, <3>2, PassthroughPeers
            DEF RelayInv, Upstream, Way, Relayed!UpstreamIsWhole
  <2>2. ASSUME TaskInv
        PROVE  Proxied!NothingIsLost
    <3>1. Proxied!TaskTypeOK
      BY <2>2, TaskPeers DEF TaskInv, TaskTyped, Proxied!TaskTypeOK
    <3>2. \A s \in Sides : Proxied!HeldFor(s) = Held(s)
      BY DEF Proxied!HeldFor, Held, SendsTo
    <3> QED BY <2>2, <3>1, <3>2, TaskPeers DEF TaskInv, BothWhole, Way, Proxied!NothingIsLost
  <2> QED BY <2>1, <2>2 DEF NothingIsLost
<1> QED BY <1>1, <1>2, <1>3, PTL DEF Spec

----------------------------------------------------------------------------
(***************************************************************************)
(* The SSL proxy                                                           *)
(***************************************************************************)

LEMMA SslPeers ==
  /\ Ssl!InitPeers => InitPeers
  /\ \A s : Ssl!Peer(s) => Peer(s)
  /\ PeersTyped => Ssl!PeersTypeOK
  /\ Ssl!Sides = Sides /\ Ssl!ReadableNow = ReadableNow
  /\ \A s : Ssl!Other(s) = Other(s)
<1>1. Ssl!InitPeers => InitPeers
  BY DEF Ssl!InitPeers, InitPeers, Ssl!Sides, Sides
<1>2. \A s : Ssl!Peer(s) => Peer(s)
  BY DEF Ssl!Peer, Ssl!StartWrite, Ssl!Write, Ssl!Read, Ssl!Finish, Ssl!CloseSide, Ssl!Reset,
         Ssl!ownVars, Peer, StartWrite, Write, Read, Finish, CloseSide, Reset, ownVars
<1>3. PeersTyped => Ssl!PeersTypeOK
  BY DEF PeersTyped, Ssl!PeersTypeOK, Ssl!Sides, Sides
<1>4. Ssl!Sides = Sides /\ Ssl!ReadableNow = ReadableNow
  BY DEF Ssl!Sides, Sides, Ssl!ReadableNow, ReadableNow
<1>5. \A s : Ssl!Other(s) = Other(s)
  BY DEF Ssl!Other, Other
<1> QED BY <1>1, <1>2, <1>3, <1>4, <1>5

WritesTo(s) == IF s = "target" THEN "to target" ELSE "to client"
Buffered(s) == IF step = WritesTo(s) THEN buffer ELSE <<>>

SslTyped ==
  /\ PeersTyped
  /\ step \in {"accepting", "connecting", "from client", "to target", "from target",
               "to client", "closing", "done", "killed"}
  /\ session \subseteq Sides
  /\ buffer \in Bytes /\ Len(buffer) <= 1
  /\ step \in {"to target", "to client"} => buffer # <<>>

SslRuns == \A s \in Sides : Run(Way(s, Buffered(s)), sent[Other(s)])

\* The proxy turns to the target when the client has ended, or has no session.
SslHalves ==
  /\ step \in {"from target", "to client", "closing", "done"}
       => side["client"] # "open" \/ "client" \notin session
  /\ side["client"] = "open" => got["client"] = <<>> /\ out["client"] = <<>>

SslInv == SslTyped /\ SslRuns /\ SslHalves

LEMMA SslBounds ==
  ASSUME SslInv
  PROVE  /\ PeersTyped /\ "client" \in Sides /\ "target" \in Sides /\ <<>> \in Bytes
         /\ Len(<<>>) <= Room
         /\ \A s \in Sides : /\ Other(s) \in Sides /\ Other(s) # s /\ Other(Other(s)) = s
                             /\ WritesTo(s) # WritesTo(Other(s))
                             /\ WritesTo(s) \in {"to target", "to client"}
                             /\ Buffered(s) \in Bytes
                             /\ got[s] \in Bytes /\ out[s] \in Bytes /\ in[s] \in Bytes
                             /\ sent[s] \in Nat
         /\ \A s, t \in Sides : s = t \/ s = Other(t)
<1>1. PeersTyped
  BY DEF SslInv, SslTyped
<1>2. \A s \in Sides : Buffered(s) \in Bytes
  BY <1>1, Bounds DEF SslInv, SslTyped, Buffered
<1>3. \A s \in Sides : /\ WritesTo(s) # WritesTo(Other(s))
                       /\ WritesTo(s) \in {"to target", "to client"}
  BY DEF Sides, Other, WritesTo
<1>4. \A s, t \in Sides : s = t \/ s = Other(t)
  BY DEF Sides, Other
<1> QED BY <1>1, <1>2, <1>3, <1>4, Bounds

LEMMA SslSideStep ==
  ASSUME SslInv, NEW p \in Sides, Peer(p), UNCHANGED sslVars
  PROVE  SslInv'
<1>1. SslTyped'
  BY PeerStep DEF SslInv, SslTyped, sslVars
<1>2. ASSUME NEW s \in Sides
      PROVE  Run(Way(s, Buffered(s))', sent'[Other(s)])
  <2>1. PICK m \in Bytes : m = Buffered(s)
    BY SslBounds
  <2>2. m = Buffered(s)'
    BY <2>1 DEF sslVars, Buffered
  <2>3. Run(Way(s, m), sent[Other(s)])
    BY <2>1 DEF SslInv, SslRuns
  <2>4. Run(Way(s, m)', sent'[Other(s)])
    BY <2>3, SslBounds, RunStep
  <2> QED BY <2>2, <2>4 DEF Way
<1>3. SslHalves'
  <2>1. side'["client"] = "open" => side["client"] = "open"
    BY SslBounds, PeerStep
  <2>2. ASSUME side'["client"] = "open"
        PROVE  got'["client"] = <<>> /\ out'["client"] = <<>>
    <3>1. got["client"] = <<>> /\ out["client"] = <<>> /\ side["client"] # "closed"
      BY <2>1, <2>2 DEF SslInv, SslHalves
    <3>2. Moves("client") \/ Grows("client")
      BY <3>1, SslBounds, PeerStep DEF Drops
    <3>3. CASE Grows("client")
      BY <3>1, <3>3 DEF Grows
    <3>4. CASE Moves("client")
      <4>1. PeersTyped'
        BY <1>1 DEF SslTyped
      <4>2. got'["client"] \in Bytes /\ out'["client"] \in Bytes
        BY <4>1, SslBounds DEF PeersTyped
      <4>3. got'["client"] \o out'["client"] = <<>>
        BY <3>1, <3>4 DEF Moves
      <4> QED BY <4>2, <4>3, ConcatEqualIffEmpty DEF Bytes
    <3> QED BY <3>2, <3>3, <3>4
  <2>3. side["client"] # "open" => side'["client"] # "open"
    BY SslBounds, PeerStep
  <2> QED BY <2>2, <2>3 DEF SslInv, SslHalves, sslVars
<1> QED BY <1>1, <1>2, <1>3 DEF SslInv, SslRuns

\* Steps that move nothing.
LEMMA SslQuietStep ==
  ASSUME SslInv,
         UNCHANGED <<in, out, sent, got, side, writing, reset>>,
         linked' \subseteq Sides, session' \subseteq Sides,
         buffer' = buffer,
         step \notin {"to target", "to client"} \/ step' = "killed",
         \/ step' = "killed"
         \/ step' \in {"connecting", "from client"}
         \/ /\ step' \in {"from target", "closing"} /\ session' = session
            /\ \/ step \in {"from target", "to client"}
               \/ side["client"] # "open" \/ "client" \notin session
  PROVE  SslInv'
<1>1. SslTyped'
  BY DEF SslInv, SslTyped, PeersTyped
<1>2. ASSUME NEW s \in Sides
      PROVE  Run(Way(s, Buffered(s))', sent'[Other(s)])
  <2>1. step' # WritesTo(s)
    BY SslBounds DEF WritesTo
  <2>2. Buffered(s)' = <<>>
    BY <2>1 DEF Buffered
  <2>3. Run(Way(s, <<>>), sent[Other(s)])
    <3>1. CASE Buffered(s) = <<>>
      BY <3>1 DEF SslInv, SslRuns
    <3>2. CASE Buffered(s) # <<>>
      <4>1. Run(Way(s, Buffered(s)), sent[Other(s)])
        BY DEF SslInv, SslRuns
      <4>2. PICK m \in Bytes : m = Buffered(s)
        BY SslBounds
      <4>3. Run(got[s] \o out[s] \o m \o in[Other(s)], sent[Other(s)])
        BY <4>1, <4>2 DEF Way
      <4>4. got[s] \o out[s] \in Bytes /\ in[Other(s)] \in Bytes /\ sent[Other(s)] \in Nat
        BY SslBounds, Joined
      <4>5. Run(got[s] \o out[s] \o in[Other(s)], sent[Other(s)])
        BY <4>3, <4>4, RunDrops
      <4>6. got[s] \o out[s] \o <<>> \o in[Other(s)] = got[s] \o out[s] \o in[Other(s)]
        <5>1. got[s] \in Bytes /\ out[s] \in Bytes /\ in[Other(s)] \in Bytes
          BY SslBounds
        <5> QED BY <5>1, NoMiddle, Zenon
      <4> QED BY <4>5, <4>6 DEF Way
    <3> QED BY <3>1, <3>2
  <2> QED BY <2>2, <2>3 DEF Way
<1>3. SslHalves'
  BY DEF SslInv, SslHalves
<1> QED BY <1>1, <1>2, <1>3 DEF SslInv, SslRuns

LEMMA Small ==
  /\ <<>> \in Bytes /\ Len(<<>>) <= 1
  /\ \A h \in Bytes : Len(h) = 1 => Len(h) <= 1 /\ h # <<>>
  /\ \A x, y, r \in Nat : (x < r /\ y <= 1 => x + y <= r) /\ (x <= y /\ y <= r => x <= r)
<1>1. <<>> \in Bytes /\ Len(<<>>) = 0
  BY EmptySeq DEF Bytes
<1>2. \A h \in Bytes : Len(h) = 1 => Len(h) <= 1 /\ h # <<>>
  BY <1>1
<1>3. \A x, y, r \in Nat : (x < r /\ y <= 1 => x + y <= r) /\ (x <= y /\ y <= r => x <= r)
  OBVIOUS
<1> QED BY <1>1, <1>2, <1>3

\* A record is its first byte and what is dropped, before what is left.
LEMMA FirstOfRecord ==
  ASSUME NEW i \in Bytes, i # <<>>, NEW n \in 1..Len(i)
  PROVE  LET d == SubSeq(i, 2, n)
             rest == SubSeq(i, n + 1, Len(i))
         IN /\ <<Head(i)>> \in Bytes /\ d \in Bytes /\ rest \in Bytes
            /\ Len(rest) <= Len(i)
            /\ i = <<Head(i)>> \o (d \o rest)
<1> DEFINE d == SubSeq(i, 2, n)
           rest == SubSeq(i, n + 1, Len(i))
<1>0. Len(i) \in Nat \ {0} /\ i \in Seq(Nat)
  BY EmptySeq, LenProperties DEF Bytes
<1>1. \A k \in 1..Len(i) : i[k] \in Nat
  BY ElementOfSeq DEF Bytes
<1>2. d \in Seq(Nat)
  <2>1. \A k \in 2..n : k \in 1..Len(i)
    BY <1>0
  <2>2. n \in Int /\ 2 \in Int
    BY <1>0
  <2>3. \A k \in 2..n : i[k] \in Nat
    BY <1>1, <2>1
  <2> QED BY <2>2, <2>3, SubSeqProperties
<1>3. rest \in Seq(Nat) /\ Len(rest) <= Len(i)
  <2>1. \A k \in (n + 1)..Len(i) : k \in 1..Len(i)
    BY <1>0
  <2>2. n + 1 \in Int /\ Len(i) \in Int
    BY <1>0
  <2>3. \A k \in (n + 1)..Len(i) : i[k] \in Nat
    BY <1>1, <2>1
  <2>4. rest \in Seq(Nat) /\ Len(rest) = IF n + 1 <= Len(i) THEN Len(i) - (n + 1) + 1 ELSE 0
    BY <2>2, <2>3, SubSeqProperties
  <2> QED BY <1>0, <2>4
<1>4. Head(i) \in Nat /\ Head(i) = i[1]
  BY <1>0, HeadTailProperties
<1>5. i = <<Head(i)>> \o SubSeq(i, 2, Len(i))
  <2>1. 1 \in 1..Len(i) /\ Len(i) \in 1..Len(i)
    BY <1>0
  <2>2. SubSeq(i, 1, Len(i)) = <<i[1]>> \o SubSeq(i, 2, Len(i))
    BY <1>0, <2>1, SubSeqRecursiveFirst
  <2>3. SubSeq(i, 1, Len(i)) = i
    BY <1>0, SubSeqFull
  <2> QED BY <1>4, <2>2, <2>3
<1>6. d \o rest = SubSeq(i, 2, Len(i))
  <2>1. 2 \in 1..Len(i) + 1 /\ n \in 2 - 1..Len(i) /\ Len(i) \in n..Len(i)
    BY <1>0
  <2> QED BY <1>0, <2>1, ConcatAdjacentSubSeq
<1>7. <<Head(i)>> \in Bytes
  BY <1>4 DEF Bytes
<1> HIDE DEF d, rest
<1>8. i = <<Head(i)>> \o (d \o rest)
  BY <1>5, <1>6
<1> QED BY <1>2, <1>3, <1>7, <1>8 DEF Bytes, d, rest

\* Of a run, what is in the middle may be dropped when the record is read.
LEMMA RunOfRecord ==
  ASSUME NEW g \in Bytes, NEW o \in Bytes, NEW i \in Bytes, i # <<>>, NEW n \in 1..Len(i),
         NEW m \in Nat, Run(g \o o \o <<>> \o i, m)
  PROVE  Run(g \o o \o <<Head(i)>> \o SubSeq(i, n + 1, Len(i)), m)
<1>1. PICK h \in Bytes, d \in Bytes, rest \in Bytes :
        /\ h = <<Head(i)>> /\ rest = SubSeq(i, n + 1, Len(i)) /\ i = h \o (d \o rest)
  BY FirstOfRecord
<1>2. g \o o \in Bytes
  BY Joined
<1>3. PICK w \in Bytes : w = g \o o
  BY <1>2
<1>4. w \o <<>> = w
  BY ConcatEmptySeq DEF Bytes
<1>5. w \o i = w \o h \o d \o rest
  <2>1. w \o h \in Bytes /\ d \o rest \in Bytes
    BY Joined
  <2>2. Grouped(w, h, d \o rest) /\ Grouped(w \o h, d, rest)
    BY <2>1, ThreeParts
  <2> QED BY <1>1, <2>2 DEF Grouped
<1>6. Run(w \o h \o d \o rest, m)
  BY <1>3, <1>4, <1>5
<1>7. w \o h \in Bytes
  BY Joined
<1>8. Run(w \o h \o rest, m)
  BY <1>6, <1>7, RunDrops
<1> QED BY <1>1, <1>3, <1>8

\* Of a record only the first byte goes on.
LEMMA SslReadStep ==
  ASSUME SslInv, NEW s \in Sides, NEW n \in 1..Len(in[Other(s)]), in[Other(s)] # <<>>,
         in' = [in EXCEPT ![Other(s)] = SubSeq(in[Other(s)], n + 1, Len(in[Other(s)]))],
         buffer' = <<Head(in[Other(s)])>>, step' = WritesTo(s),
         step \notin {"to target", "to client"},
         s = "client" => step = "from target",
         UNCHANGED <<session, linked, out, sent, got, side, writing, reset>>
  PROVE  SslInv'
<1>1. /\ PeersTyped /\ Other(s) \in Sides /\ Other(s) # s /\ Other(Other(s)) = s
      /\ got[s] \in Bytes /\ out[s] \in Bytes /\ in[Other(s)] \in Bytes /\ sent[Other(s)] \in Nat
      /\ \A t \in Sides : t = s \/ t = Other(s)
  BY SslBounds
<1>2. PICK i \in Bytes : i = in[Other(s)]
  BY <1>1
<1>3. PICK h \in Bytes, rest \in Bytes : /\ h = <<Head(i)>> /\ rest = SubSeq(i, n + 1, Len(i))
                                         /\ Len(rest) <= Len(i)
  BY <1>2, FirstOfRecord
<1>4. in' = [in EXCEPT ![Other(s)] = rest] /\ buffer' = h
  BY <1>2, <1>3
<1>5. in'[Other(s)] = rest /\ in'[s] = in[s]
  BY <1>1, <1>4 DEF PeersTyped
<1>6. SslTyped'
  <2>1. Len(rest) <= Room
    <3>1. Len(i) <= Room
      BY <1>1, <1>2 DEF PeersTyped
    <3>2. Len(rest) \in Nat /\ Len(i) \in Nat /\ Room \in Nat
      BY LenProperties, PeersAssumption DEF Bytes
    <3> QED BY <1>3, <3>1, <3>2, Small
  <2>2. in' \in [Sides -> Bytes] /\ \A t \in Sides : Len(in'[t]) <= Room
    BY <1>1, <1>4, <2>1 DEF PeersTyped
  <2>3. PeersTyped'
    BY <1>1, <2>2 DEF PeersTyped
  <2>4. Len(h) <= 1 /\ h # <<>>
    BY <1>3, Small
  <2>5. buffer' \in Bytes /\ Len(buffer') <= 1 /\ buffer' # <<>>
    BY <1>4, <2>4
  <2>6. step' \in {"to target", "to client"}
    BY SslBounds
  <2> QED BY <2>3, <2>5, <2>6 DEF SslInv, SslTyped
<1>7. WritesTo(s) # WritesTo(Other(s)) /\ step # WritesTo(s) /\ step # WritesTo(Other(s))
  BY <1>1, SslBounds
<1>8. /\ Buffered(s) = <<>> /\ Buffered(s)' = h
      /\ Buffered(Other(s)) = <<>> /\ Buffered(Other(s))' = <<>>
  BY <1>4, <1>7 DEF Buffered
<1>9. Run(Way(s, Buffered(s))', sent'[Other(s)])
  <2>1. Run(got[s] \o out[s] \o <<>> \o i, sent[Other(s)])
    BY <1>2, <1>8 DEF SslInv, SslRuns, Way
  <2>2. i # <<>> /\ n \in 1..Len(i)
    BY <1>2
  <2>3. Run(got[s] \o out[s] \o <<Head(i)>> \o SubSeq(i, n + 1, Len(i)), sent[Other(s)])
    BY <1>1, <2>1, <2>2, RunOfRecord
  <2> QED BY <1>3, <1>5, <1>8, <2>3 DEF Way
<1>10. Run(Way(Other(s), Buffered(Other(s)))', sent'[s])
  <2>1. Way(Other(s), Buffered(Other(s)))' = Way(Other(s), Buffered(Other(s)))
    BY <1>1, <1>5, <1>8 DEF Way
  <2> QED BY <1>1, <2>1 DEF SslInv, SslRuns
<1>11. SslHalves'
  <2>1. s = "client" \/ WritesTo(s) = "to target"
    BY DEF WritesTo, Sides
  <2> QED BY <2>1 DEF SslInv, SslHalves
<1>12. SslRuns'
  <2>1. ASSUME NEW t \in Sides
        PROVE  Run(Way(t, Buffered(t))', sent'[Other(t)])
    BY <1>1, <1>9, <1>10
  <2> QED BY <2>1 DEF SslRuns
<1> QED BY <1>6, <1>11, <1>12 DEF SslInv

LEMMA SslWriteStep ==
  ASSUME SslInv, NEW s \in Sides, step = WritesTo(s), Len(out[s]) < Room,
         out' = [out EXCEPT ![s] = out[s] \o buffer], buffer' = <<>>,
         s = "target" => step' = "from client",
         s = "client" => step' = "from target" /\ "client" \in session,
         UNCHANGED <<session, linked, in, sent, got, side, writing, reset>>
  PROVE  SslInv'
<1>1. /\ buffer \in Bytes /\ Len(buffer) <= 1
      /\ PeersTyped /\ Other(s) \in Sides /\ Other(s) # s /\ Other(Other(s)) = s
      /\ got[s] \in Bytes /\ out[s] \in Bytes /\ in[Other(s)] \in Bytes /\ sent[Other(s)] \in Nat
      /\ \A t \in Sides : t = s \/ t = Other(s)
  BY SslBounds DEF SslInv, SslTyped
<1>2. out[s] \o buffer \in Bytes /\ Len(out[s] \o buffer) <= Room
  <2>1. out[s] \o buffer \in Bytes /\ Len(out[s] \o buffer) = Len(out[s]) + Len(buffer)
    BY <1>1, Joined
  <2>2. Len(out[s]) \in Nat /\ Len(buffer) \in Nat /\ Room \in Nat
    BY <1>1, LenProperties, PeersAssumption DEF Bytes
  <2>3. Len(out[s]) + Len(buffer) <= Room
    BY <1>1, <2>2, Small
  <2> QED BY <2>1, <2>3
<1>3. out'[s] = out[s] \o buffer /\ out'[Other(s)] = out[Other(s)]
  BY <1>1 DEF PeersTyped
<1>4. s = "client" \/ s = "target"
  BY DEF Sides
<1>5. step' \in {"from client", "from target"}
  BY <1>4
<1>6. SslTyped'
  <2>1. out' \in [Sides -> Bytes] /\ \A t \in Sides : Len(out'[t]) <= Room
    BY <1>1, <1>2 DEF PeersTyped
  <2>2. PeersTyped'
    BY <1>1, <2>1 DEF PeersTyped
  <2> QED BY <1>5, <2>2, Small DEF SslInv, SslTyped
<1>7. WritesTo(s) # WritesTo(Other(s)) /\ step' # WritesTo(s) /\ step' # WritesTo(Other(s))
  BY <1>1, <1>5, SslBounds
<1>8. /\ Buffered(s) = buffer /\ Buffered(s)' = <<>>
      /\ Buffered(Other(s)) = <<>> /\ Buffered(Other(s))' = <<>>
  BY <1>7 DEF Buffered
<1>9. Run(Way(s, Buffered(s))', sent'[Other(s)])
  <2>1. got[s] \o (out[s] \o buffer) \in Bytes
    BY <1>1, <1>2, Joined
  <2>2. got[s] \o (out[s] \o buffer) \o <<>> = got[s] \o (out[s] \o buffer)
    BY <2>1, ConcatEmptySeq DEF Bytes
  <2>3. Grouped(got[s], out[s], buffer)
    BY <1>1, ThreeParts
  <2>4. Way(s, Buffered(s))' = Way(s, Buffered(s))
    BY <1>3, <1>8, <2>2, <2>3 DEF Grouped, Way
  <2> QED BY <2>4 DEF SslInv, SslRuns
<1>10. Run(Way(Other(s), Buffered(Other(s)))', sent'[s])
  <2>1. Way(Other(s), Buffered(Other(s)))' = Way(Other(s), Buffered(Other(s)))
    BY <1>1, <1>3, <1>8 DEF Way
  <2> QED BY <1>1, <2>1 DEF SslInv, SslRuns
<1>11. SslHalves'
  <2>1. CASE s = "client"
    <3>1. step = "to client" /\ step' = "from target" /\ "client" \in session
      BY <2>1 DEF WritesTo
    <3>2. side["client"] # "open"
      BY <3>1 DEF SslInv, SslHalves
    <3> QED BY <3>2 DEF SslHalves
  <2>2. CASE s = "target"
    <3>1. Other("target") = "client" /\ step' = "from client"
      BY <2>2 DEF Other
    <3> QED BY <1>3, <2>2, <3>1 DEF SslInv, SslHalves
  <2> QED BY <1>4, <2>1, <2>2
<1>12. SslRuns'
  <2>1. ASSUME NEW t \in Sides
        PROVE  Run(Way(t, Buffered(t))', sent'[Other(t)])
    BY <1>1, <1>9, <1>10
  <2> QED BY <2>1 DEF SslRuns
<1> QED BY <1>6, <1>11, <1>12 DEF SslInv

\* close() of both sockets may drop what was still to go to either.
LEMMA SslCloseStep ==
  ASSUME SslInv, Ssl!CloseBoth
  PROVE  SslInv'
<1>1. /\ step = "closing" /\ step' = "done" /\ linked' \subseteq linked
      /\ UNCHANGED <<in, sent, got, side, writing, reset, session, buffer>>
      /\ \E lost_ \in SUBSET {s \in Sides : in[s] # <<>>} :
           out' = [s \in Sides |-> IF s \in lost_ THEN <<>> ELSE out[s]]
  BY SslPeers DEF Ssl!CloseBoth, Ssl!CloseSockets, Ssl!ownVars
<1>2. /\ PeersTyped /\ "client" \in Sides /\ <<>> \in Bytes /\ Len(<<>>) <= Room
  BY SslBounds
<1>3. \A s \in Sides : out'[s] = out[s] \/ out'[s] = <<>>
  BY <1>1
<1>4. SslTyped'
  <2>1. out' \in [Sides -> Bytes] /\ \A s \in Sides : Len(out'[s]) <= Room
    BY <1>1, <1>2 DEF PeersTyped
  <2>2. PeersTyped'
    BY <1>1, <1>2, <2>1 DEF PeersTyped
  <2> QED BY <1>1, <2>2 DEF SslInv, SslTyped
<1>5. ASSUME NEW s \in Sides
      PROVE  Run(Way(s, Buffered(s))', sent'[Other(s)])
  <2>1. Buffered(s) = <<>> /\ Buffered(s)' = <<>>
    BY <1>1 DEF Buffered, WritesTo
  <2>2. Run(Way(s, <<>>), sent[Other(s)])
    BY <2>1 DEF SslInv, SslRuns
  <2>3. CASE out'[s] = out[s]
    BY <1>1, <2>1, <2>2, <2>3 DEF Way
  <2>4. CASE out'[s] = <<>>
    <3>1. /\ got[s] \in Bytes /\ out[s] \in Bytes /\ in[Other(s)] \in Bytes
          /\ sent[Other(s)] \in Nat
      BY SslBounds
    <3>2. got[s] \o out[s] \o <<>> \o in[Other(s)] = got[s] \o out[s] \o in[Other(s)]
      BY <3>1, NoMiddle, Zenon
    <3>3. Run(got[s] \o out[s] \o in[Other(s)], sent[Other(s)])
      BY <2>2, <3>2 DEF Way
    <3>4. Run(got[s] \o in[Other(s)], sent[Other(s)])
      BY <3>1, <3>3, RunDrops
    <3>5. got[s] \o <<>> = got[s]
      BY <3>1, ConcatEmptySeq DEF Bytes
    <3> QED BY <1>1, <2>1, <2>4, <3>4, <3>5 DEF Way
  <2> QED BY <1>3, <2>3, <2>4
<1>6. SslHalves'
  BY <1>1, <1>2, <1>3 DEF SslInv, SslHalves
<1> QED BY <1>4, <1>5, <1>6 DEF SslInv, SslRuns

LEMMA SslSteps ==
  ASSUME SslInv, Ssl!Next \/ UNCHANGED <<sslVars, peersVars>>
  PROVE  SslInv'
<1>1. CASE UNCHANGED <<sslVars, peersVars>>
  BY <1>1 DEF sslVars, peersVars, ownVars, SslInv, SslTyped, PeersTyped, SslRuns, SslHalves,
              Buffered, Way
<1>2. CASE \E s \in Ssl!Sides : Ssl!Peer(s) /\ UNCHANGED Ssl!sslVars
  BY <1>2, SslSideStep, SslPeers DEF Ssl!sslVars, sslVars
<1>3. /\ "client" \in Sides /\ "target" \in Sides
      /\ Other("client") = "target" /\ Other("target") = "client"
      /\ WritesTo("client") = "to client" /\ WritesTo("target") = "to target"
      /\ linked \subseteq Sides /\ session \subseteq Sides /\ {} \subseteq Sides
      /\ \A s \in reset : side[s] = "closed"
  BY DEF Sides, Other, WritesTo, SslInv, SslTyped, PeersTyped
<1>4. ASSUME Ssl!HandleError
      PROVE  SslInv'
  <2>1. /\ UNCHANGED <<in, out, sent, got, side, writing, reset>> /\ linked' \subseteq Sides
        /\ session' \subseteq Sides /\ buffer' = buffer /\ step' = "killed"
    BY <1>3, <1>4 DEF Ssl!HandleError, Ssl!ownVars
  <2> QED BY <2>1, SslQuietStep
<1>5. ASSUME NEW s \in Sides, Ssl!Handshake(s, "connecting") \/ Ssl!Handshake(s, "from client"),
             step \in {"accepting", "connecting"}
      PROVE  SslInv'
  <2>1. \/ Ssl!HandleError
        \/ /\ UNCHANGED <<in, out, sent, got, side, writing, reset>> /\ linked' \subseteq Sides
           /\ session' \subseteq Sides /\ buffer' = buffer
           /\ step' \in {"connecting", "from client"}
    BY <1>3, <1>5 DEF Ssl!Handshake, Ssl!ownVars
  <2>2. step \notin {"to target", "to client"}
    BY <1>5
  <2> QED BY <1>4, <2>1, <2>2, SslQuietStep
<1>6. ASSUME NEW s \in Sides, NEW next_, Ssl!SslRead(Other(s), WritesTo(s), next_),
             step \notin {"to target", "to client"},
             \/ s = "client" /\ step = "from target" /\ next_ = "closing"
             \/ s = "target" /\ next_ = "from target"
      PROVE  SslInv'
  <2>1. \/ /\ in[Other(s)] # <<>>
           /\ \E n \in 1..Len(in[Other(s)]) :
                in' = [in EXCEPT ![Other(s)] = SubSeq(in[Other(s)], n + 1, Len(in[Other(s)]))]
           /\ buffer' = <<Head(in[Other(s)])>> /\ step' = WritesTo(s)
           /\ UNCHANGED <<session, linked, out, sent, got, side, writing, reset>>
        \/ /\ Other(s) \notin session \/ (Other(s) \in ReadableNow /\ in[Other(s)] = <<>>)
           /\ step' = next_
           /\ UNCHANGED <<session, buffer, linked, in, out, sent, got, side, writing, reset>>
    BY <1>6, SslPeers DEF Ssl!SslRead, Ssl!ownVars, Ssl!peersVars
  <2>2. CASE /\ in[Other(s)] # <<>>
             /\ \E n \in 1..Len(in[Other(s)]) :
                  in' = [in EXCEPT ![Other(s)] = SubSeq(in[Other(s)], n + 1, Len(in[Other(s)]))]
             /\ buffer' = <<Head(in[Other(s)])>> /\ step' = WritesTo(s)
             /\ UNCHANGED <<session, linked, out, sent, got, side, writing, reset>>
    <3>1. s = "client" => step = "from target"
      BY <1>6
    <3>2. PICK n \in 1..Len(in[Other(s)]) :
            in' = [in EXCEPT ![Other(s)] = SubSeq(in[Other(s)], n + 1, Len(in[Other(s)]))]
      BY <2>2
    <3> QED BY <1>6, <2>2, <3>1, <3>2, SslReadStep
  <2>3. CASE /\ Other(s) \notin session \/ (Other(s) \in ReadableNow /\ in[Other(s)] = <<>>)
             /\ step' = next_
             /\ UNCHANGED <<session, buffer, linked, in, out, sent, got, side, writing, reset>>
    <3>1. linked' \subseteq Sides /\ session' \subseteq Sides /\ step' \in {"from target", "closing"}
      BY <1>3, <1>6, <2>3
    <3>2. step = "from target" \/ side["client"] # "open" \/ "client" \notin session
      <4>1. CASE s = "client"
        BY <1>6, <4>1
      <4>2. CASE s = "target"
        BY <1>3, <2>3, <4>2 DEF ReadableNow
      <4> QED BY <4>1, <4>2 DEF Sides
    <3> QED BY <1>6, <2>3, <3>1, <3>2, SslQuietStep
  <2> QED BY <2>1, <2>2, <2>3
<1>7. ASSUME NEW s \in Sides, NEW next_, Ssl!SslWrite(s, next_), step = WritesTo(s),
             \/ s = "client" /\ next_ = "from target"
             \/ s = "target" /\ next_ = "from client"
      PROVE  SslInv'
  <2>1. \/ Ssl!HandleError
        \/ /\ s \in session /\ Len(out[s]) < Room
           /\ out' = [out EXCEPT ![s] = out[s] \o buffer] /\ buffer' = <<>> /\ step' = next_
           /\ UNCHANGED <<session, linked, in, sent, got, side, writing, reset>>
    BY <1>7 DEF Ssl!SslWrite, Ssl!ownVars
  <2>2. CASE /\ s \in session /\ Len(out[s]) < Room
             /\ out' = [out EXCEPT ![s] = out[s] \o buffer] /\ buffer' = <<>> /\ step' = next_
             /\ UNCHANGED <<session, linked, in, sent, got, side, writing, reset>>
    <3>1. /\ s = "target" => step' = "from client"
          /\ s = "client" => step' = "from target" /\ "client" \in session
      BY <1>7, <2>2
    <3> QED BY <1>7, <2>2, <3>1, SslWriteStep
  <2> QED BY <1>4, <2>1, <2>2
<1>8. CASE Ssl!Accept \/ Ssl!Connect
  BY <1>3, <1>5, <1>8 DEF Ssl!Accept, Ssl!Connect
<1>9. CASE Ssl!FromClient
  BY <1>3, <1>6, <1>9 DEF Ssl!FromClient
<1>10. CASE Ssl!ToTarget
  BY <1>3, <1>7, <1>10 DEF Ssl!ToTarget
<1>11. CASE Ssl!FromTarget
  BY <1>3, <1>6, <1>11 DEF Ssl!FromTarget
<1>12. CASE Ssl!ToClient
  BY <1>3, <1>7, <1>12 DEF Ssl!ToClient
<1> QED BY <1>1, <1>2, <1>8, <1>9, <1>10, <1>11, <1>12, SslCloseStep DEF Ssl!Next, Ssl!Transfer

LEMMA SslStart ==
  ASSUME Ssl!Init
  PROVE  SslInv
<1>1. InitPeers /\ step = "accepting" /\ session = {} /\ buffer = <<>>
  BY SslPeers DEF Ssl!Init
<1>2. PeersTyped
  BY <1>1, PeersStart
<1>3. SslTyped
  BY <1>1, <1>2, Small DEF SslTyped
<1>4. \A s \in Sides : Way(s, <<>>) = <<>> /\ sent[Other(s)] = 0
  <2>1. <<>> \o <<>> = <<>>
    BY Small, ConcatEmptySeq DEF Bytes
  <2> QED BY <1>1, <2>1 DEF InitPeers, Way, Sides, Other
<1>5. Run(<<>>, 0)
  BY DEF Run
<1>6. \A s \in Sides : Buffered(s) = <<>>
  BY <1>1 DEF Buffered
<1> QED BY <1>1, <1>3, <1>4, <1>5, <1>6 DEF SslInv, SslRuns, SslHalves, InitPeers, Sides

LEMMA SslKeepsOrder ==
  ASSUME SslInv
  PROVE  Ssl!HalfDuplex
<1>1. Ssl!SslTypeOK
  BY SslPeers DEF SslInv, SslTyped, Ssl!SslTypeOK
<1>2. ASSUME NEW s \in Sides, NEW w, w = Way(s, Buffered(s))
      PROVE  \A i \in 1..(Len(w) - 1) : w[i] < w[i + 1]
  <2>1. w \in Bytes
    <3>1. /\ got[s] \in Bytes /\ out[s] \in Bytes /\ in[Other(s)] \in Bytes
          /\ Buffered(s) \in Bytes
      BY SslBounds
    <3>2. Parts(got[s], out[s], Buffered(s), in[Other(s)])
      BY <3>1, FourParts
    <3> QED BY <1>2, <3>2 DEF Parts, Way
  <2>2. Run(w, sent[Other(s)]) /\ sent[Other(s)] \in Nat
    BY <1>2, SslBounds DEF SslInv, SslRuns
  <2> QED BY <2>1, <2>2, RunIsIncreasing
<1>3. got["client"] \o out["client"] # <<>> => side["client"] # "open"
  <2>1. <<>> \o <<>> = <<>>
    BY Small, ConcatEmptySeq DEF Bytes
  <2> QED BY <2>1 DEF SslInv, SslHalves
<1> QED BY <1>1, <1>2, <1>3, SslPeers, Zenon DEF Ssl!HalfDuplex, Way, Buffered, WritesTo

----------------------------------------------------------------------------
(***************************************************************************)
(* The libuv proxy                                                         *)
(***************************************************************************)

LEMMA UvPeers ==
  /\ Uv!InitPeers => InitPeers
  /\ \A s : Uv!Peer(s) => Peer(s)
  /\ PeersTyped => Uv!PeersTypeOK
  /\ Uv!Sides = Sides
  /\ \A s : Uv!Other(s) = Other(s)
  /\ \A b, c : Uv!TakeWhatFits(b, c) = TakeWhatFits(b, c)
<1>1. Uv!InitPeers => InitPeers
  BY DEF Uv!InitPeers, InitPeers, Uv!Sides, Sides
<1>2. \A s : Uv!Peer(s) => Peer(s)
  BY DEF Uv!Peer, Uv!StartWrite, Uv!Write, Uv!Read, Uv!Finish, Uv!CloseSide, Uv!Reset,
         Uv!ownVars, Peer, StartWrite, Write, Read, Finish, CloseSide, Reset, ownVars
<1>3. PeersTyped => Uv!PeersTypeOK
  BY DEF PeersTyped, Uv!PeersTypeOK, Uv!Sides, Sides
<1>4. Uv!Sides = Sides
  BY DEF Uv!Sides, Sides
<1>5. \A s : Uv!Other(s) = Other(s)
  BY DEF Uv!Other, Other
<1>6. \A b, c : Uv!TakeWhatFits(b, c) = TakeWhatFits(b, c)
  BY Zenon DEF Uv!TakeWhatFits, TakeWhatFits, Uv!Min, Min
<1> QED BY <1>1, <1>2, <1>3, <1>4, <1>5, <1>6

\* Every byte is in its place, or damaged there.
Placed(w, n) == Len(w) = n /\ \A i \in 1..n : w[i] \in {i, 0}

\* Nothing is damaged, and nothing was made up.
Sound(w, n) == Len(w) <= n /\ \A i \in 1..Len(w) : w[i] # 0

LEMMA NextByte ==
  ASSUME NEW w \in Bytes, NEW n \in Nat
  PROVE  LET v == Append(w, n + 1)
         IN /\ v \in Bytes /\ Len(v) = Len(w) + 1 /\ Len(w) \in Nat
            /\ \A i \in 1..Len(w) : v[i] = w[i]
            /\ v[Len(w) + 1] = n + 1
<1>1. n + 1 \in Nat /\ w \in Seq(Nat)
  BY DEF Bytes
<1> QED BY <1>1, AppendProperties, LenProperties DEF Bytes

LEMMA PlacedGrows ==
  ASSUME NEW w \in Bytes, NEW n \in Nat, Placed(w, n)
  PROVE  Placed(Append(w, n + 1), n + 1)
<1> DEFINE v == Append(w, n + 1)
<1>1. Len(v) = n + 1 /\ (\A i \in 1..n : v[i] \in {i, 0}) /\ v[n + 1] = n + 1
  BY NextByte DEF Placed
<1> HIDE DEF v
<1>2. \A i \in 1..(n + 1) : i \in 1..n \/ i = n + 1
  OBVIOUS
<1>3. \A i \in 1..(n + 1) : v[i] \in {i, 0}
  BY <1>1, <1>2
<1> QED BY <1>1, <1>3 DEF Placed, v

LEMMA SoundGrows ==
  ASSUME NEW w \in Bytes, NEW n \in Nat, Sound(w, n)
  PROVE  Sound(Append(w, n + 1), n + 1)
<1> DEFINE v == Append(w, n + 1)
<1>1. /\ Len(v) = Len(w) + 1 /\ Len(w) \in Nat /\ Len(w) <= n
      /\ (\A i \in 1..Len(w) : v[i] # 0) /\ v[Len(w) + 1] = n + 1
  BY NextByte DEF Sound
<1> HIDE DEF v
<1>2. \A i \in 1..(Len(w) + 1) : i \in 1..Len(w) \/ i = Len(w) + 1
  BY <1>1
<1>3. \A i \in 1..Len(v) : v[i] # 0
  BY <1>1, <1>2
<1> QED BY <1>1, <1>3 DEF Sound, v

\* A part of it may be dropped.
LEMMA SoundDrops ==
  ASSUME NEW a \in Bytes, NEW b \in Bytes, NEW c \in Bytes, NEW n \in Nat, Sound(a \o b \o c, n)
  PROVE  Sound(a \o c, n)
<1>1. Sound(a \o (b \o c), n) /\ b \o c \in Bytes
  BY Joined, Associative
<1>2. /\ Len(a) \in Nat /\ Len(b) \in Nat /\ Len(c) \in Nat
      /\ Len(a \o (b \o c)) = Len(a) + (Len(b) + Len(c)) /\ Len(a \o c) = Len(a) + Len(c)
  BY <1>1, Joined
<1>3. Len(a \o c) <= n
  BY <1>1, <1>2 DEF Sound
<1>4. \A i \in 1..Len(a) : a[i] # 0
  BY <1>1, PartsOf DEF Sound
<1>5. \A i \in 1..Len(b \o c) : (b \o c)[i] # 0
  <2>1. PICK d \in Bytes : d = b \o c
    BY <1>1
  <2>2. \A i \in 1..Len(d) : Len(a) + i \in 1..Len(a \o d) /\ (a \o d)[Len(a) + i] = d[i]
    BY PartsOf
  <2>3. \A i \in 1..Len(a \o d) : (a \o d)[i] # 0
    BY <1>1, <2>1 DEF Sound
  <2>4. \A i \in 1..Len(d) : d[i] # 0
    BY <2>2, <2>3
  <2> QED BY <2>1, <2>4
<1>6. \A i \in 1..Len(c) : c[i] # 0
  <2>1. \A i \in 1..Len(c) : Len(b) + i \in 1..Len(b \o c) /\ (b \o c)[Len(b) + i] = c[i]
    BY PartsOf
  <2> QED BY <1>5, <2>1
<1>7. \A i \in 1..Len(a \o c) : (a \o c)[i] # 0
  BY <1>4, <1>6, PartsOf
<1> QED BY <1>3, <1>7 DEF Sound

\* A byte in the middle may be damaged.
LEMMA PlacedIsDamaged ==
  ASSUME NEW a \in Bytes, NEW x \in Nat, NEW c \in Bytes, NEW n \in Nat,
         Placed(a \o <<x>> \o c, n)
  PROVE  Placed(a \o <<0>> \o c, n)
<1>1. /\ <<x>> \in Bytes /\ <<0>> \in Bytes /\ Len(<<x>>) = 1 /\ Len(<<0>>) = 1
      /\ <<0>>[1] = 0
  BY DEF Bytes
<1>2. /\ a \o <<x>> \in Bytes /\ Len(a \o <<x>>) = Len(a) + 1
      /\ a \o <<0>> \in Bytes /\ Len(a \o <<0>>) = Len(a) + 1 /\ Len(a) \in Nat
  BY <1>1, Joined
<1>3. /\ Len(a \o <<x>> \o c) = Len(a) + 1 + Len(c)
      /\ Len(a \o <<0>> \o c) = Len(a) + 1 + Len(c) /\ Len(c) \in Nat
  BY <1>2, Joined
<1>4. n = Len(a) + 1 + Len(c)
  BY <1>3 DEF Placed
<1> DEFINE v == a \o <<0>>
           u == a \o <<x>>
<1>5. \A i \in 1..Len(a) : /\ i \in 1..Len(u) /\ u[i] = a[i] /\ i \in 1..Len(v) /\ v[i] = a[i]
  BY <1>1, PartsOf
<1>6. v[Len(a) + 1] = 0
  <2>1. 1 \in 1..Len(<<0>>)
    BY <1>1
  <2> QED BY <1>1, <2>1, PartsOf
<1>7. u \in Bytes /\ v \in Bytes /\ Len(u) = Len(a) + 1 /\ Len(v) = Len(a) + 1
  BY <1>2
<1> HIDE DEF u, v
<1>8. \A i \in 1..Len(u) : (u \o c)[i] = u[i] /\ (v \o c)[i] = v[i]
  BY <1>7, PartsOf
<1>9. \A i \in 1..Len(c) : (u \o c)[Len(a) + 1 + i] = (v \o c)[Len(a) + 1 + i]
  <2>1. \A i \in 1..Len(c) : (u \o c)[Len(u) + i] = c[i] /\ (v \o c)[Len(v) + i] = c[i]
    BY <1>7, PartsOf
  <2> QED BY <1>7, <2>1
<1>10. \A i \in 1..n : \/ i \in 1..Len(a) \/ i = Len(a) + 1
                       \/ \E k \in 1..Len(c) : i = Len(a) + 1 + k
  <2> SUFFICES ASSUME NEW i \in 1..n, i \notin 1..Len(a), i # Len(a) + 1
               PROVE  \E k \in 1..Len(c) : i = Len(a) + 1 + k
    OBVIOUS
  <2>1. i - (Len(a) + 1) \in 1..Len(c) /\ i = Len(a) + 1 + (i - (Len(a) + 1))
    BY <1>2, <1>3, <1>4
  <2> QED BY <2>1
<1>11. \A i \in 1..n : (u \o c)[i] \in {i, 0}
  BY DEF Placed, u
<1>12. \A i \in 1..n : (v \o c)[i] \in {i, 0}
  <2>1. Len(a) + 1 \in 1..Len(u)
    BY <1>2, <1>7
  <2>2. (v \o c)[Len(a) + 1] = 0
    BY <1>6, <1>8, <2>1
  <2>3. \A i \in 1..Len(a) : (v \o c)[i] = (u \o c)[i]
    BY <1>5, <1>8
  <2> QED BY <1>9, <1>10, <1>11, <2>2, <2>3
<1> QED BY <1>3, <1>4, <1>12 DEF Placed, v

UvTyped ==
  /\ PeersTyped
  /\ alive \in BOOLEAN
  /\ handle \in [Sides -> {"none", "connecting", "open", "broken", "closed"}]
  /\ handle["client"] \in {"none", "open", "closed"}
  /\ handle["client"] = "none" => handle["target"] = "none"
  /\ queue \in [Sides -> Bytes]
  /\ \A s \in Sides : queue[s] # <<>> => handle[s] \in {"connecting", "open"}

Attached(s) == /\ alive /\ \E t \in Sides : handle[t] # "closed"
               /\ side[s] # "closed" /\ handle[s] # "broken"

UvPlaces == \A s \in Sides : Attached(s) => Placed(Way(s, queue[s]), sent[Other(s)])

\* What fits the client's buffer is never queued.
UvFits == sent["target"] <= Room => /\ queue["client"] = <<>>
                                    /\ Sound(Way("client", <<>>), sent["target"])

UvInv == UvTyped /\ UvPlaces /\ UvFits

LEMMA UvBounds ==
  ASSUME UvInv
  PROVE  /\ PeersTyped /\ "client" \in Sides /\ "target" \in Sides /\ <<>> \in Bytes
         /\ Len(<<>>) <= Room
         /\ Other("client") = "target" /\ Other("target") = "client"
         /\ \A s \in Sides : /\ Other(s) \in Sides /\ Other(s) # s /\ Other(Other(s)) = s
                             /\ queue[s] \in Bytes
                             /\ got[s] \in Bytes /\ out[s] \in Bytes /\ in[s] \in Bytes
                             /\ sent[s] \in Nat
         /\ \A s, t \in Sides : t = s \/ t = Other(s)
<1>1. PeersTyped
  BY DEF UvInv, UvTyped
<1>2. \A s \in Sides : queue[s] \in Bytes
  BY DEF UvInv, UvTyped
<1>3. \A s, t \in Sides : t = s \/ t = Other(s)
  BY DEF Sides, Other
<1> QED BY <1>1, <1>2, <1>3, Bounds

\* What is on its way to the client when nothing is queued.
LEMMA ClientWay ==
  ASSUME UvInv
  PROVE  /\ Way("client", <<>>) = got["client"] \o out["client"] \o in["target"]
         /\ got["client"] \o out["client"] \o in["target"] \in Bytes
<1>1. got["client"] \in Bytes /\ out["client"] \in Bytes /\ in["target"] \in Bytes
  BY UvBounds
<1>2. got["client"] \o out["client"] \o <<>> \o in["target"]
        = got["client"] \o out["client"] \o in["target"]
  BY <1>1, NoMiddle, Zenon
<1>3. Other("client") = "target"
  BY UvBounds
<1>4. got["client"] \o out["client"] \in Bytes
  BY <1>1, Joined
<1>5. got["client"] \o out["client"] \o in["target"] \in Bytes
  BY <1>1, <1>4, Joined
<1> QED BY <1>2, <1>3, <1>5 DEF Way

LEMMA UvSideStep ==
  ASSUME UvInv, NEW p \in Sides, Peer(p), UNCHANGED uvVars
  PROVE  UvInv'
<1>1. UvTyped'
  BY PeerStep DEF UvInv, UvTyped, uvVars
<1>2. ASSUME NEW s \in Sides, Attached(s)'
      PROVE  Placed(Way(s, queue[s])', sent'[Other(s)])
  <2>1. PICK m \in Bytes : m = queue[s]
    BY UvBounds
  <2>2. side[s] # "closed"
    BY <1>2, UvBounds, PeerStep DEF Attached
  <2>3. Attached(s)
    BY <1>2, <2>2 DEF Attached, uvVars
  <2>4. Placed(Way(s, m), sent[Other(s)])
    BY <2>1, <2>3 DEF UvInv, UvPlaces
  <2>5. Way(s, m) \in Bytes /\ sent[Other(s)] \in Nat
    BY UvBounds, WayStep
  <2>6. \/ Way(s, m)' = Way(s, m) /\ sent'[Other(s)] = sent[Other(s)]
        \/ /\ Way(s, m)' = Append(Way(s, m), sent[Other(s)] + 1)
           /\ sent'[Other(s)] = sent[Other(s)] + 1
    BY <2>2, UvBounds, WayStep
  <2>7. Placed(Way(s, m)', sent'[Other(s)])
    BY <2>4, <2>5, <2>6, PlacedGrows
  <2> QED BY <2>1, <2>7 DEF uvVars, Way
<1>3. UvFits'
  <2> SUFFICES ASSUME sent'["target"] <= Room
               PROVE  queue'["client"] = <<>> /\ Sound(Way("client", <<>>)', sent'["target"])
    BY DEF UvFits
  <2>1. Way("client", <<>>) \in Bytes /\ sent["target"] \in Nat
    BY UvBounds, WayStep
  <2>2. \/ Way("client", <<>>)' = Way("client", <<>>) /\ sent'["target"] = sent["target"]
        \/ /\ Way("client", <<>>)' = Append(Way("client", <<>>), sent["target"] + 1)
           /\ sent'["target"] = sent["target"] + 1
        \/ /\ sent'["target"] = sent["target"]
           /\ Way("client", <<>>)' = got["client"] \o (<<>> \o in["target"])
           /\ Way("client", <<>>) = got["client"] \o out["client"] \o (<<>> \o in["target"])
    <3>1. /\ PeersTyped /\ "client" \in Sides /\ <<>> \in Bytes
          /\ Other("client") = "target"
      BY UvBounds
    <3>2. PICK m \in Bytes : m = <<>>
      BY <3>1
    <3>3. \/ Way("client", m)' = Way("client", m) /\ sent'["target"] = sent["target"]
          \/ /\ Way("client", m)' = Append(Way("client", m), sent["target"] + 1)
             /\ sent'["target"] = sent["target"] + 1
          \/ /\ sent'["target"] = sent["target"]
             /\ Way("client", m)' = got["client"] \o (m \o in["target"])
             /\ Way("client", m) = got["client"] \o out["client"] \o (m \o in["target"])
      BY <3>1, WayStep
    <3> QED BY <3>2, <3>3 DEF Way
  <2>3. sent["target"] <= Room
    <3>1. sent'["target"] = sent["target"] \/ sent'["target"] = sent["target"] + 1
      BY <2>2
    <3>2. \A x, y \in Nat : x + 1 <= y => x <= y
      OBVIOUS
    <3> QED BY <2>1, <3>1, <3>2, PeersAssumption
  <2>4. queue["client"] = <<>> /\ Sound(Way("client", <<>>), sent["target"])
    BY <2>3 DEF UvInv, UvFits
  <2>5. CASE /\ sent'["target"] = sent["target"]
             /\ Way("client", <<>>)' = got["client"] \o (<<>> \o in["target"])
             /\ Way("client", <<>>) = got["client"] \o out["client"] \o (<<>> \o in["target"])
    <3>1. got["client"] \in Bytes /\ out["client"] \in Bytes /\ <<>> \o in["target"] \in Bytes
      BY UvBounds, Joined
    <3>2. PICK e \in Bytes : e = <<>> \o in["target"]
      BY <3>1
    <3>3. Sound(got["client"] \o out["client"] \o e, sent["target"])
      BY <2>4, <2>5, <3>2
    <3>4. Sound(got["client"] \o e, sent["target"])
      BY <2>1, <3>1, <3>3, SoundDrops
    <3>5. Way("client", <<>>)' = got["client"] \o e /\ sent'["target"] = sent["target"]
      BY <2>5, <3>2
    <3> QED BY <2>4, <3>4, <3>5 DEF uvVars
  <2>6. Sound(Way("client", <<>>)', sent'["target"])
    BY <2>1, <2>2, <2>4, <2>5, SoundGrows
  <2> QED BY <2>4, <2>6 DEF uvVars
<1>4. UvPlaces'
  BY <1>2 DEF UvPlaces
<1> QED BY <1>1, <1>3, <1>4 DEF UvInv

\* Steps that move nothing, but may break or close a handle.
LEMMA UvQuietStep ==
  ASSUME UvInv, UNCHANGED <<in, out, sent, got, side, writing, reset>>, linked' \subseteq Sides,
         alive' \in BOOLEAN,
         handle' \in [Sides -> {"none", "connecting", "open", "broken", "closed"}],
         handle'["client"] \in {"none", "open", "closed"},
         handle'["client"] = "none" => handle'["target"] = "none",
         queue' \in [Sides -> Bytes],
         \A s \in Sides : queue'[s] # <<>> => handle'[s] \in {"connecting", "open"},
         \A s \in Sides : Attached(s)' => Attached(s) /\ queue'[s] = queue[s],
         queue'["client"] \in {queue["client"], <<>>}
  PROVE  UvInv'
<1>1. UvTyped'
  BY DEF UvInv, UvTyped, PeersTyped
<1>2. UvPlaces'
  BY DEF UvInv, UvPlaces, Way
<1>3. UvFits'
  BY DEF UvInv, UvFits, Way
<1> QED BY <1>1, <1>2, <1>3 DEF UvInv

\* What is read from one side is written to the other, queued, or lost.
LEMMA UvDataStep ==
  ASSUME UvInv, NEW s \in Sides, handle[Other(s)] = "open", in[Other(s)] # <<>>,
         in' = [in EXCEPT ![Other(s)] = <<>>],
         Uv!UvWrite(s, in[Other(s)]),
         UNCHANGED <<alive, handle, linked, sent, got, side, writing, reset>>
  PROVE  UvInv'
<1>1. /\ PeersTyped /\ Other(s) \in Sides /\ Other(s) # s /\ Other(Other(s)) = s
      /\ got[s] \in Bytes /\ out[s] \in Bytes /\ in[Other(s)] \in Bytes /\ queue[s] \in Bytes
      /\ sent[Other(s)] \in Nat /\ Len(out[s]) <= Room
      /\ out \in [Sides -> Bytes] /\ queue \in [Sides -> Bytes]
      /\ \A t \in Sides : t = s \/ t = Other(s)
  BY UvBounds DEF PeersTyped, UvInv, UvTyped
<1>2. PICK i \in Bytes, o \in Bytes, q \in Bytes, g \in Bytes :
        i = in[Other(s)] /\ o = out[s] /\ q = queue[s] /\ g = got[s]
  BY <1>1
<1>3. PICK f \in Bytes, rest \in Bytes :
        /\ f = TakeWhatFits(o, i) /\ rest = SubSeq(i, Len(f) - Len(o) + 1, Len(i))
        /\ Len(f) <= Room /\ o \o i = f \o rest
        /\ Len(o \o i) <= Room => f = o \o i /\ rest = <<>>
  <2>1. Len(o) <= Room
    BY <1>1, <1>2
  <2>2. PICK f \in Bytes : f = TakeWhatFits(o, i)
    BY <2>1, Fits
  <2>3. PICK rest \in Bytes : rest = SubSeq(i, Len(f) - Len(o) + 1, Len(i))
    BY <2>1, <2>2, Fits
  <2>4. /\ Len(f) <= Room /\ o \o i = f \o rest
        /\ Len(o \o i) <= Room => f = o \o i /\ rest = <<>>
    BY <2>1, <2>2, <2>3, Fits
  <2> QED BY <2>2, <2>3, <2>4
<1>4. \/ (handle[s] = "broken" \/ s \in reset) /\ UNCHANGED <<out, queue>>
      \/ /\ handle[s] = "connecting" \/ q # <<>>
         /\ queue' = [queue EXCEPT ![s] = q \o i] /\ UNCHANGED out
      \/ /\ handle[s] = "open" /\ q = <<>>
         /\ out' = [out EXCEPT ![s] = f] /\ queue' = [queue EXCEPT ![s] = rest]
  <2>1. Uv!TakeWhatFits(o, i) = f
    BY <1>3, UvPeers
  <2>2. \/ (handle[s] = "broken" \/ s \in reset) /\ UNCHANGED <<out, queue>>
        \/ /\ handle[s] = "connecting" \/ q # <<>>
           /\ queue' = [queue EXCEPT ![s] = q \o i] /\ UNCHANGED out
        \/ /\ handle[s] = "open" /\ q = <<>>
           /\ out' = [out EXCEPT ![s] = f]
           /\ queue' = [queue EXCEPT ![s] = SubSeq(i, Len(out'[s]) - Len(o) + 1, Len(i))]
    BY <1>2, <2>1 DEF Uv!UvWrite, Uv!Unwritable
  <2>3. out' = [out EXCEPT ![s] = f] => out'[s] = f
    BY <1>1
  <2> QED BY <1>3, <2>2, <2>3
<1>5. in'[Other(s)] = <<>> /\ in'[s] = in[s]
  BY <1>1 DEF PeersTyped
<1>6. out'[Other(s)] = out[Other(s)] /\ queue'[Other(s)] = queue[Other(s)]
  BY <1>1, <1>4
<1>7. \/ (handle[s] = "broken" \/ s \in reset) /\ out'[s] = o /\ queue'[s] = q
      \/ /\ handle[s] = "connecting" \/ q # <<>>
         /\ out'[s] = o /\ queue'[s] = q \o i
      \/ handle[s] = "open" /\ q = <<>> /\ out'[s] = f /\ queue'[s] = rest
  BY <1>1, <1>2, <1>4
<1>8. q \o i \in Bytes
  BY Joined
<1>9. UvTyped'
  <2>1. /\ out' \in [Sides -> Bytes] /\ queue' \in [Sides -> Bytes]
        /\ \A t \in Sides : Len(out'[t]) <= Room
    <3>1. \A t \in Sides : out'[t] \in Bytes /\ queue'[t] \in Bytes /\ Len(out'[t]) <= Room
      <4>1. out'[s] \in Bytes /\ queue'[s] \in Bytes /\ Len(out'[s]) <= Room
        BY <1>1, <1>2, <1>3, <1>7, <1>8
      <4>2. /\ out'[Other(s)] \in Bytes /\ queue'[Other(s)] \in Bytes
            /\ Len(out'[Other(s)]) <= Room
        BY <1>1, <1>6 DEF PeersTyped
      <4> QED BY <1>1, <4>1, <4>2
    <3>2. out' = [t \in Sides |-> out'[t]] /\ queue' = [t \in Sides |-> queue'[t]]
      BY <1>1, <1>4
    <3> QED BY <3>1, <3>2
  <2>2. in' \in [Sides -> Bytes] /\ \A t \in Sides : Len(in'[t]) <= Room
    BY <1>1, UvBounds DEF PeersTyped
  <2>3. PeersTyped'
    BY <1>1, <2>1, <2>2 DEF PeersTyped
  <2>4. \A t \in Sides : queue'[t] # <<>> => handle[t] \in {"connecting", "open"}
    <3>1. \A t \in Sides : queue[t] # <<>> => handle[t] \in {"connecting", "open"}
      BY DEF UvInv, UvTyped
    <3>2. queue'[s] # <<>> => handle[s] \in {"connecting", "open"}
      BY <1>2, <1>7, <3>1
    <3> QED BY <1>1, <1>6, <3>1, <3>2
  <2> QED BY <2>1, <2>3, <2>4 DEF UvInv, UvTyped
<1>10. ~(handle[s] = "broken" \/ s \in reset) => Way(s, queue[s])' = Way(s, queue[s])
  <2> SUFFICES ASSUME ~(handle[s] = "broken" \/ s \in reset)
               PROVE  Way(s, queue[s])' = Way(s, queue[s])
    OBVIOUS
  <2>1. Way(s, queue[s]) = g \o o \o q \o i
    BY <1>2 DEF Way
  <2>2. Way(s, queue[s])' = g \o out'[s] \o queue'[s] \o <<>>
    BY <1>2, <1>5 DEF Way
  <2>3. CASE out'[s] = o /\ queue'[s] = q \o i
    <3>1. Parts(g, o, q, i)
      BY FourParts
    <3>2. Parts(g, o, q \o i, <<>>)
      BY <1>8, FourParts, EmptySeq DEF Bytes
    <3>3. g \o o \o (q \o i) \o <<>> = g \o o \o (q \o i)
      BY <3>2, ConcatEmptySeq DEF Parts, Bytes
    <3> QED BY <2>1, <2>2, <2>3, <3>1, <3>3 DEF Parts
  <2>4. CASE q = <<>> /\ out'[s] = f /\ queue'[s] = rest
    <3>1. g \o o \o <<>> \o i = g \o o \o i
      BY NoMiddle, Zenon
    <3>2. Parts(g, f, rest, <<>>)
      BY FourParts, EmptySeq DEF Bytes
    <3>3. g \o f \o rest \o <<>> = g \o f \o rest
      BY <3>2, ConcatEmptySeq DEF Parts, Bytes
    <3>4. Grouped(g, o, i) /\ Grouped(g, f, rest)
      BY ThreeParts
    <3>5. g \o o \o i = g \o f \o rest
      BY <1>3, <3>4 DEF Grouped
    <3> QED BY <2>1, <2>2, <2>4, <3>1, <3>3, <3>5
  <2> QED BY <1>7, <2>3, <2>4
<1>11. UvPlaces'
  <2>1. ASSUME NEW t \in Sides, Attached(t)'
        PROVE  Placed(Way(t, queue[t])', sent'[Other(t)])
    <3>1. Attached(t)
      BY <2>1 DEF Attached
    <3>2. Placed(Way(t, queue[t]), sent[Other(t)])
      BY <3>1 DEF UvInv, UvPlaces
    <3>3. CASE t = s
      <4>1. ~(handle[s] = "broken" \/ s \in reset)
        BY <1>1, <3>1, <3>3 DEF Attached, PeersTyped
      <4> QED BY <1>10, <3>2, <3>3, <4>1
    <3>4. CASE t = Other(s)
      <4>1. Way(t, queue[t])' = Way(t, queue[t])
        BY <1>1, <1>5, <1>6, <3>4 DEF Way
      <4> QED BY <3>2, <4>1
    <3> QED BY <1>1, <3>3, <3>4
  <2> QED BY <2>1 DEF UvPlaces
<1>12. UvFits'
  <2> SUFFICES ASSUME sent["target"] <= Room
               PROVE  queue'["client"] = <<>> /\ Sound(Way("client", <<>>)', sent["target"])
    BY DEF UvFits
  <2>1. queue["client"] = <<>> /\ Sound(Way("client", <<>>), sent["target"])
    BY DEF UvInv, UvFits
  <2>2. CASE s = "target"
    <3>1. /\ Other(s) = "client" /\ queue'["client"] = queue["client"]
          /\ out'["client"] = out["client"] /\ in'["target"] = in["target"]
      BY <1>5, <1>6, <2>2, UvBounds
    <3>2. Other("client") = "target"
      BY UvBounds
    <3> QED BY <2>1, <3>1, <3>2 DEF Way
  <2>3. CASE s = "client"
    <3>1. Other(s) = "target" /\ handle["client"] # "connecting" /\ q = <<>>
      BY <1>2, <2>1, <2>3, UvBounds DEF UvInv, UvTyped
    <3>2. Sound(g \o o \o i, sent["target"]) /\ g \o o \o i \in Bytes
      BY <1>2, <2>1, <2>3, <3>1, ClientWay
    <3>3. \A u : out'["client"] = u => Way("client", <<>>)' = g \o u \o <<>> \o <<>>
      BY <1>2, <1>5, <2>3, <3>1 DEF Way
    <3>4. <<>> \in Bytes
      BY UvBounds
    <3>5. CASE out'[s] = o /\ queue'[s] = q
      <4>1. g \o o \o <<>> \o <<>> = g \o o \o <<>>
        BY <3>4, NoMiddle, Zenon
      <4>2. Sound(g \o o \o <<>>, sent["target"])
        <5>1. g \o o \in Bytes
          BY Joined
        <5>2. g \o o \o i \o <<>> = g \o o \o i
          BY NoMiddle, Zenon
        <5>3. PICK w \in Bytes : w = g \o o
          BY <5>1
        <5>4. Sound(w \o i \o <<>>, sent["target"])
          BY <3>2, <5>2, <5>3
        <5>5. sent["target"] \in Nat
          BY UvBounds
        <5> QED BY <3>4, <5>3, <5>4, <5>5, SoundDrops
      <4> QED BY <2>3, <3>1, <3>3, <3>5, <4>1, <4>2
    <3>6. CASE out'[s] = f /\ queue'[s] = rest
      <4>1. Len(o \o i) <= Room
        <5>1. Grouped(g, o, i) /\ o \o i \in Bytes
          BY ThreeParts, Joined
        <5>2. Len(g \o (o \o i)) <= sent["target"]
          BY <3>2, <5>1 DEF Grouped, Sound
        <5>3. Len(g \o (o \o i)) = Len(g) + Len(o \o i) /\ Len(g) \in Nat /\ Len(o \o i) \in Nat
          BY <5>1, Joined
        <5>4. \A x, y, z, r \in Nat : x + y <= z /\ z <= r => y <= r
          OBVIOUS
        <5>5. sent["target"] \in Nat /\ Room \in Nat
          BY UvBounds, PeersAssumption
        <5> QED BY <5>2, <5>3, <5>4, <5>5
      <4>2. f = o \o i /\ rest = <<>>
        BY <1>3, <4>1
      <4>3. Grouped(g, o, i) /\ o \o i \in Bytes
        BY ThreeParts, Joined
      <4>4. g \o (o \o i) \o <<>> \o <<>> = g \o o \o i
        <5>1. g \o o \o i \o <<>> = g \o o \o i
          BY NoMiddle, Zenon
        <5> QED BY <4>3, <5>1 DEF Grouped
      <4> QED BY <2>3, <3>2, <3>3, <3>6, <4>2, <4>4
    <3> QED BY <1>7, <2>3, <3>1, <3>5, <3>6
  <2> QED BY <2>2, <2>3 DEF Sides
<1> QED BY <1>9, <1>11, <1>12 DEF UvInv

\* Both handles are closed, and what was on its way to either may be dropped.
LEMMA UvEndStep ==
  ASSUME UvInv, NEW s \in Sides, Uv!OnEnd(s)
  PROVE  UvInv'
<1>0. /\ "target" \in Sides /\ "client" \in Sides /\ linked \subseteq Sides
      /\ \A t \in Sides : "closed" \in {"none", "connecting", "open", "broken", "closed"}
  BY UvBounds DEF PeersTyped
<1>1. CASE Uv!Dies
  <2>1. /\ UNCHANGED <<in, out, sent, got, side, writing, reset, handle, queue>>
        /\ linked' = {} /\ alive' = FALSE
    BY <1>1 DEF Uv!Dies, Uv!ownVars
  <2>2. \A t \in Sides : ~Attached(t)'
    BY <2>1 DEF Attached
  <2> QED BY <2>1, <2>2, UvQuietStep DEF UvInv, UvTyped
<1>2. CASE ~Uv!Dies
  <2>1. /\ UNCHANGED <<in, sent, got, side, writing, reset, alive>>
        /\ linked' \subseteq linked
        /\ handle' = [t \in Sides |-> "closed"] /\ queue' = [t \in Sides |-> <<>>]
        /\ \E lost_ \in SUBSET {t \in Sides : in[t] # <<>>} :
             out' = [t \in Sides |-> IF t \in lost_ THEN <<>> ELSE out[t]]
    BY <1>2, UvPeers DEF Uv!OnEnd, Uv!CloseSockets, Uv!ownVars
  <2>2. \A t \in Sides : out'[t] = out[t] \/ out'[t] = <<>>
    BY <2>1
  <2>3. <<>> \in Bytes /\ Len(<<>>) <= Room
    BY UvBounds
  <2>4. UvTyped'
    <3>1. out' \in [Sides -> Bytes] /\ \A t \in Sides : Len(out'[t]) <= Room
      BY <2>1, <2>3 DEF UvInv, UvTyped, PeersTyped
    <3>2. PeersTyped'
      BY <2>1, <3>1 DEF UvInv, UvTyped, PeersTyped
    <3> QED BY <1>0, <2>1, <2>3, <3>2 DEF UvInv, UvTyped
  <2>5. UvPlaces'
    BY <2>1 DEF UvPlaces, Attached
  <2>6. UvFits'
    <3> SUFFICES ASSUME sent["target"] <= Room
                 PROVE  queue'["client"] = <<>> /\ Sound(Way("client", <<>>)', sent["target"])
      BY <2>1 DEF UvFits
    <3>1. Sound(Way("client", <<>>), sent["target"])
      BY DEF UvInv, UvFits
    <3>2. CASE out'["client"] = out["client"]
      BY <1>0, <2>1, <3>1, <3>2 DEF Way
    <3>3. CASE out'["client"] = <<>>
      <4>1. /\ got["client"] \in Bytes /\ out["client"] \in Bytes /\ in["target"] \in Bytes
            /\ sent["target"] \in Nat
        BY UvBounds
      <4>2. Sound(got["client"] \o out["client"] \o in["target"], sent["target"])
        BY <3>1, ClientWay
      <4>3. Sound(got["client"] \o in["target"], sent["target"])
        BY <4>1, <4>2, SoundDrops
      <4>4. Way("client", <<>>)' = got["client"] \o <<>> \o <<>> \o in["target"]
        <5>1. Other("client") = "target"
          BY UvBounds
        <5> QED BY <2>1, <3>3, <5>1 DEF Way
      <4>5. got["client"] \o <<>> = got["client"]
        BY <4>1, ConcatEmptySeq DEF Bytes
      <4>6. Way("client", <<>>)' = got["client"] \o in["target"]
        BY <4>4, <4>5
      <4>7. queue'["client"] = <<>>
        BY <1>0, <2>1
      <4> QED BY <4>3, <4>6, <4>7
    <3> QED BY <1>0, <2>2, <3>2, <3>3
  <2> QED BY <2>4, <2>5, <2>6 DEF UvInv
<1> QED BY <1>1, <1>2

\* A byte that was queued is written, or what its memory holds by then.
LEMMA UvFlushStep ==
  ASSUME UvInv, NEW s \in Sides, queue[s] # <<>>, Len(out[s]) < Room,
         NEW x \in {Head(queue[s]), 0},
         out' = [out EXCEPT ![s] = Append(out[s], x)],
         queue' = [queue EXCEPT ![s] = Tail(queue[s])],
         UNCHANGED <<alive, handle, linked, in, sent, got, side, writing, reset>>
  PROVE  UvInv'
<1>1. /\ PeersTyped /\ Other(s) \in Sides /\ Other(s) # s /\ Other(Other(s)) = s
      /\ got[s] \in Bytes /\ out[s] \in Bytes /\ in[Other(s)] \in Bytes /\ queue[s] \in Bytes
      /\ sent[Other(s)] \in Nat
      /\ out \in [Sides -> Bytes] /\ queue \in [Sides -> Bytes]
      /\ \A t \in Sides : t = s \/ t = Other(s)
  BY UvBounds DEF PeersTyped, UvInv, UvTyped
<1>2. PICK i \in Bytes, o \in Bytes, q \in Bytes, g \in Bytes :
        i = in[Other(s)] /\ o = out[s] /\ q = queue[s] /\ g = got[s]
  BY <1>1
<1>3. q # <<>> /\ x \in {Head(q), 0}
  BY <1>2
<1>4. Head(q) \in Nat /\ x \in Nat /\ Tail(q) \in Bytes /\ <<x>> \in Bytes /\ <<Head(q)>> \in Bytes
  <2>1. Head(q) \in Nat /\ Tail(q) \in Bytes
    BY <1>3, HeadTailProperties DEF Bytes
  <2>2. x \in Nat
    BY <1>3, <2>1
  <2> QED BY <2>1, <2>2 DEF Bytes
<1>5. /\ Append(o, x) = o \o <<x>> /\ Append(o, x) \in Bytes /\ Len(Append(o, x)) = Len(o) + 1
      /\ Append(o, Head(q)) = o \o <<Head(q)>>
      /\ Append(o, Head(q)) \o Tail(q) = o \o q
  <2>1. Append(o, x) = o \o <<x>> /\ Append(o, Head(q)) = o \o <<Head(q)>>
    BY <1>4, AppendIsConcat DEF Bytes
  <2>2. Append(o, x) \in Bytes /\ Len(Append(o, x)) = Len(o) + 1
    BY <1>4, AppendProperties DEF Bytes
  <2>3. Append(o, Head(q)) \o Tail(q) = o \o q
    BY <1>3, Shift
  <2> QED BY <2>1, <2>2, <2>3
<1>6. Len(Append(o, x)) <= Room
  <2>1. Len(o) < Room
    BY <1>2
  <2>2. Len(o) \in Nat /\ Room \in Nat
    BY LenProperties, PeersAssumption DEF Bytes
  <2> QED BY <1>5, <2>1, <2>2
<1>7. out' = [out EXCEPT ![s] = Append(o, x)] /\ queue' = [queue EXCEPT ![s] = Tail(q)]
  BY <1>2
<1>8. /\ out'[s] = Append(o, x) /\ queue'[s] = Tail(q)
      /\ out'[Other(s)] = out[Other(s)] /\ queue'[Other(s)] = queue[Other(s)]
  BY <1>1, <1>7
<1>9. UvTyped'
  <2>1. \A t \in Sides : out'[t] \in Bytes /\ queue'[t] \in Bytes /\ Len(out'[t]) <= Room
    <3>1. /\ out'[Other(s)] \in Bytes /\ queue'[Other(s)] \in Bytes
          /\ Len(out'[Other(s)]) <= Room
      BY <1>1, <1>8 DEF PeersTyped
    <3> QED BY <1>1, <1>4, <1>5, <1>6, <1>8, <3>1
  <2>2. out' = [t \in Sides |-> out'[t]] /\ queue' = [t \in Sides |-> queue'[t]]
    BY <1>1, <1>7
  <2>3. PeersTyped'
    BY <1>1, <2>1, <2>2 DEF PeersTyped
  <2>4. \A t \in Sides : queue'[t] # <<>> => handle[t] \in {"connecting", "open"}
    <3>1. \A t \in Sides : queue[t] # <<>> => handle[t] \in {"connecting", "open"}
      BY DEF UvInv, UvTyped
    <3>2. handle[s] \in {"connecting", "open"}
      BY <3>1
    <3> QED BY <1>1, <1>8, <3>1, <3>2
  <2> QED BY <2>1, <2>2, <2>3, <2>4 DEF UvInv, UvTyped
<1>10. UvPlaces'
  <2>1. ASSUME NEW t \in Sides, Attached(t)'
        PROVE  Placed(Way(t, queue[t])', sent'[Other(t)])
    <3>1. Attached(t)
      BY <2>1 DEF Attached
    <3>2. Placed(Way(t, queue[t]), sent[Other(t)])
      BY <3>1 DEF UvInv, UvPlaces
    <3>3. CASE t = Other(s)
      <4>1. Way(t, queue[t])' = Way(t, queue[t])
        BY <1>1, <1>8, <3>3 DEF Way
      <4> QED BY <3>2, <4>1
    <3>4. CASE t = s
      <4>1. Placed(g \o o \o q \o i, sent[Other(s)])
        BY <1>2, <3>2, <3>4 DEF Way
      <4>2. Way(t, queue[t])' = g \o (o \o <<x>>) \o Tail(q) \o i
        BY <1>2, <1>5, <1>8, <3>4 DEF Way
      <4>3. PICK a \in Bytes, c \in Bytes : a = g \o o /\ c = Tail(q) \o i
        BY <1>4, Joined
      <4>4. \A y \in Nat : g \o (o \o <<y>>) \o Tail(q) \o i = a \o <<y>> \o c
        <5> SUFFICES ASSUME NEW y \in Nat
                     PROVE  g \o (o \o <<y>>) \o Tail(q) \o i = a \o <<y>> \o c
          OBVIOUS
        <5>1. <<y>> \in Bytes
          BY DEF Bytes
        <5>2. Grouped(g, o, <<y>>)
          BY <5>1, ThreeParts
        <5>3. a \o <<y>> \in Bytes
          BY <5>1, Joined
        <5>4. Grouped(a \o <<y>>, Tail(q), i)
          BY <1>4, <5>3, ThreeParts
        <5> QED BY <4>3, <5>2, <5>4 DEF Grouped
      <4>5. g \o (o \o <<Head(q)>>) \o Tail(q) = g \o o \o q
        <5>1. o \o <<Head(q)>> \in Bytes
          BY <1>4, Joined
        <5>2. Grouped(g, o \o <<Head(q)>>, Tail(q)) /\ Grouped(g, o, q)
          BY <1>4, <5>1, ThreeParts
        <5> QED BY <1>5, <5>2 DEF Grouped
      <4>6. Placed(a \o <<Head(q)>> \o c, sent[Other(s)])
        <5>1. g \o (o \o <<Head(q)>>) \o Tail(q) \o i = a \o <<Head(q)>> \o c
          BY <1>4, <4>4
        <5> QED BY <4>1, <4>5, <5>1
      <4>7. Placed(a \o <<0>> \o c, sent[Other(s)])
        BY <1>1, <1>4, <4>6, PlacedIsDamaged
      <4>8. Placed(a \o <<x>> \o c, sent[Other(s)])
        BY <1>3, <4>6, <4>7
      <4>9. Way(t, queue[t])' = a \o <<x>> \o c
        BY <1>4, <4>2, <4>4
      <4> QED BY <3>4, <4>8, <4>9
    <3> QED BY <1>1, <3>3, <3>4
  <2> QED BY <2>1 DEF UvPlaces
<1>11. UvFits'
  <2> SUFFICES ASSUME sent["target"] <= Room
               PROVE  queue'["client"] = <<>> /\ Sound(Way("client", <<>>)', sent["target"])
    BY DEF UvFits
  <2>1. queue["client"] = <<>> /\ Sound(Way("client", <<>>), sent["target"])
    BY DEF UvInv, UvFits
  <2>2. Other(s) = "client"
    BY <2>1, UvBounds DEF Sides
  <2>3. Way("client", <<>>)' = Way("client", <<>>)
    BY <1>8, <2>2 DEF Way
  <2> QED BY <1>8, <2>1, <2>2, <2>3
<1> QED BY <1>9, <1>10, <1>11 DEF UvInv

LEMMA UvSteps ==
  ASSUME UvInv, Uv!Next \/ UNCHANGED <<uvVars, peersVars>>
  PROVE  UvInv'
<1>0. /\ "target" \in Sides /\ "client" \in Sides /\ linked \subseteq Sides
      /\ <<>> \in Bytes /\ reset \subseteq Sides /\ \A s \in reset : side[s] = "closed"
  BY UvBounds DEF PeersTyped
<1>1. CASE UNCHANGED <<uvVars, peersVars>>
  BY <1>1 DEF uvVars, peersVars, ownVars, UvInv, UvTyped, PeersTyped, UvPlaces, UvFits,
              Attached, Way
<1>2. CASE \E s \in Uv!Sides : Uv!Peer(s) /\ UNCHANGED Uv!uvVars
  BY <1>2, UvSideStep, UvPeers DEF Uv!uvVars, uvVars
<1>3. ASSUME Uv!Dies
      PROVE  UvInv'
  <2>1. /\ UNCHANGED <<in, out, sent, got, side, writing, reset, handle, queue>>
        /\ linked' = {} /\ alive' = FALSE
    BY <1>3 DEF Uv!Dies, Uv!ownVars
  <2>2. \A t \in Sides : ~Attached(t)'
    BY <2>1 DEF Attached
  <2> QED BY <2>1, <2>2, UvQuietStep DEF UvInv, UvTyped
<1>4. CASE Uv!OnNewConnection
  <2>1. \/ Uv!Dies
        \/ /\ UNCHANGED <<in, out, sent, got, side, writing, reset, alive, queue>>
           /\ handle["client"] = "none" /\ linked' \subseteq linked
           /\ \/ handle' = [handle EXCEPT !["client"] = "open", !["target"] = "connecting"]
              \/ handle' = [s \in Sides |-> "closed"]
    BY <1>4, UvPeers DEF Uv!OnNewConnection, Uv!ownVars
  <2>2. CASE ~Uv!Dies
    <3>1. \A s \in Sides : handle[s] = "none" /\ queue[s] = <<>>
      <4>1. handle["target"] = "none" /\ handle["client"] = "none"
        BY <2>1, <2>2 DEF UvInv, UvTyped
      <4>2. \A s \in Sides : handle[s] = "none"
        BY <4>1 DEF Sides
      <4> QED BY <4>2 DEF UvInv, UvTyped
    <3>2. /\ handle' \in [Sides -> {"none", "connecting", "open", "broken", "closed"}]
          /\ handle'["client"] \in {"open", "closed"}
      BY <1>0, <2>1, <2>2 DEF UvInv, UvTyped, Sides
    <3>3. \A s \in Sides : Attached(s)' => Attached(s)
      BY <1>0, <2>1, <2>2, <3>1 DEF Attached
    <3>4. alive' \in BOOLEAN /\ queue' \in [Sides -> Bytes] /\ linked' \subseteq Sides
      BY <1>0, <2>1, <2>2 DEF UvInv, UvTyped
    <3>5. \A s \in Sides : queue'[s] = <<>> /\ queue'[s] = queue[s]
      BY <2>1, <2>2, <3>1
    <3>6. handle'["client"] \in {"none", "open", "closed"} /\ handle'["client"] # "none"
      BY <3>2
    <3> QED BY <1>0, <2>1, <2>2, <3>2, <3>3, <3>4, <3>5, <3>6, UvQuietStep
  <2> QED BY <1>3, <2>2
<1>5. CASE Uv!ConnectDone
  <2>1. \/ Uv!Dies
        \/ /\ UNCHANGED <<in, out, sent, got, side, writing, reset, alive>>
           /\ handle["target"] = "connecting"
           /\ \/ /\ handle' = [handle EXCEPT !["target"] = "open"]
                 /\ linked' = Sides /\ queue' = queue
              \/ /\ handle' = [handle EXCEPT !["target"] = "broken"]
                 /\ queue' = [queue EXCEPT !["target"] = <<>>]
                 /\ linked' = linked
    <3>1. \/ Uv!Dies
          \/ /\ UNCHANGED <<in, out, sent, got, side, writing, reset, alive>>
             /\ handle["target"] = "connecting"
             /\ \/ /\ handle' = [handle EXCEPT !["target"] = "open"]
                   /\ linked' = Sides
                \/ /\ handle' = [handle EXCEPT !["target"] = "broken"]
                   /\ queue' = [queue EXCEPT !["target"] = <<>>]
                   /\ linked' = linked
             /\ handle'["target"] = "open" => UNCHANGED queue
      BY <1>5, UvPeers DEF Uv!ConnectDone, Uv!ownVars
    <3>2. handle' = [handle EXCEPT !["target"] = "open"] => handle'["target"] = "open"
      BY <1>0 DEF UvInv, UvTyped
    <3> QED BY <3>1, <3>2
  <2>2. CASE ~Uv!Dies
    <3>1. /\ handle' \in [Sides -> {"none", "connecting", "open", "broken", "closed"}]
          /\ handle'["client"] = handle["client"] /\ handle["client"] # "none"
          /\ handle'["target"] \in {"open", "broken"}
      BY <1>0, <2>1, <2>2 DEF UvInv, UvTyped
    <3>2. /\ queue' \in [Sides -> Bytes] /\ queue'["client"] = queue["client"]
          /\ \/ handle'["target"] = "open" /\ queue'["target"] = queue["target"]
             \/ handle'["target"] = "broken" /\ queue'["target"] = <<>>
      BY <1>0, <2>1, <2>2 DEF UvInv, UvTyped
    <3>3. \A s \in Sides : s = "client" \/ s = "target"
      BY DEF Sides
    <3>4. handle["client"] \in {"open", "closed"} /\ handle["target"] # "closed"
          /\ handle["target"] # "broken"
      BY <2>1, <2>2, <3>1 DEF UvInv, UvTyped
    <3>5. Attached("client")' => Attached("client") /\ queue'["client"] = queue["client"]
      BY <1>0, <2>1, <2>2, <3>1, <3>2, <3>4 DEF Attached
    <3>6. Attached("target")' => Attached("target") /\ queue'["target"] = queue["target"]
      BY <1>0, <2>1, <2>2, <3>1, <3>2, <3>4 DEF Attached
    <3>7. \A s \in Sides : Attached(s)' => Attached(s) /\ queue'[s] = queue[s]
      BY <3>3, <3>5, <3>6
    <3>8. \A s \in Sides : queue'[s] # <<>> => handle'[s] \in {"connecting", "open"}
      <4>1. \A s \in Sides : queue[s] # <<>> => handle[s] \in {"connecting", "open"}
        BY DEF UvInv, UvTyped
      <4>2. queue'["client"] # <<>> => handle'["client"] \in {"connecting", "open"}
        BY <1>0, <3>1, <3>2, <4>1
      <4>3. queue'["target"] # <<>> => handle'["target"] \in {"connecting", "open"}
        BY <2>1, <2>2, <3>1, <3>2
      <4> QED BY <3>3, <4>2, <4>3
    <3>9. alive' \in BOOLEAN /\ linked' \subseteq Sides
      BY <1>0, <2>1, <2>2 DEF UvInv, UvTyped
    <3>10. handle'["client"] \in {"none", "open", "closed"} /\ handle'["client"] # "none"
      BY <3>1, <3>4
    <3> QED BY <1>0, <2>1, <2>2, <3>1, <3>2, <3>7, <3>8, <3>9, <3>10, UvQuietStep
  <2> QED BY <1>3, <2>2
<1>6. ASSUME NEW s \in Sides, Uv!OnData(s)
      PROVE  UvInv'
  <2>1. \/ Uv!Dies
        \/ /\ handle[s] = "open" /\ in[s] # <<>>
           /\ Uv!UvWrite(Other(s), in[s]) /\ in' = [in EXCEPT ![s] = <<>>]
           /\ UNCHANGED <<alive, handle, linked, sent, got, side, writing, reset>>
    BY <1>6, UvPeers DEF Uv!OnData, Uv!ownVars
  <2>2. Other(s) \in Sides /\ Other(Other(s)) = s
    BY UvBounds
  <2>3. PICK t \in Sides : t = Other(s) /\ Other(t) = s
    BY <2>2
  <2> QED BY <1>3, <2>1, <2>3, UvDataStep
<1>7. ASSUME NEW s \in Sides, Uv!Flush(s)
      PROVE  UvInv'
  <2>1. /\ queue[s] # <<>> /\ handle[s] = "open"
        /\ \/ Uv!Dies
           \/ /\ handle[s] = "broken" \/ s \in reset
              /\ queue' = [queue EXCEPT ![s] = <<>>]
              /\ UNCHANGED <<alive, handle, linked, in, out, sent, got, side, writing, reset>>
           \/ /\ Len(out[s]) < Room
              /\ \E x \in {Head(queue[s]), 0} : out' = [out EXCEPT ![s] = Append(out[s], x)]
              /\ queue' = [queue EXCEPT ![s] = Tail(queue[s])]
              /\ UNCHANGED <<alive, handle, linked, in, sent, got, side, writing, reset>>
    BY <1>7 DEF Uv!Flush, Uv!Unwritable, Uv!Garbage, Uv!ownVars
  <2>2. CASE /\ handle[s] = "broken" \/ s \in reset
             /\ queue' = [queue EXCEPT ![s] = <<>>]
             /\ UNCHANGED <<alive, handle, linked, in, out, sent, got, side, writing, reset>>
    <3>1. side[s] = "closed"
      BY <1>0, <2>1, <2>2
    <3>2. /\ queue' \in [Sides -> Bytes] /\ queue'[s] = <<>>
          /\ \A t \in Sides : t # s => queue'[t] = queue[t]
      BY <1>0, <2>2 DEF UvInv, UvTyped
    <3>3. \A t \in Sides : Attached(t)' => Attached(t) /\ queue'[t] = queue[t]
      BY <2>2, <3>1, <3>2 DEF Attached
    <3>4. \A t \in Sides : queue'[t] # <<>> => handle'[t] \in {"connecting", "open"}
      BY <2>2, <3>2 DEF UvInv, UvTyped
    <3>5. queue'["client"] \in {queue["client"], <<>>}
      BY <1>0, <3>2
    <3>6. /\ handle' \in [Sides -> {"none", "connecting", "open", "broken", "closed"}]
          /\ handle'["client"] \in {"none", "open", "closed"}
          /\ handle'["client"] = "none" => handle'["target"] = "none"
          /\ alive' \in BOOLEAN /\ linked' \subseteq Sides
      BY <1>0, <2>2 DEF UvInv, UvTyped
    <3> QED BY <2>2, <3>2, <3>3, <3>4, <3>5, <3>6, UvQuietStep
  <2> QED BY <1>3, <2>1, <2>2, UvFlushStep
<1> QED BY <1>1, <1>2, <1>4, <1>5, <1>6, <1>7, UvEndStep, UvPeers DEF Uv!Next, Uv!Loop

LEMMA UvStart ==
  ASSUME Uv!Init
  PROVE  UvInv
<1>1. /\ InitPeers /\ alive = TRUE /\ handle = [s \in Sides |-> "none"]
      /\ queue = [s \in Sides |-> <<>>]
  BY UvPeers DEF Uv!Init
<1>2. PeersTyped /\ <<>> \in Bytes /\ Len(<<>>) = 0
  BY <1>1, PeersStart, Bounds
<1>3. UvTyped
  BY <1>1, <1>2 DEF UvTyped, Sides
<1>4. \A s \in Sides : Way(s, <<>>) = <<>> /\ sent[Other(s)] = 0
  <2>1. <<>> \o <<>> = <<>>
    BY <1>2, ConcatEmptySeq DEF Bytes
  <2> QED BY <1>1, <2>1 DEF InitPeers, Way, Sides, Other
<1>5. Placed(<<>>, 0) /\ Sound(<<>>, 0)
  BY <1>2 DEF Placed, Sound
<1>6. "client" \in Sides /\ Other("client") = "target"
  BY DEF Sides, Other
<1> QED BY <1>1, <1>3, <1>4, <1>5, <1>6 DEF UvInv, UvPlaces, UvFits

LEMMA UvKeepsOrder ==
  ASSUME UvInv
  PROVE  Uv!PlacesAreKept
<1>1. Uv!UvTypeOK
  BY UvPeers DEF UvInv, UvTyped, Uv!UvTypeOK
<1>2. ASSUME NEW s \in Sides, NEW w, w = Way(s, queue[s])
      PROVE  /\ alive /\ ~Uv!Closed /\ side[s] # "closed" /\ handle[s] # "broken"
                  => Len(w) = sent[Other(s)] /\ \A i \in DOMAIN w : w[i] \in {i, Uv!Garbage}
             /\ s = "client" /\ sent["target"] <= Room => \A i \in DOMAIN w : w[i] # Uv!Garbage
  <2>1. w \in Bytes
    <3>1. /\ got[s] \in Bytes /\ out[s] \in Bytes /\ in[Other(s)] \in Bytes
          /\ queue[s] \in Bytes
      BY UvBounds
    <3>2. Parts(got[s], out[s], queue[s], in[Other(s)])
      BY <3>1, FourParts
    <3> QED BY <1>2, <3>2 DEF Parts, Way
  <2>2. DOMAIN w = 1..Len(w) /\ Uv!Garbage = 0
    BY <2>1, LenProperties DEF Bytes, Uv!Garbage
  <2>3. ASSUME alive, ~Uv!Closed, side[s] # "closed", handle[s] # "broken"
        PROVE  Len(w) = sent[Other(s)] /\ \A i \in DOMAIN w : w[i] \in {i, Uv!Garbage}
    <3>1. \E t \in Sides : handle[t] # "closed"
      BY <2>3, UvPeers DEF Uv!Closed
    <3>2. Attached(s)
      BY <2>3, <3>1 DEF Attached
    <3>3. Placed(w, sent[Other(s)])
      BY <1>2, <3>2 DEF UvInv, UvPlaces
    <3> QED BY <2>2, <3>3 DEF Placed
  <2>4. ASSUME s = "client", sent["target"] <= Room
        PROVE  \A i \in DOMAIN w : w[i] # Uv!Garbage
    <3>1. queue["client"] = <<>> /\ Sound(Way("client", <<>>), sent["target"])
      BY <2>4 DEF UvInv, UvFits
    <3>2. w = Way("client", <<>>)
      BY <1>2, <2>4, <3>1
    <3>3. Sound(w, sent["target"])
      BY <3>1, <3>2
    <3> QED BY <2>2, <3>3 DEF Sound
  <2> QED BY <2>3, <2>4
<1> QED BY <1>1, <1>2, UvPeers, Zenon DEF Uv!PlacesAreKept, Way

----------------------------------------------------------------------------
LEMMA RelayKeepsOrder ==
  ASSUME RelayInv
  PROVE  Relayed!DownstreamIsOrdered
<1>1. /\ got["client"] \in Bytes /\ out["client"] \in Bytes /\ in["target"] \in Bytes
      /\ sent["target"] \in Nat /\ Other("client") = "target"
  <2>1. PeersTyped
    BY DEF RelayInv, ThreadTyped
  <2> QED BY <2>1, Bounds
<1>2. PICK w : w = got["client"] \o out["client"] \o in["target"]
  OBVIOUS
<1>3. Way("client", <<>>) = w /\ w \in Bytes
  <2>1. got["client"] \o out["client"] \o <<>> \o in["target"] = w
    BY <1>1, <1>2, NoMiddle, Zenon
  <2>2. got["client"] \o out["client"] \in Bytes
    BY <1>1, Joined
  <2>3. w \in Bytes
    BY <1>1, <1>2, <2>2, Joined
  <2> QED BY <1>1, <2>1, <2>3 DEF Way
<1>4. Run(w, sent["target"])
  BY <1>3 DEF RelayInv, Downstream
<1>5. \A i \in 1..(Len(w) - 1) : w[i] < w[i + 1]
  BY <1>1, <1>3, <1>4, RunIsIncreasing
<1>6. sent["target"] <= Room /\ reset = {} /\ pc \notin {"done", "killed"}
        => w = UpTo(sent["target"])
  BY <1>3 DEF RelayInv, Downstream
<1> QED BY <1>2, <1>5, <1>6, PassthroughPeers, Zenon DEF Relayed!DownstreamIsOrdered

\* In the passthrough, the libuv and the SSL proxy what arrives is in its place and
\* in order: a part may be missing (Socket.cpp:395, ssl-proxy/Proxy.cpp:125) or damaged
\* (libuv-based/Server.cpp:58), but nothing comes twice, early, or out of turn.
THEOREM StreamsAreOrdered == Spec => []StreamsKeepOrder
<1> DEFINE Each == /\ program = "passthrough-proxy" => RelayInv
                   /\ program = "libuv-based" => UvInv
                   /\ program = "ssl-proxy" => SslInv
<1>1. Init => Each
  BY RelayStart, UvStart, SslStart DEF Init
<1>2. Each /\ [Next]_vars => Each'
  BY RelayIsOwn, RelaySteps, UvSteps, SslSteps
<1>3. Each => StreamsKeepOrder
  BY RelayKeepsOrder, UvKeepsOrder, SslKeepsOrder DEF StreamsKeepOrder
<1> QED BY <1>1, <1>2, <1>3, PTL DEF Spec
=============================================================================
