------------------------- MODULE AttachClientProofs -------------------------
(***************************************************************************)
(* Theorems about the attach client for every room of the socket, every    *)
(* division of the streams into reads, every set of outcomes and every     *)
(* bound: what it reports is true, and a script is carried out before the  *)
(* client says that it has detached.                                       *)
(*                                                                         *)
(* What both arguments need is where every line is.  The lines of the user *)
(* are one sequence, whichever of the program, the socket and the          *)
(* Supervisor holds them; so are the answers.  The client's loop over the  *)
(* lines of one read is a fold, and what it computes comes from Folding.   *)
(***************************************************************************)
EXTENDS AttachClient, TLAPS

H == INSTANCE Folding WITH Op <- HandleLine

-----------------------------------------------------------------------------
(* Sequences that are cut, moved and joined *)

LEMMA SameSequence ==
    ASSUME NEW X, NEW s \in Seq(X), NEW t \in Seq(X), Len(s) = Len(t),
           \A i \in 1 .. Len(s) : s[i] = t[i]
    PROVE  s = t
OBVIOUS

(* The first line of the second sequence becomes the last of the first. *)
LEMMA MoveHead ==
    ASSUME NEW X, NEW r \in Seq(X), NEW a \in Seq(X), a # <<>>
    PROVE  Append(r, Head(a)) \o Tail(a) = r \o a
<1>1. /\ Append(r, Head(a)) \in Seq(X) /\ Tail(a) \in Seq(X)
      /\ Append(r, Head(a)) \o Tail(a) \in Seq(X) /\ r \o a \in Seq(X)
    OBVIOUS
<1>2. Len(Append(r, Head(a)) \o Tail(a)) = Len(r \o a)
    OBVIOUS
<1>3. \A i \in 1 .. Len(r \o a) : (Append(r, Head(a)) \o Tail(a))[i] = (r \o a)[i]
    OBVIOUS
<1>4. QED
    BY <1>1, <1>2, <1>3, SameSequence

(* Some lines are taken from the front. *)
LEMMA TakeFront ==
    ASSUME NEW X, NEW r \in Seq(X), NEW n \in 1 .. Len(r)
    PROVE  /\ SubSeq(r, 1, n) \in Seq(X) /\ SubSeq(r, n + 1, Len(r)) \in Seq(X)
           /\ SubSeq(r, 1, n) \o SubSeq(r, n + 1, Len(r)) = r
           /\ Len(SubSeq(r, 1, n)) = n /\ Len(SubSeq(r, n + 1, Len(r))) = Len(r) - n
           /\ \A i \in 1 .. n : SubSeq(r, 1, n)[i] = r[i]
           /\ \A i \in 1 .. Len(r) - n : SubSeq(r, n + 1, Len(r))[i] = r[n + i]
           /\ SubSeq(r, 1, n) # <<>>
<1>1. SubSeq(r, 1, n) \in Seq(X) /\ SubSeq(r, n + 1, Len(r)) \in Seq(X)
    OBVIOUS
<1>2. Len(SubSeq(r, 1, n)) = n /\ Len(SubSeq(r, n + 1, Len(r))) = Len(r) - n
    OBVIOUS
<1>3. /\ \A i \in 1 .. n : SubSeq(r, 1, n)[i] = r[i]
      /\ \A i \in 1 .. Len(r) - n : SubSeq(r, n + 1, Len(r))[i] = r[n + i]
    OBVIOUS
<1>4. SubSeq(r, 1, n) \o SubSeq(r, n + 1, Len(r)) = r
    <2>1. SubSeq(r, 1, n) \o SubSeq(r, n + 1, Len(r)) \in Seq(X)
        BY <1>1
    <2>2. Len(SubSeq(r, 1, n) \o SubSeq(r, n + 1, Len(r))) = Len(r)
        BY <1>1, <1>2
    <2>3. \A i \in 1 .. Len(r) : (SubSeq(r, 1, n) \o SubSeq(r, n + 1, Len(r)))[i] = r[i]
        BY <1>1, <1>2, <1>3
    <2>4. QED
        BY <2>1, <2>2, <2>3, SameSequence
<1>5. SubSeq(r, 1, n) # <<>>
    BY <1>2
<1>6. QED
    BY <1>1, <1>2, <1>3, <1>4, <1>5

LEMMA TakeFrontOfTwo ==
    ASSUME NEW X, NEW r \in Seq(X), NEW a \in Seq(X), NEW n \in 1 .. Len(r)
    PROVE  SubSeq(r, n + 1, Len(r)) \o a = SubSeq(r \o a, n + 1, Len(r \o a))
<1> DEFINE s == SubSeq(r, n + 1, Len(r))
           t == SubSeq(r \o a, n + 1, Len(r \o a))
<1>1. /\ s \in Seq(X) /\ s \o a \in Seq(X) /\ t \in Seq(X)
      /\ Len(s) = Len(r) - n /\ Len(s \o a) = Len(r) + Len(a) - n /\ Len(t) = Len(s \o a)
    OBVIOUS
<1>2. \A i \in 1 .. Len(r) - n : s[i] = r[n + i]
    OBVIOUS
<1>3. \A i \in 1 .. Len(r) + Len(a) - n : t[i] = (r \o a)[n + i]
    OBVIOUS
<1>4. ASSUME NEW i \in 1 .. Len(r) + Len(a) - n PROVE (s \o a)[i] = t[i]
    BY <1>1, <1>2, <1>3
<1>5. QED
    BY <1>1, <1>4, SameSequence

LEMMA JoinedTwice ==
    ASSUME NEW X, NEW r \in Seq(X), NEW s \in Seq(X), NEW t \in Seq(X)
    PROVE  (r \o s) \o t = r \o (s \o t)
<1>1. (r \o s) \o t \in Seq(X) /\ r \o (s \o t) \in Seq(X)
    OBVIOUS
<1>2. Len((r \o s) \o t) = Len(r \o (s \o t))
    OBVIOUS
<1>3. \A i \in 1 .. Len((r \o s) \o t) : ((r \o s) \o t)[i] = (r \o (s \o t))[i]
    OBVIOUS
<1>4. QED
    BY <1>1, <1>2, <1>3, SameSequence

LEMMA AppendToJoined ==
    ASSUME NEW X, NEW r \in Seq(X), NEW s \in Seq(X), NEW x \in X
    PROVE  r \o Append(s, x) = Append(r \o s, x)
<1>1. r \o Append(s, x) \in Seq(X) /\ Append(r \o s, x) \in Seq(X)
    OBVIOUS
<1>2. Len(r \o Append(s, x)) = Len(Append(r \o s, x))
    OBVIOUS
<1>3. \A i \in 1 .. Len(r \o Append(s, x)) : (r \o Append(s, x))[i] = Append(r \o s, x)[i]
    OBVIOUS
<1>4. QED
    BY <1>1, <1>2, <1>3, SameSequence

LEMMA EmptyJoined ==
    ASSUME NEW X, NEW r \in Seq(X)
    PROVE  r \o <<>> = r /\ <<>> \o r = r
<1>1. <<>> \in Seq(X) /\ Len(<<>>) = 0
    OBVIOUS
<1>2. /\ r \o <<>> \in Seq(X) /\ <<>> \o r \in Seq(X)
      /\ Len(r \o <<>>) = Len(r) /\ Len(<<>> \o r) = Len(r)
      /\ \A i \in 1 .. Len(r) : (r \o <<>>)[i] = r[i] /\ (<<>> \o r)[i] = r[i]
    BY <1>1
<1>3. QED
    BY <1>2, SameSequence

LEMMA TailOfJoined ==
    ASSUME NEW X, NEW r \in Seq(X), NEW s \in Seq(X), r # <<>>
    PROVE  /\ Tail(r) \o s = Tail(r \o s) /\ Head(r \o s) = Head(r)
           /\ r \o s \in Seq(X) /\ r \o s # <<>>
<1>1. /\ Tail(r) \in Seq(X) /\ Len(r) > 0 /\ Len(Tail(r)) = Len(r) - 1
      /\ r \o s \in Seq(X) /\ r \o s # <<>> /\ Len(r \o s) = Len(r) + Len(s)
    OBVIOUS
<1>2. /\ Tail(r) \o s \in Seq(X) /\ Tail(r \o s) \in Seq(X)
      /\ Len(Tail(r) \o s) = Len(Tail(r \o s))
    BY <1>1
<1>3. \A i \in 1 .. Len(Tail(r) \o s) : (Tail(r) \o s)[i] = Tail(r \o s)[i]
    BY <1>1
<1>4. Head(r \o s) = Head(r)
    BY <1>1
<1>5. QED
    BY <1>1, <1>2, <1>3, <1>4, SameSequence

LEMMA ShortSequences ==
    ASSUME NEW X
    PROVE  /\ <<>> \in Seq(X)
           /\ \A q \in Seq(X) : q # <<>> =>
                 /\ Head(q) \in X /\ Tail(q) \in Seq(X) /\ Len(q) > 0 /\ Len(Tail(q)) = Len(q) - 1
                 /\ Head(q) = q[1] /\ \A i \in 1 .. Len(q) - 1 : Tail(q)[i] = q[i + 1]
           /\ \A q \in Seq(X) : Len(q) > 0 => q # <<>>
           /\ \A q \in Seq(X), x \in X : Append(q, x) \in Seq(X)
           /\ \A x \in X : <<x>> \in Seq(X) /\ <<x>> # <<>> /\ Len(<<x>>) = 1 /\ <<x>>[1] = x
           /\ \A x, y \in X : /\ <<x, y>> \in Seq(X) /\ <<x, y>> # <<>> /\ Len(<<x, y>>) = 2
                              /\ <<x, y>>[1] = x /\ <<x, y>>[2] = y
<1>1. \A x \in X : <<x>> \in Seq(X) /\ Len(<<x>>) = 1 /\ <<x>>[1] = x
    OBVIOUS
<1>2. \A x, y \in X : /\ <<x, y>> \in Seq(X) /\ Len(<<x, y>>) = 2
                      /\ <<x, y>>[1] = x /\ <<x, y>>[2] = y
    OBVIOUS
<1>3. <<>> \in Seq(X) /\ Len(<<>>) = 0
    OBVIOUS
<1>4. \A q \in Seq(X) : q # <<>> =>
         /\ Head(q) \in X /\ Tail(q) \in Seq(X) /\ Len(q) > 0 /\ Len(Tail(q)) = Len(q) - 1
         /\ Head(q) = q[1] /\ \A i \in 1 .. Len(q) - 1 : Tail(q)[i] = q[i + 1]
    OBVIOUS
<1>5. \A q \in Seq(X), x \in X : Append(q, x) \in Seq(X)
    OBVIOUS
<1>6. QED
    BY <1>1, <1>2, <1>3, <1>4, <1>5

-----------------------------------------------------------------------------
(* The block of a Session Outcome *)

AnswerKinds == {"ATTACHED", "PROFILE_CHANGED", "ERROR", "DETACHED", "ERROR attached",
                "STATUS_BEGIN", "STATUS_END"}

AnswerLines ==
    {Marker(k) : k \in AnswerKinds} \cup UNION {Range(Serialize(o)) : o \in Outcomes}

(* The lines of a block, one by one. *)
LEMMA BlockShape ==
    ASSUME NEW o \in Outcomes
    PROVE  LET b == Serialize(o)
               n == Len(o.failures)
           IN  /\ n \in Nat /\ Len(b) = n + 4 /\ b \in Seq(Range(b)) /\ b \in Seq(AnswerLines)
               /\ b[1] = Marker("BEGIN") /\ b[2] = Line("WORKLOAD", o.workload)
               /\ b[3] = Line("INFRASTRUCTURE", IF o.failures = <<>> THEN "ok" ELSE "failed")
               /\ \A i \in 4 .. n + 3 : b[i] = Line("FAILURE", o.failures[i - 3])
               /\ b[n + 4] = Marker("END")
               /\ n = 0 <=> o.failures = <<>>
<1> DEFINE b == Serialize(o)
           n == Len(o.failures)
           m1 == Marker("BEGIN")
           m2 == Line("WORKLOAD", o.workload)
           m3 == Line("INFRASTRUCTURE", IF Succeeded(o) THEN "ok" ELSE "failed")
           m4 == Marker("END")
           f(i) == Line("FAILURE", o.failures[i])
           F == [i \in DOMAIN o.failures |-> f(i)]
           K == {m1, m2, m3, m4} \cup {f(i) : i \in 1 .. n}
<1>1. /\ o.failures \in Seq(Range(o.failures)) /\ n \in Nat /\ DOMAIN o.failures = 1 .. n
      /\ n = 0 <=> o.failures = <<>>
    <2>1. o.failures \in Seq(Range(o.failures))
        BY OutcomesAssumption
    <2>2. QED
        BY <2>1
<1>2. b = (<<m1, m2, m3>> \o F) \o <<m4>>
    BY DEF Serialize
<1> HIDE DEF m1, m2, m3, m4, f, n, b
<1>3. <<m1, m2, m3>> \in Seq(K) /\ Len(<<m1, m2, m3>>) = 3 /\ <<m4>> \in Seq(K) /\ Len(<<m4>>) = 1
    OBVIOUS
<1>4. F \in Seq(K) /\ Len(F) = n /\ \A i \in 1 .. n : F[i] = f(i)
    BY <1>1
<1> HIDE DEF K, F
<1>5. <<m1, m2, m3>> \o F \in Seq(K) /\ Len(<<m1, m2, m3>> \o F) = n + 3
    BY <1>1, <1>3, <1>4
<1>6. b \in Seq(K) /\ Len(b) = n + 4
    BY <1>1, <1>2, <1>3, <1>4, <1>5
<1>7. /\ b[1] = m1 /\ b[2] = m2 /\ b[3] = m3 /\ b[n + 4] = m4
      /\ \A i \in 4 .. n + 3 : b[i] = f(i - 3)
    <2> DEFINE h == <<m1, m2, m3>> \o F
    <2>1. h[1] = m1 /\ h[2] = m2 /\ h[3] = m3
        BY <1>1, <1>3, <1>4
    <2>2. \A i \in 4 .. n + 3 : h[i] = f(i - 3)
        BY <1>1, <1>3, <1>4
    <2>3. h \in Seq(K) /\ Len(h) = n + 3 /\ b = h \o <<m4>>
        BY <1>2, <1>5
    <2> HIDE DEF h
    <2>4. \A i \in 1 .. n + 3 : b[i] = h[i]
        BY <1>1, <1>3, <2>3
    <2>5. b[n + 4] = m4
        BY <1>1, <1>3, <2>3
    <2>6. QED
        BY <1>1, <2>1, <2>2, <2>4, <2>5
<1>8. /\ b[1] = Marker("BEGIN") /\ b[2] = Line("WORKLOAD", o.workload)
      /\ b[3] = Line("INFRASTRUCTURE", IF o.failures = <<>> THEN "ok" ELSE "failed")
      /\ \A i \in 4 .. n + 3 : b[i] = Line("FAILURE", o.failures[i - 3])
      /\ b[n + 4] = Marker("END")
    BY <1>7 DEF m1, m2, m3, m4, f, Succeeded
<1>9. b \in Seq(Range(b)) /\ b \in Seq(AnswerLines)
    <2>1. \A i \in 1 .. Len(b) : b[i] \in Range(b) /\ b[i] \in AnswerLines
        BY <1>6 DEF Range, AnswerLines, b
    <2>2. QED
        BY <1>6, <2>1
<1>10. QED
    BY <1>1, <1>6, <1>8, <1>9 DEF n, b

-----------------------------------------------------------------------------
(* Where the two programs are *)

UserLines == [kind : {"set", "status", "detach", "newline"}, value : {"none", "half"}]

Alive == link \in {"none", "queued", "open"}

Finals == {"DETACHED", "ERROR attached", "END"}

(* The Supervisor sends nothing more to the Controller after these. *)
FinalIsLast(q) == \A i \in 1 .. Len(q) : q[i].kind \in Finals => i = Len(q)

Unconfirming(q) == \A i \in 1 .. Len(q) : q[i].kind # "DETACHED"

(* The two loops, the connection and the buffers that each state implies. *)
Control ==
    /\ link \in {"none", "queued", "open", "closed", "reset"}
    /\ server \in {"poll", "handle", "send", "publish", "gone"}
    /\ client = "done" <=> ending # "none"
    /\ client = "connect" => link = "none"
    /\ (client = "stdin" \/ "stdin" \in events) => readStdin
    /\ server \in {"handle", "send", "publish"} => link = "open"
    /\ server = "handle" => received # <<>>
    /\ server \in {"poll", "publish"} => received = <<>>
    /\ server \in {"poll", "handle"} => answers = <<>>
    /\ server = "send" => answers # <<>>
    /\ answers \in Seq(AnswerLines) /\ FinalIsLast(answers)
    /\ client = "send" => tosend # <<>>
    /\ Alive /\ client # "send" => tosend = <<>>
    /\ /\ received \in Seq(UserLines) /\ requests \in Seq(UserLines)
       /\ tosend \in Seq(UserLines) /\ input \in Seq(UserLines)
    /\ partial \in {"none", "set", "status", "detach", "newline"}
    /\ delivered \in {"none", "detached", "outcome"}
    /\ readStdin \in BOOLEAN /\ inputEnd \in BOOLEAN /\ asked \in BOOLEAN
    /\ midline \in BOOLEAN

LEMMA ControlInit == Init => Control
<1>1. <<>> \in Seq(UserLines) /\ <<>> \in Seq(AnswerLines)
    OBVIOUS
<1>2. FinalIsLast(<<>>)
    BY DEF FinalIsLast
<1>3. QED
    BY <1>1, <1>2 DEF Init, Control, Alive

(* The answers to a line are lines, and close only at their end. *)
LEMMA AnswersAreLines ==
    /\ \A kind : \A a \in AnswersTo(kind) :
          /\ a # <<>> /\ a \in Seq(AnswerLines) /\ FinalIsLast(a)
          /\ kind # "detach" => Unconfirming(a)
    /\ \A k \in AnswerKinds : /\ <<Marker(k)>> # <<>> /\ <<Marker(k)>> \in Seq(AnswerLines)
                              /\ FinalIsLast(<<Marker(k)>>)
                              /\ k # "DETACHED" => Unconfirming(<<Marker(k)>>)
    /\ \A o \in Outcomes : /\ Serialize(o) # <<>> /\ Serialize(o) \in Seq(AnswerLines)
                           /\ FinalIsLast(Serialize(o)) /\ Unconfirming(Serialize(o))
    /\ \A a \in Seq(AnswerLines) : a # <<>> /\ FinalIsLast(a) =>
          FinalIsLast(Tail(a)) /\ (Head(a).kind \in Finals => Tail(a) = <<>>)
<1>1. \A k \in AnswerKinds : Marker(k) \in AnswerLines /\ Marker(k).kind = k
    BY DEF AnswerLines, Marker, Line
<1>2. ASSUME NEW k \in AnswerKinds
      PROVE  /\ <<Marker(k)>> # <<>> /\ <<Marker(k)>> \in Seq(AnswerLines)
             /\ FinalIsLast(<<Marker(k)>>)
             /\ k # "DETACHED" => Unconfirming(<<Marker(k)>>)
    BY <1>1, ShortSequences DEF FinalIsLast, Unconfirming
<1>3. LET a == <<Marker("STATUS_BEGIN"), Marker("STATUS_END")>>
      IN  a # <<>> /\ a \in Seq(AnswerLines) /\ FinalIsLast(a) /\ Unconfirming(a)
    <2> DEFINE a == <<Marker("STATUS_BEGIN"), Marker("STATUS_END")>>
    <2>1. "STATUS_BEGIN" \in AnswerKinds /\ "STATUS_END" \in AnswerKinds
        BY DEF AnswerKinds
    <2>2. /\ a # <<>> /\ a \in Seq(AnswerLines) /\ Len(a) = 2
          /\ a[1].kind = "STATUS_BEGIN" /\ a[2].kind = "STATUS_END"
        BY <1>1, <2>1, ShortSequences
    <2> HIDE DEF a
    <2>3. \A i \in 1 .. Len(a) : i = 1 \/ i = 2
        BY <2>2
    <2>4. FinalIsLast(a) /\ Unconfirming(a)
        BY <2>2, <2>3 DEF FinalIsLast, Finals, Unconfirming
    <2>5. QED
        BY <2>2, <2>4 DEF a
<1>4. ASSUME NEW kind, NEW a \in AnswersTo(kind)
      PROVE  /\ a # <<>> /\ a \in Seq(AnswerLines) /\ FinalIsLast(a)
             /\ kind # "detach" => Unconfirming(a)
    BY <1>2, <1>3 DEF AnswersTo, AnswerKinds
<1>5. ASSUME NEW o \in Outcomes
      PROVE  /\ Serialize(o) # <<>> /\ Serialize(o) \in Seq(AnswerLines)
             /\ FinalIsLast(Serialize(o)) /\ Unconfirming(Serialize(o))
    <2> DEFINE b == Serialize(o)
               n == Len(o.failures)
    <2>1. /\ n \in Nat /\ Len(b) = n + 4 /\ b \in Seq(AnswerLines)
          /\ b[1].kind = "BEGIN" /\ b[2].kind = "WORKLOAD" /\ b[3].kind = "INFRASTRUCTURE"
          /\ \A i \in 4 .. n + 3 : b[i].kind = "FAILURE"
          /\ b[n + 4].kind = "END"
        <3>1. /\ n \in Nat /\ Len(b) = n + 4 /\ b \in Seq(AnswerLines)
              /\ b[1] = Marker("BEGIN") /\ b[2] = Line("WORKLOAD", o.workload)
              /\ b[3] = Line("INFRASTRUCTURE", IF o.failures = <<>> THEN "ok" ELSE "failed")
              /\ \A i \in 4 .. n + 3 : b[i] = Line("FAILURE", o.failures[i - 3])
              /\ b[n + 4] = Marker("END")
            BY BlockShape
        <3>2. \A k, v : Line(k, v).kind = k
            BY DEF Line
        <3> HIDE DEF b, n
        <3>3. QED
            BY <3>1, <3>2 DEF Marker
    <2> HIDE DEF b, n
    <2>2. FinalIsLast(b) /\ Unconfirming(b) /\ b # <<>>
        <3>0. \A i \in 1 .. Len(b) : i \in 4 .. n + 3 \/ i = 1 \/ i = 2 \/ i = 3 \/ i = n + 4
            BY <2>1
        <3>1. \A i \in 1 .. Len(b) : b[i].kind \in Finals => i = Len(b)
            BY <3>0, <2>1 DEF Finals
        <3>2. \A i \in 1 .. Len(b) : b[i].kind # "DETACHED"
            BY <3>0, <2>1
        <3>3. QED
            BY <2>1, <3>1, <3>2, ShortSequences DEF FinalIsLast, Unconfirming
    <2>3. QED
        BY <2>1, <2>2 DEF b
<1>6. ASSUME NEW a \in Seq(AnswerLines), a # <<>>, FinalIsLast(a)
      PROVE  FinalIsLast(Tail(a)) /\ (Head(a).kind \in Finals => Tail(a) = <<>>)
    <2>1. /\ Len(a) > 0 /\ Len(Tail(a)) = Len(a) - 1 /\ Head(a) = a[1]
          /\ \A i \in 1 .. Len(a) - 1 : Tail(a)[i] = a[i + 1]
        BY <1>6
    <2>2. FinalIsLast(Tail(a))
        <3>1. SUFFICES ASSUME NEW i \in 1 .. Len(Tail(a)), Tail(a)[i].kind \in Finals
                       PROVE  i = Len(Tail(a))
            BY DEF FinalIsLast
        <3>2. i + 1 \in 1 .. Len(a) /\ a[i + 1].kind \in Finals
            BY <2>1, <3>1
        <3>3. i + 1 = Len(a)
            BY <1>6, <3>2 DEF FinalIsLast
        <3>4. QED
            BY <2>1, <3>3
    <2>3. Head(a).kind \in Finals => Len(Tail(a)) = 0
        <3>1. SUFFICES ASSUME a[1].kind \in Finals PROVE Len(a) = 1
            BY <2>1
        <3>2. 1 \in 1 .. Len(a)
            BY <2>1
        <3>3. QED
            BY <1>6, <3>1, <3>2 DEF FinalIsLast
    <2>4. Len(Tail(a)) = 0 => Tail(a) = <<>>
        BY <1>6, ShortSequences
    <2>5. QED
        BY <2>2, <2>3, <2>4
<1>7. QED
    BY <1>2, <1>4, <1>5, <1>6

LEMMA MarkerIsUserLine ==
    /\ Marker("newline") \in UserLines /\ Marker("detach") \in UserLines
    /\ \A k \in {"set", "status", "detach"}, v \in {"none", "half"} : Line(k, v) \in UserLines
BY DEF Marker, Line, UserLines

LEMMA ControlStep == Control /\ [Next]_vars => Control'
<1> SUFFICES ASSUME Control, [Next]_vars PROVE Control'
    OBVIOUS
<1> USE DEF Control, Alive, Lost
<1>0. <<>> \in Seq(UserLines)
    OBVIOUS
<1>a. <<>> \in Seq(AnswerLines) /\ FinalIsLast(<<>>)
    BY DEF FinalIsLast
<1>t. \A q \in Seq(UserLines) : q # <<>> => Head(q) \in UserLines /\ Tail(q) \in Seq(UserLines)
    OBVIOUS
<1>1. CASE Connect
    BY <1>1 DEF Connect, End, serverVars, userVars
<1>2. CASE Poll
    <2>1. client' = "stdin" \/ "stdin" \in events' => readStdin
        BY <1>2 DEF Poll, Revents
    <2>2. QED
        BY <1>2, <2>1 DEF Poll, wireVars, serverVars, userVars
<1>3. CASE ReadResponses
    <2>1. PICK s : ending' = Verdict(s)
                   /\ client' = CASE Verdict(s) # "none" -> "done"
                                  [] Verdict(s) = "none" /\ "stdin" \in events -> "stdin"
                                  [] OTHER -> "poll"
        BY <1>3 DEF ReadResponses
    <2>2. /\ client' = "done" <=> ending' # "none"
          /\ client' \notin {"send", "connect"} /\ (client' = "stdin" => "stdin" \in events)
        BY <2>1
    <2>3. client = "socket" /\ events' = {}
          /\ UNCHANGED <<tosend, readStdin, midline, requests, link, serverVars, userVars>>
        BY <1>3 DEF ReadResponses
    <2>4. QED
        BY <2>2, <2>3 DEF serverVars, userVars
<1>4. CASE ReadEnd
    BY <1>4 DEF ReadEnd, End, wireVars, serverVars, userVars
<1>5. CASE ReadInput
    <2>1. PICK n \in Readable(input) :
             tosend' = SubSeq(input, 1, n) /\ input' = SubSeq(input, n + 1, Len(input))
        BY <1>5 DEF ReadInput
    <2>2. n \in 1 .. Len(input)
        BY DEF Readable, RoomAssumption
    <2>3. tosend' \in Seq(UserLines) /\ input' \in Seq(UserLines) /\ tosend' # <<>>
        BY <2>1, <2>2, TakeFront
    <2>4. QED
        BY <1>5, <2>3 DEF ReadInput, wireVars, serverVars
<1>6. CASE ReadInputEnd
    <2>1. tosend' \in Seq(UserLines) /\ tosend' # <<>>
        BY <1>6, MarkerIsUserLine, ShortSequences DEF ReadInputEnd, FinalText
    <2>2. /\ client = "stdin" /\ client' = "send" /\ readStdin' = FALSE /\ events' = {}
          /\ UNCHANGED <<midline, ending, requests, link, server, received, answers, partial,
                         delivered, input, inputEnd, asked>>
        BY <1>6 DEF ReadInputEnd, wireVars, serverVars, userVars
    <2>3. /\ link' \in {"none", "queued", "open", "closed", "reset"} /\ partial' = partial
          /\ server' \in {"poll", "handle", "send", "publish", "gone"}
          /\ server' \in {"handle", "send", "publish"} => link' = "open"
          /\ server' = "handle" => received' # <<>>
          /\ server' \in {"poll", "publish"} => received' = <<>>
        BY <2>2
    <2>4. /\ server' \in {"poll", "handle"} => answers' = <<>>
          /\ server' = "send" => answers' # <<>>
          /\ answers' \in Seq(AnswerLines) /\ FinalIsLast(answers')
        BY <2>2
    <2>5. /\ received' \in Seq(UserLines) /\ requests' \in Seq(UserLines)
          /\ tosend' \in Seq(UserLines) /\ input' \in Seq(UserLines)
          /\ client' = "send" /\ ending' = "none" /\ tosend' # <<>> /\ "stdin" \notin events'
        BY <2>1, <2>2
    <2>6. QED
        BY <2>2, <2>3, <2>4, <2>5
<1>7. CASE SendLine
    <2>1. tosend # <<>> /\ Head(tosend) \in UserLines /\ Tail(tosend) \in Seq(UserLines)
        BY <1>7, <1>t DEF SendLine
    <2>2. requests' \in Seq(UserLines) /\ tosend' \in Seq(UserLines)
          /\ midline' \in BOOLEAN
          /\ (client' = "send" <=> tosend' # <<>>) /\ client' \in {"poll", "send"}
        BY <1>7, <2>1 DEF SendLine
    <2>3. QED
        BY <1>7, <2>2 DEF SendLine, serverVars, userVars
<1>8. CASE SendFails
    BY <1>8 DEF SendFails, End, wireVars, serverVars, userVars
<1>9. CASE CallFails
    BY <1>9 DEF CallFails, End, wireVars, serverVars
<1>10. CASE Accept
    <2>1. answers' # <<>> /\ answers' \in Seq(AnswerLines) /\ FinalIsLast(answers')
        BY <1>10, AnswersAreLines DEF Accept, AnswerKinds
    <2>2. QED
        BY <1>10, <2>1 DEF Accept, clientVars, userVars
<1>11. CASE ReadRequests
    <2>1. PICK n \in Readable(requests) :
             received' = SubSeq(requests, 1, n) /\ requests' = SubSeq(requests, n + 1, Len(requests))
        BY <1>11 DEF ReadRequests
    <2>2. n \in 1 .. Len(requests)
        BY DEF Readable, RoomAssumption
    <2>3. received' \in Seq(UserLines) /\ requests' \in Seq(UserLines) /\ received' # <<>>
        BY <2>1, <2>2, TakeFront
    <2>4. QED
        BY <1>11, <2>3 DEF ReadRequests, clientVars, userVars
<1>12. CASE HandleRequest
    <2>1. Head(received) \in UserLines /\ Tail(received) \in Seq(UserLines)
        BY <1>12, <1>t DEF HandleRequest
    <2>2. partial' \in {"none", "set", "status", "detach", "newline"}
        BY <1>12, <2>1 DEF HandleRequest, UserLines
    <2>3. \A kind : \A a \in AnswersTo(kind) :
             a # <<>> /\ a \in Seq(AnswerLines) /\ FinalIsLast(a)
        BY AnswersAreLines
    <2>4. \/ /\ server' = "send" /\ answers' # <<>>
             /\ answers' \in Seq(AnswerLines) /\ FinalIsLast(answers')
          \/ server' = Idle(Tail(received)) /\ answers' = answers
        BY <1>12, <2>3 DEF HandleRequest
    <2>5. QED
        BY <1>12, <2>1, <2>2, <2>4 DEF HandleRequest, Idle, clientVars, wireVars
<1>13. CASE SendAnswer
    <2>1. delivered' \in {"none", "detached", "outcome"}
        BY <1>13 DEF SendAnswer
    <2>5. /\ answers' = Tail(answers) /\ answers' \in Seq(AnswerLines) /\ FinalIsLast(answers')
          /\ Head(answers).kind \in Finals => answers' = <<>>
        BY <1>13, AnswersAreLines, ShortSequences DEF SendAnswer
    <2>2. CASE Head(answers).kind \in {"DETACHED", "ERROR attached"}
        BY <1>0, <1>13, <2>1, <2>2, <2>5 DEF Finals, SendAnswer, CloseLink, clientVars, userVars
    <2>3. CASE Head(answers).kind \notin {"DETACHED", "ERROR attached"}
        BY <1>13, <2>1, <2>3, <2>5 DEF SendAnswer, Idle, clientVars, userVars
    <2>4. QED
        BY <2>2, <2>3
<1>14. CASE ControllerGone
    <2>1. link' \in {"closed", "reset"}
        BY <1>14 DEF ControllerGone, CloseLink
    <2>2. QED
        BY <1>0, <1>a, <1>14, <2>1 DEF ControllerGone, clientVars, userVars
<1>15. CASE Finish
    <2>1. /\ server = "poll" /\ published' \in Outcomes
          /\ UNCHANGED <<received, partial, delivered, clientVars, requests, userVars>>
        BY <1>15 DEF Finish
    <2>2. CASE link = "open"
        <3>1. server' = "publish" /\ answers' = Serialize(published') /\ UNCHANGED link
            BY <1>15, <2>2 DEF Finish
        <3>2. answers' \in Seq(AnswerLines) /\ FinalIsLast(answers')
            BY <2>1, <3>1, AnswersAreLines
        <3>3. QED
            BY <2>1, <2>2, <3>1, <3>2 DEF clientVars, userVars
    <2>3. CASE link # "open"
        <3>1. /\ server' = "gone" /\ link' = (IF link = "queued" THEN "reset" ELSE link)
              /\ UNCHANGED answers
            BY <1>15, <2>3 DEF Finish
        <3>2. QED
            BY <2>1, <2>3, <3>1 DEF clientVars, userVars
    <2>4. QED
        BY <2>2, <2>3
<1>16. CASE Published
    BY <1>16 DEF Published, CloseLink, clientVars, userVars
<1>17. CASE Type
    <2>1. input' \in Seq(UserLines) /\ inputEnd' \in BOOLEAN /\ asked' \in BOOLEAN
        <3>1. PICK k \in Kinds, v \in {"none", "half"} :
                 /\ input' = Append(input, Line(k, v)) /\ inputEnd' = (v = "half")
                 /\ asked' = (asked \/ k = "detach")
            BY <1>17 DEF Type
        <3>2. Line(k, v) \in UserLines
            BY KindsAssumption, MarkerIsUserLine
        <3>3. input' \in Seq(UserLines)
            <4>1. \A q \in Seq(UserLines), x \in UserLines : Append(q, x) \in Seq(UserLines)
                BY ShortSequences
            <4>2. QED
                BY <3>1, <3>2, <4>1
        <3>4. inputEnd' \in BOOLEAN /\ asked' \in BOOLEAN
            BY <3>1
        <3>5. QED
            BY <3>3, <3>4
    <2>2. QED
        BY <1>17, <2>1 DEF Type, clientVars, serverVars, wireVars
<1>18. CASE EndInput
    BY <1>18 DEF EndInput, clientVars, serverVars, wireVars
<1>19. CASE WorkloadEnds
    BY <1>19 DEF WorkloadEnds, clientVars, wireVars, userVars
<1>20. CASE SupervisorDies
    BY <1>20 DEF SupervisorDies, CloseLink, clientVars
<1>21. CASE UNCHANGED vars
    BY <1>21 DEF vars, clientVars, serverVars, wireVars, userVars
<1>22. QED
    BY <1>1, <1>2, <1>3, <1>4, <1>5, <1>6, <1>7, <1>8, <1>9, <1>10, <1>11, <1>12, <1>13,
       <1>14, <1>15, <1>16, <1>17, <1>18, <1>19, <1>20, <1>21 DEF Next, ClientStep, ServerStep

-----------------------------------------------------------------------------
(* The user's lines, in order *)

Sent == received \o requests

(* What is on its way from the user to the Supervisor's handling. *)
Pipeline == (Sent \o tosend) \o input

(* How many lines these are. *)
Waiting == Len(Pipeline)
InSocket == Len(Sent)

(* The detach is carried out, and its confirmation is on the way or sent. *)
Confirmed ==
    delivered = "detached" \/ \E i \in 1 .. Len(answers) : answers[i].kind = "DETACHED"

(* Half a line is the last, but for the newline and the detach that the *)
(* client adds to it at the end of its input.                           *)
HalfIsLast ==
    \A i \in 1 .. Waiting : Pipeline[i].value = "half" =>
        /\ inputEnd
        /\ i = Waiting \/ (i + 2 = Waiting /\ Pipeline[i + 1].kind = "newline")

NewlineCompletes ==
    \A i \in 1 .. Waiting : Pipeline[i].kind = "newline" =>
        /\ i + 1 = Waiting /\ Pipeline[i + 1] = Marker("detach")
        /\ ~readStdin /\ Pipeline[i].value = "none"
        /\ IF i = 1 THEN partial # "none" ELSE Pipeline[i - 1].value = "half"

PartialIsLast ==
    /\ partial # "newline"
    /\ partial # "none" => inputEnd /\ (Waiting = 0 \/ Pipeline[1].kind = "newline")

MidlineIsTrue ==
    midline <=> IF InSocket = 0 THEN partial # "none" ELSE Sent[InSocket].value = "half"

DetachIsThere ==
    \/ partial = "detach"
    \/ \E i \in 1 .. Waiting : Pipeline[i].kind = "detach"

(* The lines before the detach are the ones that are counted; a newline *)
(* belongs to the line before it.                                       *)
CountIsTrue ==
    \E d \in 0 .. Waiting :
       /\ \A i \in 1 .. d : Pipeline[i].kind # "detach"
       /\ d < Waiting => Pipeline[d + 1].kind = "detach"
       /\ undone = d - (IF d > 0 /\ Pipeline[d].kind = "newline" THEN 1 ELSE 0)
                     + (IF partial \in {"set", "status"} THEN 1 ELSE 0)

Order ==
    /\ HalfIsLast /\ NewlineCompletes /\ PartialIsLast /\ MidlineIsTrue
    /\ DetachIsThere <=> asked \/ ~readStdin
    /\ CountIsTrue

ScriptInv ==
    /\ Control
    /\ ~readStdin => inputEnd /\ input = <<>>
    /\ delivered = "detached" => ~Alive
    /\ Confirmed => undone = 0 /\ (asked \/ inputEnd)
    /\ Alive /\ ~Confirmed => Order

LEMMA PipelineType ==
    ASSUME Control PROVE Pipeline \in Seq(UserLines) /\ Sent \in Seq(UserLines)
<1>1. \A r, s \in Seq(UserLines) : r \o s \in Seq(UserLines)
    OBVIOUS
<1>2. QED
    BY <1>1 DEF Control, Pipeline, Sent

LEMMA ScriptInit == Init => ScriptInv
<1> SUFFICES ASSUME Init PROVE ScriptInv
    OBVIOUS
<1>1. Control
    BY ControlInit
<1>2. InSocket = 0 /\ Waiting = 0
    <2>1. Sent = <<>> /\ Pipeline = <<>>
        <3>1. <<>> \in Seq(UserLines)
            OBVIOUS
        <3>2. QED
            BY <3>1, EmptyJoined DEF Init, Sent, Pipeline
    <2>2. QED
        BY <2>1 DEF Waiting, InSocket
<1>3. Order
    <2>1. HalfIsLast /\ NewlineCompletes /\ PartialIsLast /\ ~DetachIsThere
        BY <1>2 DEF Init, HalfIsLast, NewlineCompletes, PartialIsLast, DetachIsThere
    <2>2. MidlineIsTrue
        BY <1>2 DEF Init, MidlineIsTrue
    <2>3. CountIsTrue
        BY <1>2 DEF Init, CountIsTrue
    <2>4. asked = FALSE /\ readStdin = TRUE
        BY DEF Init
    <2>5. QED
        BY <2>1, <2>2, <2>3, <2>4 DEF Order
<1>4. ~Confirmed /\ readStdin /\ delivered = "none"
    BY DEF Init, Confirmed
<1>5. QED
    BY <1>1, <1>3, <1>4 DEF ScriptInv

(* A step that moves no line and changes nothing of what is said of them. *)
LEMMA OrderFrame ==
    ASSUME Pipeline' = Pipeline, Sent' = Sent, Order,
           UNCHANGED <<inputEnd, readStdin, partial, midline, asked, undone>>
    PROVE  Order'
<1>0. Waiting' = Waiting /\ InSocket' = InSocket
    BY DEF Waiting, InSocket
<1>1. HalfIsLast' /\ NewlineCompletes' /\ PartialIsLast'
    BY <1>0 DEF Order, HalfIsLast, NewlineCompletes, PartialIsLast
<1>2. MidlineIsTrue'
    BY <1>0 DEF Order, MidlineIsTrue
<1>3. (DetachIsThere <=> asked \/ ~readStdin)'
    BY <1>0 DEF Order, DetachIsThere
<1>4. CountIsTrue'
    BY <1>0 DEF Order, CountIsTrue
<1>5. QED
    BY <1>1, <1>2, <1>3, <1>4 DEF Order

(* Where the first line is taken off. *)
LEMMA PipelineTail ==
    ASSUME Control, received # <<>>, received' = Tail(received),
           UNCHANGED <<requests, tosend, input>>
    PROVE  /\ Waiting \in Nat /\ Waiting' \in Nat /\ InSocket \in Nat /\ InSocket' \in Nat
           /\ 1 \in 1 .. Waiting
           /\ Waiting > 0 /\ Waiting' = Waiting - 1
           /\ Pipeline[1] = Head(received)
           /\ \A i \in 1 .. Waiting' : Pipeline'[i] = Pipeline[i + 1]
           /\ InSocket > 0 /\ InSocket' = InSocket - 1 /\ Sent[1] = Head(received)
           /\ InSocket' > 0 => Sent'[InSocket'] = Sent[InSocket]
<1>1. /\ received \in Seq(UserLines) /\ requests \in Seq(UserLines)
      /\ tosend \in Seq(UserLines) /\ input \in Seq(UserLines)
    BY DEF Control
<1>2. /\ Sent' = Tail(Sent) /\ Head(Sent) = Head(received)
      /\ Sent \in Seq(UserLines) /\ Sent # <<>>
    BY <1>1, TailOfJoined DEF Sent
<1>3. /\ Sent' \o tosend = Tail(Sent \o tosend) /\ Head(Sent \o tosend) = Head(received)
      /\ Sent \o tosend \in Seq(UserLines) /\ Sent \o tosend # <<>>
    BY <1>1, <1>2, TailOfJoined
<1>4. /\ Pipeline' = Tail(Pipeline) /\ Head(Pipeline) = Head(received)
      /\ Pipeline \in Seq(UserLines) /\ Pipeline # <<>>
    <2>1. Pipeline' = (Sent' \o tosend) \o input
        BY DEF Pipeline
    <2>2. \A q \in Seq(UserLines) : q # <<>> =>
             /\ Tail(q) \o input = Tail(q \o input) /\ Head(q \o input) = Head(q)
             /\ q \o input \in Seq(UserLines) /\ q \o input # <<>>
        BY <1>1, TailOfJoined
    <2>3. QED
        BY <1>3, <2>1, <2>2 DEF Pipeline
<1>5. /\ Waiting > 0 /\ Waiting' = Waiting - 1
      /\ Pipeline[1] = Head(received)
      /\ \A i \in 1 .. Waiting' : Pipeline'[i] = Pipeline[i + 1]
    BY <1>4, ShortSequences DEF Waiting
<1>6. /\ InSocket > 0 /\ InSocket' = InSocket - 1 /\ Sent[1] = Head(received)
      /\ \A i \in 1 .. InSocket' : Sent'[i] = Sent[i + 1]
    BY <1>2, ShortSequences DEF InSocket
<1>7. InSocket' > 0 => Sent'[InSocket'] = Sent[InSocket]
    <2>1. InSocket \in Nat
        BY <1>2 DEF InSocket
    <2>2. InSocket' > 0 => InSocket' \in 1 .. InSocket' /\ InSocket' + 1 = InSocket
        BY <1>6, <2>1
    <2>3. QED
        BY <1>6, <2>2
<1>8. /\ Waiting \in Nat /\ Waiting' \in Nat /\ InSocket \in Nat /\ InSocket' \in Nat
      /\ 1 \in 1 .. Waiting
    <2>1. Waiting \in Nat /\ InSocket \in Nat
        BY <1>2, <1>4 DEF Waiting, InSocket
    <2>2. QED
        BY <1>5, <1>6, <2>1
<1>9. QED
    BY <1>5, <1>6, <1>7, <1>8

LEMMA ScriptOfHandleRequest == ScriptInv /\ Control' /\ HandleRequest => ScriptInv'
<1> SUFFICES ASSUME ScriptInv, Control', HandleRequest PROVE ScriptInv'
    OBVIOUS
<1>1. /\ Control /\ server = "handle" /\ link = "open" /\ received # <<>> /\ answers = <<>>
      /\ received' = Tail(received)
      /\ UNCHANGED <<requests, tosend, input, readStdin, inputEnd, asked, midline, delivered, link>>
    BY DEF HandleRequest, ScriptInv, Control, clientVars, wireVars
<1>2. Alive /\ Alive' /\ ~Confirmed /\ delivered # "detached"
    BY <1>1 DEF Alive, Confirmed, ScriptInv
<1>3. Order
    BY <1>2 DEF ScriptInv
<1> DEFINE l == Head(received)
<1>4. /\ Waiting \in Nat /\ Waiting > 0 /\ Waiting' = Waiting - 1
      /\ Waiting' \in Nat /\ InSocket' \in Nat
      /\ Pipeline[1] = l
      /\ InSocket \in Nat /\ InSocket > 0 /\ InSocket' = InSocket - 1 /\ Sent[1] = l
      /\ InSocket' > 0 => Sent'[InSocket'] = Sent[InSocket]
      /\ 1 \in 1 .. Waiting
    BY <1>1, PipelineTail
<1>s. \A i \in 1 .. Waiting' : Pipeline'[i] = Pipeline[i + 1]
    BY <1>1, PipelineTail
<1>5. l.kind \in {"set", "status", "detach", "newline"} /\ l.value \in {"none", "half"}
    <2>1. l \in UserLines
        BY <1>1, ShortSequences DEF Control
    <2>2. QED
        BY <2>1 DEF UserLines
<1> HIDE DEF l
<1>6. /\ HalfIsLast /\ NewlineCompletes /\ PartialIsLast /\ MidlineIsTrue /\ CountIsTrue
      /\ (DetachIsThere <=> asked \/ ~readStdin) /\ (~readStdin => inputEnd)
    BY <1>3 DEF Order, ScriptInv
<1>7. partial # "none" => l.kind = "newline"
    BY <1>4, <1>6 DEF PartialIsLast
<1>8. l.kind = "newline" =>
         /\ partial # "none" /\ l.value = "none"
         /\ Waiting = 2 /\ Pipeline[2] = Marker("detach")
    BY <1>4, <1>6 DEF NewlineCompletes
<1>9. Marker("detach").kind = "detach" /\ Marker("detach").value = "none"
    BY DEF Marker, Line
<1>11. CASE l.value = "half"
    <2>1. partial' = l.kind /\ undone' = undone /\ answers' = answers
        BY <1>1, <1>11 DEF HandleRequest, CompletedLine, l
    <2>0. partial = "none" /\ l.kind # "newline" /\ l.kind \in {"set", "status", "detach"}
        BY <1>5, <1>7, <1>8, <1>11
    <2>2. inputEnd /\ (Waiting = 1 \/ (Waiting = 3 /\ Pipeline[2].kind = "newline"))
        BY <1>4, <1>6, <1>11 DEF HalfIsLast
    <2>3. ASSUME Waiting = 3
          PROVE  Pipeline[2].value = "none" /\ Pipeline[3] = Marker("detach") /\ ~readStdin
        <3>1. 2 \in 1 .. Waiting
            BY <2>3
        <3>2. QED
            BY <1>6, <2>2, <2>3, <3>1 DEF NewlineCompletes
    (* What is left is nothing, or the newline and the detach. *)
    <2>r. \/ Waiting' = 0
          \/ /\ Waiting' = 2 /\ Pipeline'[1].kind = "newline" /\ Pipeline'[1].value = "none"
             /\ Pipeline'[2] = Marker("detach") /\ ~readStdin
        <3>1. CASE Waiting = 1
            BY <1>4, <3>1
        <3>2. CASE Waiting = 3
            <4>1. Waiting' = 2 /\ 1 \in 1 .. Waiting' /\ 2 \in 1 .. Waiting'
                BY <1>4, <3>2
            <4>2. Pipeline'[1] = Pipeline[2] /\ Pipeline'[2] = Pipeline[3]
                BY <1>s, <4>1
            <4>3. QED
                BY <2>2, <2>3, <3>2, <4>1, <4>2
        <3>3. QED
            BY <2>2, <3>1, <3>2
    <2>i. \A i \in 1 .. Waiting' : Waiting' = 2 /\ (i = 1 \/ i = 2)
        BY <1>4, <2>r
    <2>4. HalfIsLast'
        BY <1>9, <2>r, <2>i DEF HalfIsLast
    <2>5. NewlineCompletes'
        BY <1>1, <1>9, <2>0, <2>1, <2>r, <2>i DEF NewlineCompletes
    <2>6. PartialIsLast'
        BY <1>1, <2>0, <2>1, <2>2, <2>r DEF PartialIsLast
    <2>7. MidlineIsTrue'
        <3>1. CASE InSocket' = 0
            BY <1>1, <1>4, <1>6, <1>11, <2>0, <2>1, <3>1 DEF MidlineIsTrue
        <3>2. CASE InSocket' # 0
            BY <1>1, <1>4, <1>6, <3>2 DEF MidlineIsTrue
        <3>3. QED
            BY <3>1, <3>2
    <2>8. DetachIsThere' <=> DetachIsThere
        <3>1. CASE Waiting' = 0
            <4>1. \A i \in 1 .. Waiting : i = 1
                BY <1>4, <3>1
            <4>2. DetachIsThere' <=> l.kind = "detach"
                BY <2>1, <3>1 DEF DetachIsThere
            <4>3. DetachIsThere <=> l.kind = "detach"
                BY <1>4, <2>0, <4>1 DEF DetachIsThere
            <4>4. QED
                BY <4>2, <4>3
        <3>2. CASE Waiting' # 0
            <4>1. Waiting = 3 /\ 3 \in 1 .. Waiting /\ 2 \in 1 .. Waiting'
                BY <1>4, <2>r, <3>2
            <4>2. DetachIsThere'
                BY <1>9, <2>r, <4>1, <3>2 DEF DetachIsThere
            <4>3. DetachIsThere
                BY <1>9, <2>3, <4>1 DEF DetachIsThere
            <4>4. QED
                BY <4>2, <4>3
        <3>3. QED
            BY <3>1, <3>2
    <2>9. CountIsTrue'
        <3>1. PICK d \in 0 .. Waiting :
                 /\ \A i \in 1 .. d : Pipeline[i].kind # "detach"
                 /\ d < Waiting => Pipeline[d + 1].kind = "detach"
                 /\ undone = d - (IF d > 0 /\ Pipeline[d].kind = "newline" THEN 1 ELSE 0)
            BY <1>6, <2>0 DEF CountIsTrue
        <3>2. undone = (IF l.kind = "detach" THEN 0 ELSE 1)
            <4>1. CASE l.kind = "detach"
                <5>1. d = 0
                    BY <1>4, <3>1, <4>1
                <5>2. QED
                    BY <3>1, <4>1, <5>1
            <4>2. CASE l.kind # "detach" /\ Waiting' = 0
                <5>1. d = 1
                    BY <1>4, <3>1, <4>2
                <5>2. QED
                    BY <1>4, <2>0, <3>1, <4>2, <5>1
            <4>3. CASE l.kind # "detach" /\ Waiting' # 0
                <5>1. Waiting = 3 /\ Pipeline[2].kind = "newline" /\ Pipeline[3].kind = "detach"
                    BY <1>4, <1>9, <2>2, <2>3, <4>3
                <5>2. d = 2
                    <6>1. d # 0
                        BY <1>4, <3>1, <4>3, <5>1
                    <6>2. d # 1
                        BY <3>1, <5>1
                    <6>3. d # 3
                        BY <3>1, <5>1
                    <6>4. QED
                        BY <5>1, <6>1, <6>2, <6>3
                <5>3. QED
                    BY <3>1, <4>3, <5>1, <5>2
            <4>4. QED
                BY <4>1, <4>2, <4>3
        <3>3. undone' + (IF l.kind = "detach" THEN 1 ELSE 0) = 1
            BY <2>1, <3>2
        <3>4. CASE Waiting' = 0
            <4>1. undone' = 0 - 0 + (IF partial' \in {"set", "status"} THEN 1 ELSE 0)
                BY <2>0, <2>1, <3>2
            <4>2. QED
                BY <3>4, <4>1 DEF CountIsTrue
        <3>5. CASE Waiting' # 0
            <4>1. undone' = 1 - (IF 1 > 0 /\ Pipeline'[1].kind = "newline" THEN 1 ELSE 0)
                              + (IF partial' \in {"set", "status"} THEN 1 ELSE 0)
                BY <2>0, <2>1, <2>r, <3>2, <3>5
            <4>2. Waiting' = 2 /\ Pipeline'[1].kind # "detach" /\ Pipeline'[1 + 1].kind = "detach"
                BY <1>9, <2>r, <3>5
            <4>3. \A i \in 1 .. 1 : Pipeline'[i].kind # "detach"
                BY <4>2
            <4>4. QED
                BY <4>1, <4>2, <4>3 DEF CountIsTrue
        <3>6. QED
            BY <3>4, <3>5
    <2>10. ~Confirmed'
        BY <1>1, <1>2, <2>1 DEF Confirmed
    <2>11. (DetachIsThere <=> asked \/ ~readStdin)'
        BY <1>1, <1>6, <2>8
    <2>12. Order'
        BY <2>4, <2>5, <2>6, <2>7, <2>9, <2>11 DEF Order
    <2>13. QED
        BY <1>1, <1>2, <1>6, <2>10, <2>12 DEF ScriptInv
<1> DEFINE kind == IF partial = "none" THEN l.kind ELSE partial
<1>12. CASE l.value = "none"
    <2>1. /\ partial' = "none" /\ answers' \in AnswersTo(kind)
          /\ undone' = IF kind \in {"set", "status"} THEN undone - 1 ELSE undone
        BY <1>1, <1>5, <1>7, <1>8, <1>12 DEF HandleRequest, CompletedLine, l
    <2>2. kind \in {"set", "status", "detach"}
        BY <1>1, <1>5, <1>6, <1>7, <1>8 DEF PartialIsLast, Control
    <2> HIDE DEF kind
    <2>3. PICK d \in 0 .. Waiting :
             /\ \A i \in 1 .. d : Pipeline[i].kind # "detach"
             /\ d < Waiting => Pipeline[d + 1].kind = "detach"
             /\ undone = d - (IF d > 0 /\ Pipeline[d].kind = "newline" THEN 1 ELSE 0)
                           + (IF partial \in {"set", "status"} THEN 1 ELSE 0)
        BY <1>6 DEF CountIsTrue
    <2>4. CASE kind = "detach"
        <3>1. DetachIsThere
            <4>1. CASE partial = "none"
                BY <1>4, <2>4, <4>1 DEF DetachIsThere, kind
            <4>2. CASE partial # "none"
                BY <2>4, <4>2 DEF DetachIsThere, kind
            <4>3. QED
                BY <4>1, <4>2
        <3>2. undone = 0
            <4>1. CASE partial = "none"
                BY <1>4, <2>3, <2>4, <4>1 DEF kind
            <4>2. CASE partial # "none"
                <5>1. d = 1 /\ Pipeline[1].kind = "newline" /\ partial = "detach"
                    BY <1>4, <1>7, <1>8, <1>9, <2>3, <2>4, <4>2 DEF kind
                <5>2. QED
                    BY <2>3, <5>1
            <4>3. QED
                BY <4>1, <4>2
        <3>3. undone' = 0 /\ (asked' \/ inputEnd')
            BY <1>1, <1>6, <2>1, <2>4, <3>1, <3>2
        <3>4. Confirmed'
            <4>1. answers' = <<Marker("DETACHED")>>
                BY <2>1, <2>4 DEF AnswersTo
            <4>2. Len(answers') = 1 /\ answers'[1].kind = "DETACHED"
                BY <4>1 DEF Marker, Line
            <4>3. QED
                BY <4>2 DEF Confirmed
        <3>5. QED
            BY <1>1, <1>2, <1>6, <3>3, <3>4 DEF ScriptInv
    <2>5. CASE kind \in {"set", "status"}
        <3>1. ~Confirmed'
            <4>1. \A i \in 1 .. Len(answers') : answers'[i].kind # "DETACHED"
                BY <2>1, <2>5, AnswersAreLines DEF Unconfirming
            <4>2. QED
                BY <1>1, <1>2, <4>1 DEF Confirmed
        <3>2. HalfIsLast'
            <4>1. SUFFICES ASSUME NEW i \in 1 .. Waiting', Pipeline'[i].value = "half"
                           PROVE  /\ inputEnd'
                                  /\ \/ i = Waiting'
                                     \/ i + 2 = Waiting' /\ Pipeline'[i + 1].kind = "newline"
                BY DEF HalfIsLast
            <4>2. i + 1 \in 1 .. Waiting /\ Pipeline'[i] = Pipeline[i + 1]
                BY <1>4, <1>s
            <4>3. /\ inputEnd
                  /\ \/ i + 1 = Waiting
                     \/ (i + 1) + 2 = Waiting /\ Pipeline[(i + 1) + 1].kind = "newline"
                BY <1>6, <4>1, <4>2 DEF HalfIsLast
            <4>4. (i + 1) + 2 = Waiting =>
                     i + 1 \in 1 .. Waiting' /\ Pipeline'[i + 1] = Pipeline[(i + 1) + 1]
                BY <1>4, <1>s
            <4>5. QED
                BY <1>1, <1>4, <4>3, <4>4
        <3>3. NewlineCompletes'
            <4>1. SUFFICES ASSUME NEW i \in 1 .. Waiting', Pipeline'[i].kind = "newline"
                           PROVE  /\ i + 1 = Waiting' /\ Pipeline'[i + 1] = Marker("detach")
                                  /\ ~readStdin' /\ Pipeline'[i].value = "none"
                                  /\ IF i = 1 THEN partial' # "none" ELSE Pipeline'[i - 1].value = "half"
                BY DEF NewlineCompletes
            <4>2. i + 1 \in 1 .. Waiting /\ Pipeline[i + 1].kind = "newline" /\ i + 1 # 1
                BY <1>4, <1>s, <4>1
            <4>3. /\ i + 2 = Waiting /\ Pipeline[i + 2] = Marker("detach")
                  /\ ~readStdin /\ Pipeline[i + 1].value = "none" /\ Pipeline[i].value = "half"
                <5>1. /\ (i + 1) + 1 = Waiting /\ Pipeline[(i + 1) + 1] = Marker("detach")
                      /\ ~readStdin /\ Pipeline[i + 1].value = "none" /\ Pipeline[(i + 1) - 1].value = "half"
                    BY <1>6, <4>2 DEF NewlineCompletes
                <5>2. (i + 1) + 1 = i + 2 /\ (i + 1) - 1 = i
                    OBVIOUS
                <5>3. QED
                    BY <5>1, <5>2
            <4>4. i # 1
                BY <1>4, <1>12, <4>3
            <4>5. /\ i + 1 \in 1 .. Waiting' /\ Pipeline'[i + 1] = Pipeline[(i + 1) + 1]
                  /\ i - 1 \in 1 .. Waiting' /\ Pipeline'[i - 1] = Pipeline[(i - 1) + 1]
                  /\ Pipeline'[i] = Pipeline[i + 1]
                BY <1>4, <1>s, <4>3, <4>4
            <4>6. (i + 1) + 1 = i + 2 /\ (i - 1) + 1 = i
                OBVIOUS
            <4>7. QED
                BY <1>1, <1>4, <4>3, <4>4, <4>5, <4>6
        <3>4. PartialIsLast'
            BY <2>1 DEF PartialIsLast
        <3>5. MidlineIsTrue'
            <4>1. CASE InSocket' = 0
                BY <1>1, <1>4, <1>6, <1>12, <2>1, <4>1 DEF MidlineIsTrue
            <4>2. CASE InSocket' # 0
                BY <1>1, <1>4, <1>6, <4>2 DEF MidlineIsTrue
            <4>3. QED
                BY <4>1, <4>2
        <3>6. DetachIsThere' <=> DetachIsThere
            <4>1. l.kind # "detach" /\ partial # "detach" /\ partial' # "detach"
                BY <1>7, <2>1, <2>5 DEF kind
            <4>2. DetachIsThere' => DetachIsThere
                BY <1>4, <1>s, <4>1 DEF DetachIsThere
            <4>3. ASSUME DetachIsThere PROVE DetachIsThere'
                <5>1. PICK i \in 1 .. Waiting : Pipeline[i].kind = "detach"
                    BY <4>1, <4>3 DEF DetachIsThere
                <5>2. i # 1
                    BY <1>4, <4>1, <5>1
                <5>3. i - 1 \in 1 .. Waiting' /\ Pipeline'[i - 1] = Pipeline[i]
                    BY <1>4, <1>s, <5>2
                <5>4. QED
                    BY <5>1, <5>3 DEF DetachIsThere
            <4>4. QED
                BY <4>2, <4>3
        <3>7. CountIsTrue'
            <4>1. CASE partial = "none"
                <5>1. d > 0 /\ l.kind # "newline"
                    BY <1>4, <2>3, <2>5, <4>1 DEF kind
                <5>2. /\ d - 1 \in 0 .. Waiting'
                      /\ \A i \in 1 .. d - 1 : Pipeline'[i].kind # "detach"
                      /\ d - 1 < Waiting' => Pipeline'[(d - 1) + 1].kind = "detach"
                    BY <1>4, <1>s, <2>3, <5>1
                <5>3. undone' = d - (IF d > 0 /\ Pipeline[d].kind = "newline" THEN 1 ELSE 0) - 1
                    BY <2>1, <2>3, <2>5, <4>1
                <5>4. (d > 0 /\ Pipeline[d].kind = "newline")
                         <=> (d - 1 > 0 /\ Pipeline'[d - 1].kind = "newline")
                    <6>1. d > 1 => d - 1 \in 1 .. Waiting' /\ (d - 1) + 1 = d
                        BY <1>4
                    <6>2. d > 1 => Pipeline'[d - 1] = Pipeline[d]
                        BY <1>s, <6>1
                    <6>3. d = 1 => Pipeline[d].kind # "newline"
                        BY <1>4, <5>1
                    <6>4. QED
                        BY <5>1, <6>2, <6>3
                <5>5. undone' = (d - 1)
                         - (IF d - 1 > 0 /\ Pipeline'[d - 1].kind = "newline" THEN 1 ELSE 0)
                         + (IF partial' \in {"set", "status"} THEN 1 ELSE 0)
                    BY <2>1, <5>3, <5>4
                <5>6. QED
                    BY <5>2, <5>5 DEF CountIsTrue
            <4>2. CASE partial # "none"
                <5>1. d = 1 /\ Pipeline[1].kind = "newline" /\ partial \in {"set", "status"}
                    BY <1>4, <1>7, <1>8, <1>9, <2>3, <2>5, <4>2 DEF kind
                <5>2. undone' = 0 /\ Waiting' = 1 /\ Pipeline'[1].kind = "detach"
                    <6>1. undone = 1
                        BY <2>3, <5>1
                    <6>2. Waiting' = 1 /\ 1 \in 1 .. Waiting'
                          /\ Pipeline[1 + 1] = Marker("detach")
                        BY <1>4, <1>8, <4>2, <1>7
                    <6>3. Pipeline'[1] = Marker("detach")
                        BY <1>s, <6>2
                    <6>4. QED
                        BY <1>9, <2>1, <2>5, <6>1, <6>2, <6>3
                <5>3. QED
                    BY <2>1, <5>2 DEF CountIsTrue
            <4>3. QED
                BY <4>1, <4>2
        <3>8. (DetachIsThere <=> asked \/ ~readStdin)'
            BY <1>1, <1>6, <3>6
        <3>9. Order'
            BY <3>2, <3>3, <3>4, <3>5, <3>7, <3>8 DEF Order
        <3>10. QED
            BY <1>1, <1>2, <1>6, <3>1, <3>9 DEF ScriptInv
    <2>6. QED
        BY <2>2, <2>4, <2>5
<1>13. QED
    BY <1>5, <1>11, <1>12

LEMMA ScriptOfReadInputEnd == ScriptInv /\ Control' /\ ReadInputEnd => ScriptInv'
<1> SUFFICES ASSUME ScriptInv, Control', ReadInputEnd PROVE ScriptInv'
    OBVIOUS
<1>1. /\ Control /\ client = "stdin" /\ input = <<>> /\ inputEnd
      /\ tosend' = FinalText /\ readStdin' = FALSE
      /\ UNCHANGED <<input, inputEnd, midline, partial, received, requests, link, answers,
                     delivered, undone, asked>>
    BY DEF ReadInputEnd, InputAtEnd, ScriptInv, wireVars, serverVars, userVars
<1>2. Alive' = Alive /\ Confirmed' = Confirmed
    BY <1>1 DEF Alive, Confirmed
<1>3. ASSUME Alive, ~Confirmed PROVE Order'
    <2>1. tosend = <<>> /\ Order
        BY <1>1, <1>3 DEF Control, ScriptInv
    <2>2. /\ HalfIsLast /\ NewlineCompletes /\ PartialIsLast /\ MidlineIsTrue /\ CountIsTrue
          /\ (DetachIsThere <=> asked \/ ~readStdin)
        BY <2>1 DEF Order
    <2>3. Sent' = Sent /\ Sent \in Seq(UserLines) /\ InSocket' = InSocket
        BY <1>1, PipelineType DEF Sent, InSocket
    <2>4. Pipeline = Sent /\ Pipeline' = Sent \o FinalText
        <3>1. FinalText \in Seq(UserLines)
            BY MarkerIsUserLine, ShortSequences DEF FinalText
        <3>2. Sent \o FinalText \in Seq(UserLines)
            BY <2>3, <3>1
        <3>3. Pipeline' = (Sent \o FinalText) \o <<>>
            BY <1>1, <2>3 DEF Pipeline
        <3>4. Pipeline = (Sent \o <<>>) \o <<>>
            BY <1>1, <2>1 DEF Pipeline
        <3>5. QED
            BY <2>3, <3>2, <3>3, <3>4, EmptyJoined
    <2>5. /\ Waiting \in Nat /\ InSocket = Waiting /\ Waiting' = Waiting + Len(FinalText)
          /\ \A i \in 1 .. Waiting : Pipeline'[i] = Pipeline[i]
          /\ \A i \in 1 .. Len(FinalText) : Pipeline'[Waiting + i] = FinalText[i]
        <3>1. FinalText \in Seq(UserLines)
            BY MarkerIsUserLine, ShortSequences DEF FinalText
        <3>2. QED
            BY <2>3, <2>4, <3>1 DEF Waiting, InSocket
    <2>6. readStdin /\ ~readStdin' /\ midline' = midline /\ partial' = partial /\ undone' = undone
        BY <1>1 DEF Control
    <2> DEFINE n == Waiting
    <2>n. \A i \in 1 .. n : Pipeline[i].kind # "newline"
        BY <2>2, <2>6 DEF NewlineCompletes
    <2>m. midline <=> IF n = 0 THEN partial # "none" ELSE Pipeline[n].value = "half"
        BY <2>2, <2>4, <2>5 DEF MidlineIsTrue
    <2>d. /\ Marker("newline").kind = "newline" /\ Marker("newline").value = "none"
          /\ Marker("detach").kind = "detach" /\ Marker("detach").value = "none"
        BY DEF Marker, Line
    <2>7. MidlineIsTrue'
        BY <2>2, <2>3, <2>6 DEF MidlineIsTrue
    <2>8. CASE midline
        <3>1. /\ Waiting' = n + 2 /\ Pipeline'[n + 1] = Marker("newline")
              /\ Pipeline'[n + 2] = Marker("detach")
            <4>1. FinalText = <<Marker("newline"), Marker("detach")>>
                BY <2>8 DEF FinalText
            <4>2. Len(FinalText) = 2 /\ FinalText[1] = Marker("newline") /\ FinalText[2] = Marker("detach")
                BY <4>1
            <4>3. 1 \in 1 .. Len(FinalText) /\ 2 \in 1 .. Len(FinalText)
                BY <4>2
            <4>4. QED
                BY <2>5, <4>2, <4>3
        <3>2. \A i \in 1 .. Waiting' : i \in 1 .. n \/ i = n + 1 \/ i = n + 2
            BY <2>5, <3>1
        <3>3. HalfIsLast'
            <4>1. ASSUME NEW i \in 1 .. n, Pipeline[i].value = "half" PROVE i = n
                BY <2>2, <2>n, <4>1, <2>5 DEF HalfIsLast
            <4>2. QED
                BY <1>1, <2>5, <2>d, <3>1, <3>2, <4>1 DEF HalfIsLast
        <3>4. NewlineCompletes'
            <4>1. ASSUME n # 0 PROVE Pipeline'[(n + 1) - 1].value = "half"
                BY <2>5, <2>8, <2>m, <4>1
            <4>2. n = 0 => partial' # "none"
                BY <2>6, <2>8, <2>m
            <4>3. \A i \in 1 .. Waiting' : Pipeline'[i].kind = "newline" => i = n + 1
                BY <2>5, <2>d, <2>n, <3>1, <3>2
            <4>4. QED
                BY <2>5, <2>6, <2>d, <3>1, <4>1, <4>2, <4>3 DEF NewlineCompletes
        <3>5. PartialIsLast'
            <4>1. partial # "none" => n = 0
                BY <2>2, <2>n, <2>5 DEF PartialIsLast
            <4>2. QED
                BY <1>1, <2>2, <2>5, <2>6, <2>d, <3>1, <4>1 DEF PartialIsLast
        <3>6. DetachIsThere'
            <4>1. n + 2 \in 1 .. Waiting'
                BY <2>5, <3>1
            <4>2. QED
                BY <2>d, <3>1, <4>1 DEF DetachIsThere
        <3>7. CountIsTrue'
            <4>1. PICK d \in 0 .. n :
                     /\ \A i \in 1 .. d : Pipeline[i].kind # "detach"
                     /\ d < n => Pipeline[d + 1].kind = "detach"
                     /\ undone = d - (IF d > 0 /\ Pipeline[d].kind = "newline" THEN 1 ELSE 0)
                                   + (IF partial \in {"set", "status"} THEN 1 ELSE 0)
                BY <2>2 DEF CountIsTrue
            <4>2. undone = d + (IF partial \in {"set", "status"} THEN 1 ELSE 0)
                BY <2>5, <2>n, <4>1
            <4>3. CASE d < n
                <5>1. /\ d \in 0 .. Waiting' /\ d < Waiting' /\ Pipeline'[d + 1].kind = "detach"
                      /\ \A i \in 1 .. d : Pipeline'[i] = Pipeline[i]
                    BY <2>5, <3>1, <4>1, <4>3
                <5>2. d > 0 => Pipeline'[d].kind # "newline"
                    BY <2>5, <2>n, <4>1
                <5>3. undone' = d - (IF d > 0 /\ Pipeline'[d].kind = "newline" THEN 1 ELSE 0)
                                  + (IF partial' \in {"set", "status"} THEN 1 ELSE 0)
                    BY <2>6, <4>2, <5>2
                <5>4. QED
                    BY <4>1, <5>1, <5>3 DEF CountIsTrue
            <4>4. CASE d = n
                <5>1. /\ d + 1 \in 0 .. Waiting' /\ Pipeline'[(d + 1) + 1].kind = "detach"
                      /\ \A i \in 1 .. d + 1 : Pipeline'[i].kind # "detach"
                    BY <2>5, <2>d, <3>1, <4>1, <4>4
                <5>2. undone' = (d + 1)
                         - (IF d + 1 > 0 /\ Pipeline'[d + 1].kind = "newline" THEN 1 ELSE 0)
                         + (IF partial' \in {"set", "status"} THEN 1 ELSE 0)
                    BY <2>6, <2>5, <2>d, <3>1, <4>2, <4>4
                <5>3. QED
                    BY <5>1, <5>2 DEF CountIsTrue
            <4>5. QED
                BY <2>5, <4>1, <4>3, <4>4
        <3>8. (DetachIsThere <=> asked \/ ~readStdin)'
            BY <2>6, <3>6
        <3>9. QED
            BY <2>7, <3>3, <3>4, <3>5, <3>7, <3>8 DEF Order
    <2>9. CASE ~midline
        <3>1. Waiting' = n + 1 /\ Pipeline'[n + 1] = Marker("detach")
            <4>1. FinalText = <<Marker("detach")>>
                BY <2>9 DEF FinalText
            <4>2. Len(FinalText) = 1 /\ FinalText[1] = Marker("detach")
                BY <4>1
            <4>3. 1 \in 1 .. Len(FinalText)
                BY <4>2
            <4>4. QED
                BY <2>5, <4>2, <4>3
        <3>2. \A i \in 1 .. Waiting' : i \in 1 .. n \/ i = n + 1
            BY <2>5, <3>1
        <3>3. HalfIsLast'
            <4>1. \A i \in 1 .. n : Pipeline[i].value # "half"
                <5>1. ASSUME NEW i \in 1 .. n, Pipeline[i].value = "half" PROVE i = n
                    BY <2>2, <2>n, <5>1, <2>5 DEF HalfIsLast
                <5>2. QED
                    BY <2>5, <2>9, <2>m, <5>1
            <4>2. QED
                BY <2>5, <2>d, <3>1, <3>2, <4>1 DEF HalfIsLast
        <3>4. NewlineCompletes'
            BY <2>5, <2>d, <2>n, <3>1, <3>2 DEF NewlineCompletes
        <3>5. partial = "none"
            BY <2>2, <2>5, <2>9, <2>m, <2>n DEF PartialIsLast
        <3>6. PartialIsLast'
            BY <2>6, <3>5 DEF PartialIsLast
        <3>7. DetachIsThere'
            <4>1. n + 1 \in 1 .. Waiting'
                BY <2>5, <3>1
            <4>2. QED
                BY <2>d, <3>1, <4>1 DEF DetachIsThere
        <3>8. CountIsTrue'
            <4>1. PICK d \in 0 .. n :
                     /\ \A i \in 1 .. d : Pipeline[i].kind # "detach"
                     /\ d < n => Pipeline[d + 1].kind = "detach"
                     /\ undone = d - (IF d > 0 /\ Pipeline[d].kind = "newline" THEN 1 ELSE 0)
                                   + (IF partial \in {"set", "status"} THEN 1 ELSE 0)
                BY <2>2 DEF CountIsTrue
            <4>2. undone' = d - (IF d > 0 /\ Pipeline'[d].kind = "newline" THEN 1 ELSE 0)
                              + (IF partial' \in {"set", "status"} THEN 1 ELSE 0)
                <5>1. d > 0 => Pipeline'[d].kind = Pipeline[d].kind
                    BY <2>5, <4>1
                <5>2. QED
                    BY <2>6, <4>1, <5>1
            <4>3. /\ d \in 0 .. Waiting' /\ d < Waiting' /\ Pipeline'[d + 1].kind = "detach"
                  /\ \A i \in 1 .. d : Pipeline'[i].kind # "detach"
                BY <2>5, <2>d, <3>1, <4>1
            <4>4. QED
                BY <4>2, <4>3 DEF CountIsTrue
        <3>9. (DetachIsThere <=> asked \/ ~readStdin)'
            BY <2>6, <3>7
        <3>10. QED
            BY <2>7, <3>3, <3>4, <3>6, <3>8, <3>9 DEF Order
    <2>10. QED
        BY <2>8, <2>9
<1>4. QED
    BY <1>1, <1>2, <1>3 DEF ScriptInv

LEMMA ScriptOfType == ScriptInv /\ Control' /\ Type => ScriptInv'
<1> SUFFICES ASSUME ScriptInv, Control', Type PROVE ScriptInv'
    OBVIOUS
<1>1. /\ Control /\ ~inputEnd /\ readStdin
      /\ UNCHANGED <<readStdin, midline, partial, received, requests, tosend, link, answers,
                     delivered>>
    BY DEF Type, ScriptInv, Control, clientVars, serverVars, wireVars
<1>2. PICK k \in Kinds, v \in {"none", "half"} :
         /\ input' = Append(input, Line(k, v)) /\ inputEnd' = (v = "half")
         /\ asked' = (asked \/ k = "detach")
         /\ undone' = IF asked \/ k = "detach" THEN undone ELSE undone + 1
    BY DEF Type
<1> DEFINE l == Line(k, v)
<1>3. /\ l \in UserLines /\ l.kind = k /\ l.value = v
      /\ k \in {"set", "status", "detach"}
    BY KindsAssumption, MarkerIsUserLine DEF Line
<1>4. Alive' = Alive /\ Confirmed' = Confirmed
    BY <1>1 DEF Alive, Confirmed
<1>5. Confirmed => undone' = 0 /\ (asked' \/ inputEnd')
    BY <1>1, <1>2 DEF ScriptInv
<1>6. ASSUME Alive, ~Confirmed PROVE Order'
    <2>1. /\ HalfIsLast /\ NewlineCompletes /\ PartialIsLast /\ MidlineIsTrue /\ CountIsTrue
          /\ (DetachIsThere <=> asked \/ ~readStdin)
        BY <1>6 DEF Order, ScriptInv
    <2> DEFINE n == Waiting
    <2>2. /\ n \in Nat /\ Waiting' = n + 1 /\ Pipeline'[n + 1] = l
          /\ \A i \in 1 .. n : Pipeline'[i] = Pipeline[i]
        <3>1. Sent' = Sent
            BY <1>1 DEF Sent
        <3>2. Sent \o tosend \in Seq(UserLines) /\ input \in Seq(UserLines)
            <4>1. \A r, s \in Seq(UserLines) : r \o s \in Seq(UserLines)
                OBVIOUS
            <4>2. QED
                BY <1>1, <4>1, PipelineType DEF Control
        <3>3. Pipeline' = Append(Pipeline, l) /\ Pipeline \in Seq(UserLines)
            BY <1>1, <1>2, <1>3, <3>1, <3>2, AppendToJoined, PipelineType DEF Pipeline
        <3>4. QED
            BY <1>3, <3>3 DEF Waiting
    <2>3. InSocket' = InSocket /\ Sent' = Sent
        BY <1>1 DEF InSocket, Sent
    <2> HIDE DEF l
    <2>n. (\A i \in 1 .. n : Pipeline[i].kind # "newline" /\ Pipeline[i].value # "half")
          /\ partial = "none"
        <3>1. \A i \in 1 .. n : Pipeline[i].value # "half"
            BY <1>1, <2>1 DEF HalfIsLast
        <3>2. partial = "none"
            BY <1>1, <2>1 DEF PartialIsLast
        <3>3. \A i \in 1 .. n : Pipeline[i].kind # "newline"
            BY <1>1, <2>1 DEF NewlineCompletes
        <3>4. QED
            BY <3>1, <3>2, <3>3
    <2>4. \A i \in 1 .. Waiting' : i \in 1 .. n \/ i = n + 1
        BY <2>2
    <2>5. HalfIsLast'
        BY <1>2, <1>3, <2>2, <2>4, <2>n DEF HalfIsLast
    <2>6. NewlineCompletes'
        BY <1>3, <2>2, <2>4, <2>n DEF NewlineCompletes
    <2>7. PartialIsLast' /\ MidlineIsTrue'
        BY <1>1, <2>1, <2>3, <2>n DEF PartialIsLast, MidlineIsTrue
    <2>8. DetachIsThere' <=> (DetachIsThere \/ k = "detach")
        <3>1. n + 1 \in 1 .. Waiting'
            BY <2>2
        <3>2. (\E i \in 1 .. Waiting' : Pipeline'[i].kind = "detach")
                 <=> (k = "detach" \/ \E i \in 1 .. n : Pipeline[i].kind = "detach")
            BY <1>3, <2>2, <2>4, <3>1
        <3>3. QED
            BY <1>1, <3>2 DEF DetachIsThere
    <2>9. CountIsTrue'
        <3>1. PICK d \in 0 .. n :
                 /\ \A i \in 1 .. d : Pipeline[i].kind # "detach"
                 /\ d < n => Pipeline[d + 1].kind = "detach"
                 /\ undone = d - (IF d > 0 /\ Pipeline[d].kind = "newline" THEN 1 ELSE 0)
                               + (IF partial \in {"set", "status"} THEN 1 ELSE 0)
            BY <2>1 DEF CountIsTrue
        <3>2. undone = d
            BY <2>2, <2>n, <3>1
        <3>3. CASE d < n \/ k = "detach"
            <4>1. asked \/ k = "detach"
                <5>1. ASSUME d < n PROVE DetachIsThere
                    <6>1. d + 1 \in 1 .. n /\ Pipeline[d + 1].kind = "detach"
                        BY <2>2, <3>1, <5>1
                    <6>2. QED
                        BY <6>1 DEF DetachIsThere
                <5>2. QED
                    BY <1>1, <2>1, <3>3, <5>1
            <4>2. undone' = d
                BY <1>2, <3>2, <4>1
            <4>3. /\ d \in 0 .. Waiting' /\ Pipeline'[d + 1].kind = "detach"
                  /\ \A i \in 1 .. d : Pipeline'[i] = Pipeline[i]
                BY <1>3, <2>2, <3>1, <3>3
            <4>4. d > 0 => Pipeline'[d].kind # "newline"
                BY <2>2, <2>n, <3>1
            <4>5. undone' = d - (IF d > 0 /\ Pipeline'[d].kind = "newline" THEN 1 ELSE 0)
                              + (IF partial' \in {"set", "status"} THEN 1 ELSE 0)
                BY <1>1, <2>n, <3>1, <4>2, <4>4
            <4>6. QED
                BY <3>1, <4>3, <4>5 DEF CountIsTrue
        <3>4. CASE d = n /\ k # "detach"
            <4>1. ~asked
                <5>1. ~DetachIsThere
                    BY <2>n, <3>1, <3>4 DEF DetachIsThere
                <5>2. QED
                    BY <2>1, <5>1
            <4>2. undone' = n + 1
                BY <1>2, <3>2, <3>4, <4>1
            <4>3. /\ n + 1 \in 0 .. Waiting' /\ n + 1 = Waiting'
                  /\ \A i \in 1 .. n + 1 : Pipeline'[i].kind # "detach"
                BY <1>3, <2>2, <2>4, <3>1, <3>4
            <4>4. Pipeline'[n + 1].kind # "newline"
                BY <1>3, <2>2
            <4>5. undone' = (n + 1)
                     - (IF n + 1 > 0 /\ Pipeline'[n + 1].kind = "newline" THEN 1 ELSE 0)
                     + (IF partial' \in {"set", "status"} THEN 1 ELSE 0)
                BY <1>1, <2>2, <2>n, <4>2, <4>4
            <4>6. QED
                BY <2>2, <4>3, <4>5 DEF CountIsTrue
        <3>5. QED
            BY <2>2, <3>1, <3>3, <3>4
    <2>10. (DetachIsThere <=> asked \/ ~readStdin)'
        BY <1>1, <1>2, <2>1, <2>8
    <2>11. QED
        BY <2>5, <2>6, <2>7, <2>9, <2>10 DEF Order
<1>7. QED
    BY <1>1, <1>4, <1>5, <1>6 DEF ScriptInv

(* Lines that move keep their order. *)
LEMMA ScriptOfMoves ==
    ScriptInv /\ Control' /\ (ReadInput \/ SendLine \/ ReadRequests) => ScriptInv'
<1> SUFFICES ASSUME ScriptInv, Control', ReadInput \/ SendLine \/ ReadRequests
             PROVE  ScriptInv'
    OBVIOUS
<1>1. /\ received \in Seq(UserLines) /\ requests \in Seq(UserLines)
      /\ tosend \in Seq(UserLines) /\ input \in Seq(UserLines) /\ Control
    BY DEF ScriptInv, Control
<1>2. /\ UNCHANGED <<readStdin, partial, link, answers, delivered, undone, inputEnd, asked>>
      /\ input = <<>> => input' = <<>>
    BY DEF ReadInput, SendLine, ReadRequests, InputAtEnd, clientVars, serverVars, userVars,
           wireVars, Readable
<1>3. Alive' = Alive /\ Confirmed' = Confirmed
    BY <1>2 DEF Alive, Confirmed
<1>4. \A r, s \in Seq(UserLines) : r \o s \in Seq(UserLines)
    OBVIOUS
<1>5. ASSUME Alive, ~Confirmed PROVE Order'
    <2>1. Order
        BY <1>5 DEF ScriptInv
    <2>2. CASE ReadInput
        <3>1. PICK n \in 1 .. Len(input) :
                 tosend' = SubSeq(input, 1, n) /\ input' = SubSeq(input, n + 1, Len(input))
            BY <2>2 DEF ReadInput, Readable
        <3>2. tosend' \o input' = input /\ tosend' \in Seq(UserLines) /\ input' \in Seq(UserLines)
            BY <1>1, <3>1, TakeFront
        <3>3. tosend = <<>> /\ Sent' = Sent /\ midline' = midline
            BY <1>1, <1>5, <2>2 DEF ReadInput, Control, Sent, wireVars, serverVars
        <3>4. Pipeline' = Sent \o (tosend' \o input')
            <4>1. Pipeline' = (Sent \o tosend') \o input' /\ Sent \in Seq(UserLines)
                BY <1>1, <3>3, PipelineType DEF Pipeline
            <4>2. \A r, s, t \in Seq(UserLines) : (r \o s) \o t = r \o (s \o t)
                BY JoinedTwice
            <4>3. QED
                BY <3>2, <4>1, <4>2
        <3>5. Pipeline' = Pipeline
            BY <1>1, <3>2, <3>3, <3>4, EmptyJoined, PipelineType DEF Pipeline
        <3>6. QED
            BY <1>2, <2>1, <3>3, <3>5, OrderFrame
    <2>3. CASE SendLine
        <3>1. /\ tosend # <<>> /\ requests' = Append(requests, Head(tosend))
              /\ tosend' = Tail(tosend) /\ received' = received /\ input' = input
              /\ midline' = (Head(tosend).value = "half")
            BY <1>1, <2>3 DEF SendLine, Control, serverVars, userVars
        <3>2. Head(tosend) \in UserLines
            BY <1>1, <3>1, ShortSequences
        <3>3. Sent' = Append(Sent, Head(tosend)) /\ Sent \in Seq(UserLines)
            BY <1>1, <3>1, <3>2, AppendToJoined, PipelineType DEF Sent
        <3>4. Sent' \o tosend' = Sent \o tosend
            BY <1>1, <3>1, <3>3, MoveHead
        <3>5. Pipeline' = Pipeline /\ Waiting' = Waiting
            BY <3>1, <3>4 DEF Pipeline, Waiting
        <3>6. /\ InSocket \in Nat /\ InSocket' = InSocket + 1 /\ InSocket' # 0
              /\ Sent'[InSocket'] = Head(tosend)
            BY <3>2, <3>3 DEF InSocket
        <3>7. MidlineIsTrue'
            BY <3>1, <3>6 DEF MidlineIsTrue
        <3>8. HalfIsLast' /\ NewlineCompletes' /\ PartialIsLast'
            BY <1>2, <2>1, <3>5 DEF Order, HalfIsLast, NewlineCompletes, PartialIsLast
        <3>9. (DetachIsThere <=> asked \/ ~readStdin)'
            BY <1>2, <2>1, <3>5 DEF Order, DetachIsThere
        <3>10. CountIsTrue'
            BY <1>2, <2>1, <3>5 DEF Order, CountIsTrue
        <3>11. QED
            BY <3>7, <3>8, <3>9, <3>10 DEF Order
    <2>4. CASE ReadRequests
        <3>1. PICK n \in 1 .. Len(requests) :
                 received' = SubSeq(requests, 1, n) /\ requests' = SubSeq(requests, n + 1, Len(requests))
            BY <2>4 DEF ReadRequests, Readable
        <3>2. received = <<>> /\ UNCHANGED <<midline, tosend, input>>
            BY <1>1, <2>4 DEF ReadRequests, Control, clientVars, userVars
        <3>3. Sent' = Sent
            BY <1>1, <3>1, <3>2, TakeFront, EmptyJoined DEF Sent
        <3>4. Pipeline' = Pipeline
            BY <3>2, <3>3 DEF Pipeline
        <3>5. QED
            BY <1>2, <2>1, <3>2, <3>3, <3>4, OrderFrame
    <2>5. QED
        BY <2>2, <2>3, <2>4
<1>6. QED
    BY <1>2, <1>3, <1>5 DEF ScriptInv

(* The other steps move no line, unless the connection is lost. *)
LEMMA ScriptOfTheRest ==
    ASSUME ScriptInv, Control',
           Connect \/ Poll \/ ReadResponses \/ ReadEnd \/ SendFails \/ CallFails \/ Accept
           \/ SendAnswer \/ ControllerGone \/ Finish \/ Published \/ EndInput \/ WorkloadEnds
           \/ SupervisorDies \/ UNCHANGED vars
    PROVE  ScriptInv'
<1>1. /\ UNCHANGED <<readStdin, partial, undone, asked, midline, tosend, input, requests>>
      /\ inputEnd' = inputEnd \/ (EndInput /\ inputEnd' /\ UNCHANGED received)
      /\ Control
    BY DEF Connect, Poll, ReadResponses, ReadEnd, SendFails, CallFails, Accept, SendAnswer,
           ControllerGone, Finish, Published, EndInput, WorkloadEnds, SupervisorDies, ScriptInv,
           vars, clientVars, serverVars, wireVars, userVars
<1>2. Alive' => Alive /\ received' = received
    BY DEF Connect, Poll, ReadResponses, ReadEnd, SendFails, CallFails, Accept, SendAnswer,
           ControllerGone, Finish, Published, EndInput, WorkloadEnds, SupervisorDies, ScriptInv,
           vars, clientVars, serverVars, wireVars, userVars, Alive, CloseLink, Lost, Control, End
<1>3. /\ Confirmed' => Confirmed
      /\ Alive' /\ Confirmed => Confirmed'
      /\ delivered' = "detached" => ~Alive'
    <2>1. CASE Accept \/ Finish
        <3>1. answers = <<>> /\ delivered' = delivered /\ server = "poll"
            BY <1>1, <2>1 DEF Accept, Finish, Control
        <3>2. ~(\E i \in 1 .. Len(answers) : answers[i].kind = "DETACHED")
            BY <3>1
        <3>3. answers' = answers \/ Unconfirming(answers')
            BY <2>1, AnswersAreLines DEF Accept, Finish, AnswerKinds
        <3>4. Confirmed' <=> Confirmed
            BY <3>1, <3>2, <3>3 DEF Confirmed, Unconfirming
        <3>5. QED
            BY <1>2, <3>1, <3>4 DEF ScriptInv
    <2>2. CASE SendAnswer
        <3>1. /\ answers \in Seq(AnswerLines) /\ answers # <<>> /\ answers' = Tail(answers)
              /\ link = "open" /\ delivered # "detached"
            BY <1>1, <2>2 DEF SendAnswer, Control, ScriptInv, Alive
        <3>2. /\ Len(answers') = Len(answers) - 1 /\ Len(answers) \in Nat /\ Len(answers) > 0
              /\ Head(answers) = answers[1]
              /\ \A i \in 1 .. Len(answers) - 1 : answers'[i] = answers[i + 1]
            BY <3>1, ShortSequences
        <3>3. delivered' = "detached" <=> Head(answers).kind = "DETACHED"
            BY <2>2, <3>1 DEF SendAnswer
        <3>4. delivered' = "detached" => ~Alive'
            BY <2>2, <3>3 DEF SendAnswer, CloseLink, Alive
        <3>5. Confirmed' => Confirmed
            <4>1. ASSUME delivered' = "detached" PROVE Confirmed
                <5>1. 1 \in 1 .. Len(answers) /\ answers[1].kind = "DETACHED"
                    BY <3>2, <3>3, <4>1
                <5>2. QED
                    BY <5>1 DEF Confirmed
            <4>2. ASSUME NEW i \in 1 .. Len(answers'), answers'[i].kind = "DETACHED"
                  PROVE  Confirmed
                <5>1. i + 1 \in 1 .. Len(answers) /\ answers[i + 1].kind = "DETACHED"
                    BY <3>2, <4>2
                <5>2. QED
                    BY <5>1 DEF Confirmed
            <4>3. QED
                BY <4>1, <4>2 DEF Confirmed
        <3>6. Confirmed => Confirmed'
            <4>1. SUFFICES ASSUME NEW i \in 1 .. Len(answers), answers[i].kind = "DETACHED"
                           PROVE  Confirmed'
                BY <3>1 DEF Confirmed
            <4>2. CASE i = 1
                BY <3>2, <3>3, <4>1, <4>2 DEF Confirmed
            <4>3. CASE i # 1
                <5>1. /\ i - 1 \in 1 .. Len(answers') /\ i - 1 \in 1 .. Len(answers) - 1
                      /\ (i - 1) + 1 = i
                    BY <3>2, <4>3
                <5>2. answers'[i - 1].kind = "DETACHED"
                    BY <3>2, <4>1, <5>1
                <5>3. QED
                    BY <5>1, <5>2 DEF Confirmed
            <4>4. QED
                BY <4>2, <4>3
        <3>7. QED
            BY <3>4, <3>5, <3>6
    <2>3. CASE ControllerGone
        <3>1. ~Alive' /\ delivered' = delivered /\ answers' = <<>>
            BY <2>3 DEF ControllerGone, CloseLink, Alive
        <3>2. QED
            BY <3>1 DEF Confirmed
    <2>4. CASE ~(Accept \/ Finish \/ SendAnswer \/ ControllerGone)
        <3>1. answers' = answers /\ delivered' = delivered
            BY <2>4 DEF Connect, Poll, ReadResponses, ReadEnd, SendFails, CallFails, Published,
                   EndInput, WorkloadEnds, SupervisorDies, vars, clientVars, serverVars, wireVars,
                   userVars
        <3>2. QED
            BY <1>2, <3>1 DEF Confirmed, ScriptInv
    <2>5. QED
        BY <2>1, <2>2, <2>3, <2>4
<1>5. ASSUME Alive', ~Confirmed' PROVE Order'
    <2>1. Order /\ Sent' = Sent /\ Pipeline' = Pipeline
        BY <1>1, <1>2, <1>3, <1>5 DEF ScriptInv, Sent, Pipeline
    <2>2. CASE inputEnd' = inputEnd
        BY <1>1, <2>1, <2>2, OrderFrame
    <2>3. CASE inputEnd' /\ ~inputEnd
        <3>1. Waiting' = Waiting /\ InSocket' = InSocket
            BY <2>1 DEF Waiting, InSocket
        <3>2. HalfIsLast' /\ NewlineCompletes' /\ PartialIsLast'
            BY <1>1, <2>1, <2>3, <3>1 DEF Order, HalfIsLast, NewlineCompletes, PartialIsLast
        <3>3. MidlineIsTrue' /\ CountIsTrue' /\ (DetachIsThere <=> asked \/ ~readStdin)'
            BY <1>1, <2>1, <3>1 DEF Order, MidlineIsTrue, CountIsTrue, DetachIsThere
        <3>4. QED
            BY <3>2, <3>3 DEF Order
    <2>4. QED
        BY <1>1, <2>2, <2>3 DEF Control
<1>6. /\ (~readStdin => inputEnd /\ input = <<>>)'
      /\ (Confirmed => undone = 0 /\ (asked \/ inputEnd))'
    BY <1>1, <1>3 DEF ScriptInv
<1>7. QED
    BY <1>3, <1>5, <1>6 DEF ScriptInv

LEMMA ScriptStep == ScriptInv /\ [Next]_vars => ScriptInv'
<1> SUFFICES ASSUME ScriptInv, [Next]_vars PROVE ScriptInv'
    OBVIOUS
<1>1. Control'
    BY ControlStep DEF ScriptInv
<1>2. CASE HandleRequest
    BY <1>1, <1>2, ScriptOfHandleRequest
<1>3. CASE ReadInputEnd
    BY <1>1, <1>3, ScriptOfReadInputEnd
<1>4. CASE Type
    BY <1>1, <1>4, ScriptOfType
<1>5. CASE ReadInput \/ SendLine \/ ReadRequests
    BY <1>1, <1>5, ScriptOfMoves
<1>6. CASE Connect \/ Poll \/ ReadResponses \/ ReadEnd \/ SendFails \/ CallFails \/ Accept
           \/ SendAnswer \/ ControllerGone \/ Finish \/ Published \/ EndInput \/ WorkloadEnds
           \/ SupervisorDies \/ UNCHANGED vars
    BY <1>1, <1>6, ScriptOfTheRest
<1>7. QED
    BY <1>2, <1>3, <1>4, <1>5, <1>6 DEF Next, ClientStep, ServerStep

-----------------------------------------------------------------------------
(* The answers, in order *)

(* What the client has yet to read, or the Supervisor to send. *)
Stream == responses \o answers

(* Answers to lines, read from the given state of the block of a status. *)
WellFormed(a, b) ==
    /\ \A i \in 1 .. Len(a) :
          /\ a[i].kind \in AnswerKinds
          /\ a[i].kind = "STATUS_END"
                <=> IF i = 1 THEN b = "status" ELSE a[i - 1].kind = "STATUS_BEGIN"
    /\ b = "status" => Len(a) > 0
    /\ Len(a) > 0 => a[Len(a)].kind # "STATUS_BEGIN"

Publishing == published \in Outcomes /\ server \in {"publish", "gone"}

(* What is left of the stream, for a client that has read part of a Session *)
(* Outcome, and for one that has not.                                       *)
Reading(b, p, q) ==
    \/ /\ b = "outcome" /\ p # <<>>
       /\ Publishing /\ p \o q = Serialize(published)
    \/ /\ b \in {"none", "status"} /\ p = <<>>
       /\ \E a \in Seq(AnswerLines) :
             /\ WellFormed(a, b)
             /\ q = a \/ (Publishing /\ q = a \o Serialize(published))

LastResponse(kind) == Len(responses) > 0 /\ responses[Len(responses)].kind = kind

StreamInv ==
    /\ Control
    /\ responses \in Seq(AnswerLines) /\ parser \in Seq(AnswerLines)
    /\ client # "done" =>
          /\ Reading(block, parser, Stream)
          /\ block = "outcome" => Stream # <<>>
          /\ FinalIsLast(Stream)
          /\ delivered = "detached" <=> LastResponse("DETACHED")
          /\ delivered = "outcome" <=> LastResponse("END")
          /\ (\E i \in 1 .. Len(responses) : responses[i].kind \in {"DETACHED", "ERROR attached"})
                => ~Alive
    /\ delivered = "outcome" => Publishing /\ answers = <<>>
    /\ server = "publish" => published \in Outcomes
    /\ server = "publish" =>
          \A i \in 1 .. Len(answers) : answers[i].kind \notin {"DETACHED", "ERROR attached"}
    /\ ReportIsTrue
    /\ LossMeansNoAnswer
    /\ ending = "outcome" => Publishing

(* The parser of a Session Outcome: what is read of a block that was        *)
(* serialized is never malformed, and it is complete when all of it is read. *)
LEMMA PartOfBlock ==
    ASSUME NEW o \in Outcomes, NEW p \in Seq(AnswerLines), NEW q \in Seq(AnswerLines),
           p # <<>>, p \o q = Serialize(o)
    PROVE  /\ ~Malformed(p)
           /\ Complete(p) <=> q = <<>>
           /\ q = <<>> => Parsed(p) = o
           /\ q # <<>> => Head(q).kind # "BEGIN" /\ (Head(q).kind \in Finals => Head(q).kind = "END")
<1> DEFINE b == Serialize(o)
           n == Len(o.failures)
           m == Len(p)
<1>1. /\ n \in Nat /\ Len(b) = n + 4
      /\ b[1] = Marker("BEGIN") /\ b[2] = Line("WORKLOAD", o.workload)
      /\ b[3] = Line("INFRASTRUCTURE", IF o.failures = <<>> THEN "ok" ELSE "failed")
      /\ \A i \in 4 .. n + 3 : b[i] = Line("FAILURE", o.failures[i - 3])
      /\ b[n + 4] = Marker("END")
      /\ n = 0 <=> o.failures = <<>>
    BY BlockShape
<1>2. /\ m \in Nat /\ m > 0 /\ m <= n + 4 /\ Len(q) = (n + 4) - m
      /\ \A i \in 1 .. m : p[i] = b[i]
      /\ q # <<>> => Head(q) = b[m + 1] /\ m < n + 4
      /\ q = <<>> <=> m = n + 4
    <2>1. p \o q = b /\ Len(p \o q) = m + Len(q) /\ m \in Nat /\ Len(q) \in Nat
        OBVIOUS
    <2>2. m > 0
        BY ShortSequences
    <2>3. \A i \in 1 .. m : (p \o q)[i] = p[i]
        OBVIOUS
    <2>4. ASSUME q # <<>> PROVE Len(q) > 0 /\ Head(q) = (p \o q)[m + 1]
        BY <2>4
    <2>5. q = <<>> => Len(q) = 0
        OBVIOUS
    <2> HIDE DEF b, n, m
    <2>6. QED
        BY <1>1, <2>1, <2>2, <2>3, <2>4, <2>5
<1>3. \A k, v : Line(k, v).kind = k /\ Line(k, v).value = v
    BY DEF Line
<1>4. /\ b[1].kind = "BEGIN" /\ b[2].kind = "WORKLOAD" /\ b[2].value = o.workload
      /\ b[3].kind = "INFRASTRUCTURE" /\ (b[3].value = "ok" <=> n = 0)
      /\ \A i \in 4 .. n + 3 : b[i].kind = "FAILURE" /\ b[i].value = o.failures[i - 3]
      /\ b[n + 4].kind = "END"
    <2> HIDE DEF b, n
    <2>1. QED
        BY <1>1, <1>3 DEF Marker
<1>5. \A i \in 1 .. n + 4 : i = 1 \/ i = 2 \/ i = 3 \/ i \in 4 .. n + 3 \/ i = n + 4
    BY <1>1
<1>6. /\ n = 0 => o.workload # "unknown"
      /\ \A i, j \in 1 .. n : o.failures[i] = o.failures[j] => i = j
    <2>1. Serializable(o) /\ o.failures \in Seq(Range(o.failures))
        BY OutcomesAssumption
    <2>2. DOMAIN o.failures = 1 .. n
        BY <2>1
    <2>3. QED
        BY <1>1, <2>1, <2>2 DEF Serializable, Succeeded
<1>7. DOMAIN p = 1 .. m
    OBVIOUS
<1> HIDE DEF b, n, m
<1>8. ~Malformed(p)
    <2>1. SUFFICES ASSUME NEW i \in 1 .. m PROVE ~BadLine(p, i)
        BY <1>7 DEF Malformed
    <2>2. p[i] = b[i] /\ i \in 1 .. n + 4
        BY <1>1, <1>2
    <2>3. m >= 3 => p[3] = b[3] /\ p[2] = b[2]
        BY <1>2
    <2>4. CASE i = 1 \/ i = 2
        BY <1>4, <2>2, <2>4 DEF BadLine
    <2>5. CASE i = 3
        <3>1. p[3] = b[3] /\ p[2] = b[2]
            BY <1>2, <2>3, <2>5
        <3>2. QED
            BY <1>4, <1>6, <2>5, <3>1 DEF BadLine, Claims
    <2>6. CASE i \in 4 .. n + 3
        <3>1. ~Claims(p)
            BY <1>1, <1>2, <1>4, <2>3, <2>6 DEF Claims
        <3>2. ASSUME NEW j \in 4 .. i - 1 PROVE p[j] # p[i]
            <4>1. j \in 4 .. n + 3 /\ j \in 1 .. m /\ j - 3 \in 1 .. n /\ i - 3 \in 1 .. n
                  /\ j - 3 # i - 3
                BY <1>1, <1>2, <2>6
            <4>2. p[j].value = o.failures[j - 3] /\ p[i].value = o.failures[i - 3]
                BY <1>2, <1>4, <2>2, <2>6, <4>1
            <4>3. QED
                BY <1>6, <4>1, <4>2
        <3>3. p[i].kind = "FAILURE" /\ i # 1 /\ i # 2 /\ i # 3
            BY <1>4, <2>2, <2>6
        <3>4. QED
            BY <3>1, <3>2, <3>3 DEF BadLine
    <2>7. CASE i = n + 4
        <3>1. m = n + 4 /\ m = Len(p)
            BY <1>1, <1>2, <2>7 DEF m
        <3>2. n = 0 => Claims(p)
            BY <1>1, <1>2, <1>4, <2>3, <3>1 DEF Claims
        <3>3. p[i].kind = "END" /\ i # 1 /\ i # 2 /\ i # 3 /\ (i = 4 => n = 0)
            BY <1>1, <1>4, <2>2, <2>7
        <3>4. QED
            BY <1>1, <2>7, <3>1, <3>2, <3>3 DEF BadLine
    <2>8. QED
        BY <1>5, <2>2, <2>4, <2>5, <2>6, <2>7
<1>9. Complete(p) <=> q = <<>>
    <2>1. m \in 1 .. m /\ p[m] = b[m] /\ m \in 1 .. n + 4
        BY <1>1, <1>2
    <2>2. b[m].kind = "END" <=> m = n + 4
        BY <1>1, <1>4, <1>5, <2>1
    <2>3. QED
        BY <1>1, <1>2, <2>1, <2>2 DEF Complete, m
<1>10. ASSUME q = <<>> PROVE Parsed(p) = o
    <2>1. o = Outcome(o.workload, o.failures) /\ o.failures \in Seq(Range(o.failures))
        BY OutcomesAssumption
    <2>2. o.failures = [i \in 1 .. n |-> o.failures[i]]
        BY <2>1 DEF n
    <2>3. m = n + 4 /\ Len(p) - 4 = n
        BY <1>1, <1>2, <1>10 DEF m
    <2>4. \A i \in 1 .. n : p[i + 3].value = o.failures[i]
        <3>1. ASSUME NEW i \in 1 .. n PROVE p[i + 3].value = o.failures[i]
            <4>1. i + 3 \in 4 .. n + 3 /\ i + 3 \in 1 .. m /\ (i + 3) - 3 = i
                BY <1>1, <2>3
            <4>2. QED
                BY <1>2, <1>4, <4>1
        <3>2. QED
            BY <3>1
    <2>5. [i \in 1 .. n |-> p[i + 3].value] = [i \in 1 .. n |-> o.failures[i]]
        BY <2>4
    <2>6. p[2].value = o.workload
        BY <1>1, <1>2, <1>4, <2>3
    <2>7. QED
        BY <2>1, <2>2, <2>3, <2>5, <2>6 DEF Parsed
<1>11. ASSUME q # <<>>
       PROVE  Head(q).kind # "BEGIN" /\ (Head(q).kind \in Finals => Head(q).kind = "END")
    <2>1. Head(q) = b[m + 1] /\ m + 1 \in 1 .. n + 4 /\ m + 1 # 1
        BY <1>1, <1>2, <1>11
    <2>2. QED
        BY <1>4, <1>5, <2>1 DEF Finals
<1>12. QED
    BY <1>8, <1>9, <1>10, <1>11

LEMMA StreamInit == Init => StreamInv
<1> SUFFICES ASSUME Init PROVE StreamInv
    OBVIOUS
<1>1. Control
    BY ControlInit
<1>2. responses = <<>> /\ answers = <<>> /\ parser = <<>> /\ block = "none" /\ ending = "none"
      /\ delivered = "none" /\ link = "none" /\ client = "connect" /\ server = "poll"
    BY DEF Init
<1>3. <<>> \in Seq(AnswerLines) /\ Len(<<>>) = 0
    BY ShortSequences
<1>4. Stream = <<>>
    BY <1>2, <1>3, EmptyJoined DEF Stream
<1>5. WellFormed(<<>>, "none") /\ FinalIsLast(<<>>)
    BY DEF WellFormed, FinalIsLast
<1>6. Reading(block, parser, Stream)
    BY <1>2, <1>3, <1>4, <1>5 DEF Reading
<1>7. QED
    BY <1>1, <1>2, <1>3, <1>4, <1>5, <1>6
       DEF StreamInv, ReportIsTrue, LossMeansNoAnswer, LastResponse, Alive

-----------------------------------------------------------------------------
(* Reading the answers *)

LEMMA WellFormedTail ==
    ASSUME NEW a \in Seq(AnswerLines), a # <<>>, NEW b, WellFormed(a, b)
    PROVE  /\ Head(a).kind \in AnswerKinds
           /\ Head(a).kind = "STATUS_END" <=> b = "status"
           /\ WellFormed(Tail(a), IF Head(a).kind = "STATUS_BEGIN" THEN "status" ELSE "none")
<1>1. /\ Len(a) \in Nat /\ Len(a) > 0 /\ Len(Tail(a)) = Len(a) - 1 /\ Head(a) = a[1]
      /\ \A i \in 1 .. Len(a) - 1 : Tail(a)[i] = a[i + 1]
    BY ShortSequences
<1>2. /\ \A i \in 1 .. Len(a) :
            /\ a[i].kind \in AnswerKinds
            /\ a[i].kind = "STATUS_END"
                  <=> IF i = 1 THEN b = "status" ELSE a[i - 1].kind = "STATUS_BEGIN"
      /\ a[Len(a)].kind # "STATUS_BEGIN"
    BY <1>1 DEF WellFormed
<1>3. a[1].kind \in AnswerKinds /\ (a[1].kind = "STATUS_END" <=> b = "status")
    BY <1>1, <1>2
<1> DEFINE c == IF a[1].kind = "STATUS_BEGIN" THEN "status" ELSE "none"
<1>4. ASSUME NEW i \in 1 .. Len(Tail(a))
      PROVE  /\ Tail(a)[i].kind \in AnswerKinds
             /\ Tail(a)[i].kind = "STATUS_END"
                   <=> IF i = 1 THEN c = "status" ELSE Tail(a)[i - 1].kind = "STATUS_BEGIN"
    <2>1. i + 1 \in 1 .. Len(a) /\ i + 1 # 1 /\ (i + 1) - 1 = i /\ Tail(a)[i] = a[i + 1]
        BY <1>1
    <2>2. a[i + 1].kind \in AnswerKinds
          /\ (a[i + 1].kind = "STATUS_END" <=> a[i].kind = "STATUS_BEGIN")
        BY <1>2, <2>1
    <2>3. i # 1 => Tail(a)[i - 1] = a[i]
        BY <1>1
    <2>4. QED
        BY <2>1, <2>2, <2>3
<1>5. c = "status" => Len(Tail(a)) > 0
    BY <1>1, <1>2
<1>6. Len(Tail(a)) > 0 => Tail(a)[Len(Tail(a))].kind # "STATUS_BEGIN"
    BY <1>1, <1>2
<1>7. WellFormed(Tail(a), c)
    BY <1>4, <1>5, <1>6 DEF WellFormed
<1>8. QED
    BY <1>1, <1>3, <1>7

(* One line of the stream: the block, the confirmation or the answer it is  *)
(* part of.                                                                 *)
LineRead(t, q, r) ==
    /\ t = [block |-> t.block, parser |-> t.parser, ending |-> t.ending, reported |-> r]
    /\ t.parser \in Seq(AnswerLines)
    /\ t.ending \in {"none", "detached", "refused"}
    /\ t.ending = "none" => /\ Reading(t.block, t.parser, Tail(q))
                            /\ Head(q).kind \notin {"DETACHED", "ERROR attached"}
                            /\ Head(q).kind = "END" => t.block = "outcome"
    /\ t.ending = "detached" => Head(q).kind = "DETACHED"
    /\ t.ending = "refused" => Head(q).kind = "ERROR attached"
    /\ t.block = "outcome" => t.parser # <<>> /\ t.parser[Len(t.parser)] = Head(q)

LEMMA ReadOf ==
    ASSUME NEW b, NEW p \in Seq(AnswerLines), NEW e \in {"none", "detached", "refused"}, NEW r,
           NEW q,
           /\ e = "none" => /\ Reading(b, p, Tail(q))
                            /\ Head(q).kind \notin {"DETACHED", "ERROR attached"}
                            /\ Head(q).kind = "END" => b = "outcome"
           /\ e = "detached" => Head(q).kind = "DETACHED"
           /\ e = "refused" => Head(q).kind = "ERROR attached"
           /\ b = "outcome" => p # <<>> /\ p[Len(p)] = Head(q)
    PROVE  LineRead([block |-> b, parser |-> p, ending |-> e, reported |-> r], q, r)
BY DEF LineRead

LEMMA OneLine ==
    ASSUME NEW b, NEW p \in Seq(AnswerLines), NEW q \in Seq(AnswerLines), NEW r, q # <<>>,
           Reading(b, p, q)
    PROVE  LineRead(HandleLine([block |-> b, parser |-> p, ending |-> "none", reported |-> r],
                               Head(q)), q, r)
<1> DEFINE s == [block |-> b, parser |-> p, ending |-> "none", reported |-> r]
           t == HandleLine(s, Head(q))
<1>1. /\ Head(q) \in AnswerLines /\ Tail(q) \in Seq(AnswerLines)
      /\ Append(p, Head(q)) \in Seq(AnswerLines) /\ Append(p, Head(q)) # <<>>
      /\ Append(p, Head(q))[Len(Append(p, Head(q)))] = Head(q)
    <2>1. Head(q) \in AnswerLines /\ Tail(q) \in Seq(AnswerLines)
        OBVIOUS
    <2> DEFINE x == Head(q)
    <2> HIDE DEF x
    <2>2. ASSUME x \in AnswerLines
          PROVE  /\ Append(p, x) \in Seq(AnswerLines) /\ Append(p, x) # <<>>
                 /\ Append(p, x)[Len(Append(p, x))] = x
        BY <2>2
    <2>3. QED
        BY <2>1, <2>2 DEF x
<1>2. CASE b = "outcome"
    <2>1. /\ p # <<>> /\ Publishing /\ p \o q = Serialize(published) /\ published \in Outcomes
        BY <1>2 DEF Reading, Publishing
    <2>2. Append(p, Head(q)) \o Tail(q) = Serialize(published)
        BY <2>1, MoveHead
    <2>3. t = [block |-> b, parser |-> Append(p, Head(q)), ending |-> "none", reported |-> r]
        BY <1>2 DEF HandleLine
    <2>4. Reading("outcome", Append(p, Head(q)), Tail(q))
        BY <1>1, <2>1, <2>2 DEF Reading
    <2>5. Head(q).kind \notin {"DETACHED", "ERROR attached"}
        BY <2>1, PartOfBlock DEF Finals
    <2> DEFINE u == Append(p, Head(q))
    <2> HIDE DEF u
    <2>6. QED
        BY <1>1, <1>2, <2>3, <2>4, <2>5, ReadOf DEF u
<1>3. CASE b # "outcome"
    <2>1. PICK a \in Seq(AnswerLines) :
             WellFormed(a, b) /\ (q = a \/ (Publishing /\ q = a \o Serialize(published)))
        BY <1>3 DEF Reading
    <2>2. b \in {"none", "status"} /\ p = <<>>
        BY <1>3 DEF Reading
    <2>3. CASE a = <<>>
        <3>1. b = "none" /\ Publishing /\ published \in Outcomes
              /\ q = <<>> \o Serialize(published)
            BY <2>1, <2>2, <2>3 DEF WellFormed, Publishing
        <3>2. q = Serialize(published) /\ Head(q) = Marker("BEGIN")
            <4>1. Serialize(published) \in Seq(AnswerLines) /\ Serialize(published)[1] = Marker("BEGIN")
                BY <3>1, BlockShape
            <4>2. q = Serialize(published)
                BY <3>1, <4>1, EmptyJoined
            <4>3. QED
                BY <4>1, <4>2
        <3>3. Head(q).kind = "BEGIN"
            BY <3>2 DEF Marker, Line
        <3>4. t = [block |-> "outcome", parser |-> <<Head(q)>>, ending |-> "none", reported |-> r]
            BY <3>1, <3>3 DEF HandleLine
        <3>5. <<Head(q)>> \in Seq(AnswerLines) /\ <<Head(q)>> # <<>>
              /\ <<Head(q)>>[Len(<<Head(q)>>)] = Head(q) /\ Len(<<Head(q)>>) = 1
            BY <1>1, ShortSequences
        <3>6. <<Head(q)>> \o Tail(q) = q
            <4>1. <<Head(q)>> = Append(<<>>, Head(q)) /\ <<>> \in Seq(AnswerLines)
                BY <1>1
            <4>2. Append(<<>>, Head(q)) \o Tail(q) = <<>> \o q
                BY <4>1, MoveHead
            <4>3. <<>> \o q = q
                BY EmptyJoined
            <4>4. QED
                BY <4>1, <4>2, <4>3
        <3>7. Reading("outcome", <<Head(q)>>, Tail(q))
            BY <3>1, <3>2, <3>5, <3>6 DEF Reading
        <3>8. QED
            BY <3>3, <3>4, <3>5, <3>7, ReadOf
    <2>4. CASE a # <<>>
        <3>1. Head(q) = Head(a) /\ Tail(a) \in Seq(AnswerLines)
              /\ (Tail(q) = Tail(a) \/ (Publishing /\ Tail(q) = Tail(a) \o Serialize(published)))
            <4>1. CASE q = a
                BY <2>4, <4>1, ShortSequences
            <4>2. CASE Publishing /\ q = a \o Serialize(published)
                <5>1. Serialize(published) \in Seq(AnswerLines)
                    BY <4>2, BlockShape DEF Publishing
                <5>2. QED
                    BY <2>4, <4>2, <5>1, TailOfJoined
            <4>3. QED
                BY <2>1, <4>1, <4>2
        <3> DEFINE k == Head(q).kind
                   c == IF k = "STATUS_BEGIN" THEN "status" ELSE "none"
        <3>2. k \in AnswerKinds /\ (k = "STATUS_END" <=> b = "status") /\ WellFormed(Tail(a), c)
            BY <2>1, <2>4, <3>1, WellFormedTail
        <3>3. Reading(c, p, Tail(q))
            BY <2>2, <3>1, <3>2 DEF Reading
        <3>4. CASE k = "DETACHED"
            <4>1. t = [block |-> b, parser |-> p, ending |-> "detached", reported |-> r]
                BY <1>3, <2>2, <3>2, <3>4 DEF HandleLine
            <4>2. QED
                BY <1>3, <3>4, <4>1, ReadOf
        <3>5. CASE k = "ERROR attached"
            <4>1. t = [block |-> b, parser |-> p, ending |-> "refused", reported |-> r]
                BY <1>3, <2>2, <3>2, <3>5 DEF HandleLine
            <4>2. QED
                BY <1>3, <3>5, <4>1, ReadOf
        <3>6. CASE k \notin {"DETACHED", "ERROR attached"}
            <4>0. k \in {"ATTACHED", "PROFILE_CHANGED", "ERROR", "STATUS_BEGIN", "STATUS_END"}
                BY <3>2, <3>6 DEF AnswerKinds
            <4>1. t = [block |-> c, parser |-> p, ending |-> "none", reported |-> r]
                BY <1>3, <2>2, <3>2, <4>0 DEF HandleLine
            <4>2. c # "outcome" /\ Head(q).kind # "END"
                BY <4>0
            <4> HIDE DEF c
            <4>3. QED
                BY <3>3, <3>6, <4>1, <4>2, ReadOf
        <3>7. QED
            BY <3>4, <3>5, <3>6
    <2>5. QED
        BY <2>3, <2>4
<1>4. QED
    BY <1>2, <1>3

LEMMA FromALine ==
    ASSUME NEW X, NEW q \in Seq(X), NEW i \in 1 .. Len(q)
    PROVE  /\ SubSeq(q, i, Len(q)) \in Seq(X) /\ SubSeq(q, i, Len(q)) # <<>>
           /\ Head(SubSeq(q, i, Len(q))) = q[i]
           /\ Tail(SubSeq(q, i, Len(q))) = SubSeq(q, i + 1, Len(q))
           /\ i = 1 => SubSeq(q, i, Len(q)) = q
<1> DEFINE s == SubSeq(q, i, Len(q))
           t == SubSeq(q, i + 1, Len(q))
<1>1. /\ s \in Seq(X) /\ Len(s) = Len(q) - i + 1 /\ Len(s) > 0 /\ s # <<>>
      /\ \A j \in 1 .. Len(s) : s[j] = q[i + j - 1]
    <2>1. s \in Seq(X) /\ Len(s) = Len(q) - i + 1 /\ \A j \in 1 .. Len(s) : s[j] = q[i + j - 1]
        OBVIOUS
    <2>2. Len(s) > 0
        BY <2>1
    <2>3. s # <<>>
        BY <2>2
    <2>4. QED
        BY <2>1, <2>2, <2>3
<1>2. t \in Seq(X) /\ Len(t) = Len(q) - i /\ \A j \in 1 .. Len(t) : t[j] = q[i + j]
    OBVIOUS
<1>3. Head(s) = q[i]
    <2>1. 1 \in 1 .. Len(s) /\ i + 1 - 1 = i
        BY <1>1
    <2>2. Head(s) = s[1]
        BY <1>1, ShortSequences
    <2>3. QED
        BY <1>1, <2>1, <2>2
<1>4. Tail(s) = t
    <2>1. /\ Tail(s) \in Seq(X) /\ Len(Tail(s)) = Len(t)
          /\ \A j \in 1 .. Len(s) - 1 : Tail(s)[j] = s[j + 1]
        BY <1>1, <1>2, ShortSequences
    <2>2. ASSUME NEW j \in 1 .. Len(t) PROVE Tail(s)[j] = t[j]
        <3>1. j \in 1 .. Len(s) - 1 /\ j + 1 \in 1 .. Len(s) /\ i + (j + 1) - 1 = i + j
            BY <1>1, <1>2
        <3>2. QED
            BY <1>1, <1>2, <2>1, <3>1
    <2>3. QED
        BY <1>2, <2>1, <2>2, SameSequence
<1>5. i = 1 => s = q
    OBVIOUS
<1> HIDE DEF s, t
<1>6. QED
    BY <1>1, <1>3, <1>4, <1>5 DEF s, t

(* All the lines of one read: the state is that after the last of them. *)
LEMMA ManyLines ==
    ASSUME NEW b, NEW p \in Seq(AnswerLines), NEW q \in Seq(AnswerLines), NEW r,
           NEW n \in 1 .. Len(q), Reading(b, p, q), FinalIsLast(q)
    PROVE  LineRead(FoldLeft(HandleLine,
                             [block |-> b, parser |-> p, ending |-> "none", reported |-> r],
                             SubSeq(q, 1, n)),
                    SubSeq(q, n, Len(q)), r)
<1> DEFINE s0 == [block |-> b, parser |-> p, ending |-> "none", reported |-> r]
           l == SubSeq(q, 1, n)
           rest(i) == SubSeq(q, i, Len(q))
<1>1. l \in Seq(AnswerLines) /\ Len(l) = n /\ \A i \in 1 .. n : l[i] = q[i]
    BY TakeFront
<1>2. PICK v : H!IsTrace(s0, l, v) /\ H!Fold(s0, l) = v[Len(l)]
    BY <1>1, H!FoldTrace
<1>3. v[0] = s0 /\ \A i \in 0 .. n - 1 : v[i + 1] = HandleLine(v[i], q[i + 1])
    <2>1. \A i \in 0 .. n - 1 : i + 1 \in 1 .. n
        OBVIOUS
    <2>2. QED
        BY <1>1, <1>2, <2>1 DEF H!IsTrace
<1>4. \A i \in 1 .. n : /\ rest(i) \in Seq(AnswerLines) /\ rest(i) # <<>> /\ Head(rest(i)) = q[i]
                        /\ Tail(rest(i)) = rest(i + 1)
                        /\ i = 1 => rest(i) = q
    <2>1. ASSUME NEW i \in 1 .. n
          PROVE  /\ rest(i) \in Seq(AnswerLines) /\ rest(i) # <<>> /\ Head(rest(i)) = q[i]
                 /\ Tail(rest(i)) = rest(i + 1) /\ (i = 1 => rest(i) = q)
        <3>1. i \in 1 .. Len(q)
            OBVIOUS
        <3>2. QED
            BY <3>1, FromALine
    <2>2. QED
        BY <2>1
<1> HIDE DEF rest
<1> DEFINE T == {i \in 0 .. n : i # 0 => LineRead(v[i], rest(i), r)}
<1>5. 0 \in T
    OBVIOUS
<1>6. ASSUME NEW i \in 0 .. n - 1, i \in T PROVE i + 1 \in T
    <2>1. i + 1 \in 1 .. n /\ i + 1 \in 0 .. n /\ v[i + 1] = HandleLine(v[i], q[i + 1])
        BY <1>3
    <2>2. CASE i = 0
        <3>1. v[1] = HandleLine(s0, Head(q)) /\ q # <<>> /\ rest(1) = q
            BY <1>3, <1>4, <2>1, <2>2
        <3>2. LineRead(v[1], q, r)
            BY <3>1, OneLine
        <3>3. QED
            BY <2>1, <2>2, <3>1, <3>2
    <2>3. CASE i # 0
        <3>1. i \in 1 .. n /\ LineRead(v[i], rest(i), r)
            BY <1>6, <2>3
        <3>2. v[i].ending = "none"
            <4>1. i \in 1 .. Len(q) /\ i # Len(q)
                <5>1. Len(q) \in Nat /\ n <= Len(q) /\ i \in 1 .. n - 1 /\ n \in Int
                    BY <2>3
                <5>2. QED
                    BY <5>1
            <4>2. q[i].kind \notin Finals
                BY <4>1 DEF FinalIsLast
            <4>3. Head(rest(i)) = q[i]
                BY <1>4, <3>1
            <4>4. QED
                BY <3>1, <4>2, <4>3 DEF LineRead, Finals
        <3>3. /\ v[i] = [block |-> v[i].block, parser |-> v[i].parser, ending |-> "none",
                         reported |-> r]
              /\ v[i].parser \in Seq(AnswerLines)
              /\ Reading(v[i].block, v[i].parser, rest(i + 1))
            BY <1>4, <3>1, <3>2 DEF LineRead
        <3>4. rest(i + 1) \in Seq(AnswerLines) /\ rest(i + 1) # <<>> /\ Head(rest(i + 1)) = q[i + 1]
            BY <1>4, <2>1
        <3>5. LineRead(HandleLine(v[i], Head(rest(i + 1))), rest(i + 1), r)
            BY <3>3, <3>4, OneLine
        <3>6. QED
            BY <2>1, <3>4, <3>5
    <2>4. QED
        BY <2>2, <2>3
<1>7. n \in Nat /\ n # 0 /\ n \in 0 .. n
    OBVIOUS
<1> HIDE DEF T
<1>8. n \in T
    BY <1>5, <1>6, <1>7, H!CountingUp
<1>9. LineRead(v[n], rest(n), r)
    BY <1>7, <1>8 DEF T
<1>10. FoldLeft(HandleLine, s0, l) = H!Fold(s0, l)
    BY DEF FoldLeft, MapThenFoldSet, H!Fold, H!Largest, Max
<1>11. QED
    BY <1>1, <1>2, <1>9, <1>10 DEF rest

LEMMA JoinedFacts ==
    ASSUME NEW X, NEW r \in Seq(X), NEW a \in Seq(X)
    PROVE  /\ r \o a \in Seq(X) /\ Len(r \o a) = Len(r) + Len(a)
           /\ Len(r) \in Nat /\ Len(a) \in Nat
           /\ \A i \in 1 .. Len(r) : (r \o a)[i] = r[i]
           /\ \A i \in 1 .. Len(a) : (r \o a)[Len(r) + i] = a[i]
OBVIOUS

LEMMA StreamOfReadResponses == StreamInv /\ Control' /\ ReadResponses => StreamInv'
<1> SUFFICES ASSUME StreamInv, Control', ReadResponses PROVE StreamInv'
    OBVIOUS
<1>1. /\ client = "socket" /\ ending = "none" /\ Control
      /\ responses \in Seq(AnswerLines) /\ parser \in Seq(AnswerLines)
      /\ answers \in Seq(AnswerLines) /\ Reading(block, parser, Stream) /\ FinalIsLast(Stream)
      /\ delivered = "detached" <=> LastResponse("DETACHED")
      /\ delivered = "outcome" <=> LastResponse("END")
      /\ (\E i \in 1 .. Len(responses) : responses[i].kind \in {"DETACHED", "ERROR attached"})
            => ~Alive
    BY DEF ReadResponses, StreamInv, Control
<1>2. /\ UNCHANGED <<answers, delivered, published, server, link>>
      /\ delivered = "outcome" => Publishing /\ answers = <<>>
      /\ server = "publish" => published \in Outcomes
    BY DEF ReadResponses, serverVars, StreamInv
<1> DEFINE s0 == [block |-> block, parser |-> parser, ending |-> "none", reported |-> reported]
           s1(n) == FoldLeft(HandleLine, s0, SubSeq(responses, 1, n))
<1>3a. \A n : HandleResponses(SubSeq(responses, 1, n)) = Receive(s1(n))
    BY <1>1 DEF HandleResponses
<1> HIDE DEF s0
<1>3b. \E n \in 1 .. Len(responses) :
          LET s == HandleResponses(SubSeq(responses, 1, n))
          IN  /\ responses' = SubSeq(responses, n + 1, Len(responses))
              /\ block' = s.block /\ parser' = s.parser /\ reported' = s.reported
              /\ ending' = Verdict(s)
              /\ client' = CASE Verdict(s) # "none" -> "done"
                            [] Verdict(s) = "none" /\ "stdin" \in events -> "stdin"
                            [] OTHER -> "poll"
    BY DEF ReadResponses, Readable
<1>3. PICK n \in 1 .. Len(responses) :
         LET s == Receive(s1(n))
         IN  /\ responses' = SubSeq(responses, n + 1, Len(responses))
             /\ block' = s.block /\ parser' = s.parser /\ reported' = s.reported
             /\ ending' = Verdict(s)
             /\ client' = CASE Verdict(s) # "none" -> "done"
                           [] Verdict(s) = "none" /\ "stdin" \in events -> "stdin"
                           [] OTHER -> "poll"
    BY <1>3a, <1>3b
<1>4. /\ Stream \in Seq(AnswerLines) /\ Len(Stream) = Len(responses) + Len(answers)
      /\ n \in 1 .. Len(Stream) /\ SubSeq(Stream, 1, n) = SubSeq(responses, 1, n)
      /\ \A i \in 1 .. Len(responses) : Stream[i] = responses[i]
      /\ Len(responses) \in Nat /\ Len(answers) \in Nat
    <2>1. /\ Stream \in Seq(AnswerLines) /\ Len(Stream) = Len(responses) + Len(answers)
          /\ \A i \in 1 .. Len(responses) : Stream[i] = responses[i]
          /\ Len(responses) \in Nat /\ Len(answers) \in Nat
        BY <1>1, JoinedFacts DEF Stream
    <2>2. n \in 1 .. Len(Stream)
        BY <2>1
    <2>3. SubSeq(Stream, 1, n) = SubSeq(responses, 1, n)
        <3>1. /\ SubSeq(Stream, 1, n) \in Seq(AnswerLines) /\ Len(SubSeq(Stream, 1, n)) = n
              /\ \A i \in 1 .. n : SubSeq(Stream, 1, n)[i] = Stream[i]
            BY <2>1, <2>2, TakeFront
        <3>2. /\ SubSeq(responses, 1, n) \in Seq(AnswerLines) /\ Len(SubSeq(responses, 1, n)) = n
              /\ \A i \in 1 .. n : SubSeq(responses, 1, n)[i] = responses[i]
            BY <1>1, TakeFront
        <3>3. \A i \in 1 .. n : i \in 1 .. Len(responses)
            BY <2>1
        <3>4. QED
            BY <2>1, <3>1, <3>2, <3>3, SameSequence
    <2>4. QED
        BY <2>1, <2>2, <2>3
<1>5. /\ responses' \in Seq(AnswerLines) /\ Len(responses') = Len(responses) - n
      /\ \A i \in 1 .. Len(responses') : responses'[i] = responses[n + i]
    <2> DEFINE r == SubSeq(responses, n + 1, Len(responses))
    <2>1. /\ r \in Seq(AnswerLines) /\ Len(r) = Len(responses) - n
          /\ \A i \in 1 .. Len(responses) - n : r[i] = responses[n + i]
        BY <1>1, TakeFront
    <2>2. responses' = r
        BY <1>3
    <2> HIDE DEF r
    <2>3. QED
        BY <2>1, <2>2
<1>6. /\ Stream' \in Seq(AnswerLines)
      /\ Stream' = SubSeq(Stream, n + 1, Len(Stream))
      /\ Head(SubSeq(Stream, n, Len(Stream))) = responses[n]
      /\ Tail(SubSeq(Stream, n, Len(Stream))) = Stream'
    <2>1. Stream' = responses' \o answers
        BY <1>2 DEF Stream
    <2>2. Stream' = SubSeq(Stream, n + 1, Len(Stream))
        BY <1>1, <1>3, <2>1, TakeFrontOfTwo DEF Stream
    <2>3. responses' \o answers \in Seq(AnswerLines)
        BY <1>1, <1>5, JoinedFacts
    <2>4. QED
        BY <1>4, <2>1, <2>2, <2>3, FromALine
<1>7. Len(Stream') = Len(Stream) - n /\ \A i \in 1 .. Len(Stream') : Stream'[i] = Stream[n + i]
    BY <1>4, <1>6
<1>8. Len(Stream') = 0 <=> Stream' = <<>>
    BY <1>6, ShortSequences
<1> DEFINE t == s1(n)
           s == Receive(t)
<1>9. LineRead(t, SubSeq(Stream, n, Len(Stream)), reported)
    BY <1>1, <1>4, ManyLines DEF s0
<1> HIDE DEF t, s
<1>10. /\ t = [block |-> t.block, parser |-> t.parser, ending |-> t.ending, reported |-> reported]
       /\ t.parser \in Seq(AnswerLines)
       /\ t.ending \in {"none", "detached", "refused"}
       /\ t.ending = "none" => /\ Reading(t.block, t.parser, Stream')
                               /\ responses[n].kind \notin {"DETACHED", "ERROR attached"}
                               /\ responses[n].kind = "END" => t.block = "outcome"
       /\ t.ending = "detached" => responses[n].kind = "DETACHED"
       /\ t.ending = "refused" => responses[n].kind = "ERROR attached"
       /\ t.block = "outcome" => t.parser # <<>> /\ t.parser[Len(t.parser)] = responses[n]
    BY <1>6, <1>9 DEF LineRead
<1>11. responses[n].kind \in Finals => /\ n = Len(responses) /\ Stream' = <<>>
                                       /\ LastResponse(responses[n].kind)
    <2>1. SUFFICES ASSUME responses[n].kind \in Finals
                   PROVE  n = Len(Stream) /\ n = Len(responses)
        BY <1>4, <1>7, <1>8 DEF LastResponse
    <2>2. Stream[n].kind \in Finals
        BY <1>4, <2>1
    <2>3. n = Len(Stream)
        BY <1>1, <1>4, <2>2 DEF FinalIsLast
    <2>4. QED
        BY <1>4, <2>3
<1>12. /\ block' = s.block /\ parser' = s.parser /\ reported' = s.reported
       /\ ending' = (IF s.ending = "none" /\ "error" \in events THEN "socket_error" ELSE s.ending)
       /\ client' = "done" <=> ending' # "none"
    BY <1>3 DEF s, t, Verdict
<1>13. CASE t.ending \in {"detached", "refused"}
    <2>1. s = t
        BY <1>13 DEF s, Receive
    <2>2. ending' = t.ending /\ client' = "done" /\ parser' \in Seq(AnswerLines)
        BY <1>10, <1>12, <1>13, <2>1
    <2>3. ending' = "detached" => delivered = "detached"
        BY <1>1, <1>10, <1>11, <2>2 DEF Finals
    <2>4. ReportIsTrue' /\ LossMeansNoAnswer' /\ (ending' # "outcome")
        BY <1>2, <1>13, <2>2, <2>3 DEF ReportIsTrue, LossMeansNoAnswer
    <2>5. QED
        BY <1>2, <1>5, <2>2, <2>4 DEF StreamInv, Publishing
<1>14. CASE t.ending = "none" /\ t.block = "outcome" /\ Stream' = <<>>
    <2>1. /\ t.parser # <<>> /\ Publishing /\ published \in Outcomes
          /\ t.parser \o Stream' = Serialize(published)
        BY <1>10, <1>14 DEF Reading, Publishing
    <2>2. ~Malformed(t.parser) /\ Complete(t.parser) /\ Parsed(t.parser) = published
        BY <1>6, <1>10, <1>14, <2>1, PartOfBlock
    <2>3. s = [t EXCEPT !.ending = "outcome", !.reported = published]
        BY <1>14, <2>2 DEF s, Receive
    <2>4. s.ending = "outcome" /\ s.reported = published /\ s.parser = t.parser
        BY <1>10, <2>3
    <2>5. ending' = "outcome" /\ reported' = published /\ parser' = t.parser /\ client' = "done"
        BY <1>12, <2>4
    <2>6. responses[n].kind = "END"
        BY <1>10, <1>14, <2>2 DEF Complete
    <2>7. delivered = "outcome"
        BY <1>1, <1>11, <2>6 DEF Finals
    <2>8. ReportIsTrue' /\ LossMeansNoAnswer'
        BY <1>2, <2>5, <2>7 DEF ReportIsTrue, LossMeansNoAnswer
    <2>9. QED
        BY <1>2, <1>5, <1>10, <2>1, <2>5, <2>8 DEF StreamInv, Publishing
<1>15. CASE t.ending = "none" /\ (t.block = "outcome" => Stream' # <<>>)
    <2>1. s = t
        <3>1. CASE t.block = "outcome"
            <4>1. /\ t.parser # <<>> /\ Publishing /\ published \in Outcomes
                  /\ t.parser \o Stream' = Serialize(published) /\ Stream' # <<>>
                BY <1>10, <1>15, <3>1 DEF Reading, Publishing
            <4>2. ~Malformed(t.parser) /\ ~Complete(t.parser)
                BY <1>6, <1>10, <4>1, PartOfBlock
            <4>3. QED
                BY <4>2 DEF s, Receive
        <3>2. CASE t.block # "outcome"
            BY <3>2 DEF s, Receive
        <3>3. QED
            BY <3>1, <3>2
    <2>2. /\ block' = t.block /\ parser' = t.parser
          /\ ending' \in {"none", "socket_error"} /\ (client' # "done" => ending' = "none")
        BY <1>12, <1>15, <2>1
    <2>3. Reading(block', parser', Stream')
        BY <1>10, <1>15, <2>2
    <2>4. Reading(block, parser, Stream)'
        BY <1>2, <2>3 DEF Reading, Publishing
    <2>5. FinalIsLast(Stream')
        <3>1. SUFFICES ASSUME NEW i \in 1 .. Len(Stream'), Stream'[i].kind \in Finals
                       PROVE  i = Len(Stream')
            BY DEF FinalIsLast
        <3>2. n + i \in 1 .. Len(Stream) /\ Stream[n + i].kind \in Finals
            BY <1>4, <1>7, <3>1
        <3>3. n + i = Len(Stream)
            BY <1>1, <3>2 DEF FinalIsLast
        <3>4. QED
            BY <1>4, <1>7, <3>3
    <2>6. responses[n].kind \notin {"DETACHED", "END"}
        BY <1>10, <1>11, <1>15 DEF Finals
    <2>7. ASSUME NEW k \in {"DETACHED", "END"} PROVE LastResponse(k)' <=> LastResponse(k)
        <3>1. CASE Len(responses') = 0
            <4>1. n = Len(responses)
                BY <1>4, <1>5, <3>1
            <4>2. QED
                BY <2>6, <3>1, <4>1 DEF LastResponse
        <3>2. CASE Len(responses') # 0
            <4>1. /\ Len(responses') > 0 /\ Len(responses) > 0
                  /\ Len(responses') \in 1 .. Len(responses')
                  /\ n + Len(responses') = Len(responses)
                BY <1>4, <1>5, <3>2
            <4>2. responses'[Len(responses')] = responses[Len(responses)]
                BY <1>5, <4>1
            <4>3. QED
                BY <4>1, <4>2 DEF LastResponse
        <3>3. QED
            BY <3>1, <3>2
    <2>8. /\ (delivered = "detached" <=> LastResponse("DETACHED"))'
          /\ (delivered = "outcome" <=> LastResponse("END"))'
        BY <1>1, <1>2, <2>7
    <2>9. (\E i \in 1 .. Len(responses') : responses'[i].kind \in {"DETACHED", "ERROR attached"})
              => ~Alive'
        <3>1. SUFFICES ASSUME NEW i \in 1 .. Len(responses'),
                              responses'[i].kind \in {"DETACHED", "ERROR attached"}
                       PROVE  ~Alive'
            OBVIOUS
        <3>2. n + i \in 1 .. Len(responses) /\ responses[n + i] = responses'[i]
            BY <1>4, <1>5
        <3>3. QED
            BY <1>1, <1>2, <3>1, <3>2 DEF Alive
    <2>10. ReportIsTrue' /\ LossMeansNoAnswer' /\ ending' # "outcome"
        BY <2>2 DEF ReportIsTrue, LossMeansNoAnswer
    <2>11. block' = "outcome" => Stream' # <<>>
        BY <1>15, <2>2
    <2>12. QED
        BY <1>2, <1>5, <1>10, <2>2, <2>4, <2>5, <2>8, <2>9, <2>10, <2>11 DEF StreamInv, Publishing
<1>16. QED
    BY <1>10, <1>13, <1>14, <1>15

LEMMA FinalOfJoined ==
    ASSUME NEW r \in Seq(AnswerLines), NEW a \in Seq(AnswerLines), FinalIsLast(a),
           \A i \in 1 .. Len(r) : r[i].kind \notin Finals
    PROVE  FinalIsLast(r \o a)
<1>1. SUFFICES ASSUME NEW i \in 1 .. Len(r \o a), (r \o a)[i].kind \in Finals
               PROVE  i = Len(r \o a)
    BY DEF FinalIsLast
<1>2. /\ Len(r \o a) = Len(r) + Len(a) /\ Len(r) \in Nat /\ Len(a) \in Nat
      /\ \A k \in 1 .. Len(r) : (r \o a)[k] = r[k]
      /\ \A k \in 1 .. Len(a) : (r \o a)[Len(r) + k] = a[k]
    BY JoinedFacts
<1>3. i \notin 1 .. Len(r)
    BY <1>1, <1>2
<1>4. i - Len(r) \in 1 .. Len(a) /\ Len(r) + (i - Len(r)) = i
    BY <1>2, <1>3
<1>5. a[i - Len(r)].kind \in Finals
    BY <1>1, <1>2, <1>4
<1>6. QED
    BY <1>2, <1>4, <1>5 DEF FinalIsLast

LEMMA WellFormedJoin ==
    ASSUME NEW a \in Seq(AnswerLines), NEW c \in Seq(AnswerLines), NEW b,
           WellFormed(a, b), WellFormed(c, "none"), c # <<>>
    PROVE  WellFormed(a \o c, b)
<1> DEFINE j == a \o c
<1>1. /\ j \in Seq(AnswerLines) /\ Len(j) = Len(a) + Len(c) /\ Len(a) \in Nat /\ Len(c) \in Nat
      /\ \A i \in 1 .. Len(a) : j[i] = a[i]
      /\ \A i \in 1 .. Len(c) : j[Len(a) + i] = c[i]
      /\ Len(c) > 0
    BY JoinedFacts, ShortSequences
<1> HIDE DEF j
<1>2. ASSUME NEW i \in 1 .. Len(j)
      PROVE  /\ j[i].kind \in AnswerKinds
             /\ j[i].kind = "STATUS_END"
                   <=> IF i = 1 THEN b = "status" ELSE j[i - 1].kind = "STATUS_BEGIN"
    <2>1. CASE i <= Len(a)
        <3>1. i \in 1 .. Len(a) /\ j[i] = a[i] /\ (i # 1 => j[i - 1] = a[i - 1])
            BY <1>1, <2>1
        <3>2. QED
            BY <3>1 DEF WellFormed
    <2>2. CASE i = Len(a) + 1
        <3>1. 1 \in 1 .. Len(c) /\ j[i] = c[1]
            BY <1>1, <2>2
        <3>2. j[i].kind \in AnswerKinds /\ j[i].kind # "STATUS_END"
            BY <3>1 DEF WellFormed
        <3>3. CASE i = 1
            <4>1. b # "status"
                BY <1>1, <2>2, <3>3 DEF WellFormed
            <4>2. QED
                BY <3>2, <3>3, <4>1
        <3>4. CASE i # 1
            <4>1. Len(a) > 0 /\ i - 1 = Len(a) /\ i - 1 \in 1 .. Len(a)
                BY <1>1, <2>2, <3>4
            <4>2. j[i - 1].kind # "STATUS_BEGIN"
                BY <1>1, <4>1 DEF WellFormed
            <4>3. QED
                BY <3>2, <3>4, <4>2
        <3>5. QED
            BY <3>3, <3>4
    <2>3. CASE i > Len(a) + 1
        <3> DEFINE k == i - Len(a)
        <3>1. /\ k \in 1 .. Len(c) /\ k # 1 /\ k - 1 \in 1 .. Len(c) /\ i # 1
              /\ Len(a) + k = i /\ Len(a) + (k - 1) = i - 1
            BY <1>1, <2>3
        <3> HIDE DEF k
        <3>2. j[i] = c[k] /\ j[i - 1] = c[k - 1]
            BY <1>1, <3>1
        <3>3. c[k].kind \in AnswerKinds
              /\ (c[k].kind = "STATUS_END" <=> c[k - 1].kind = "STATUS_BEGIN")
            BY <3>1 DEF WellFormed
        <3>4. QED
            BY <3>1, <3>2, <3>3
    <2>4. i <= Len(a) \/ i = Len(a) + 1 \/ i > Len(a) + 1
        BY <1>1
    <2>5. QED
        BY <2>1, <2>2, <2>3, <2>4
<1>3. Len(j) > 0 /\ j[Len(j)].kind # "STATUS_BEGIN"
    <2>1. Len(c) \in 1 .. Len(c) /\ j[Len(j)] = c[Len(c)]
        BY <1>1
    <2>2. QED
        BY <1>1, <2>1 DEF WellFormed
<1>4. QED
    BY <1>2, <1>3 DEF WellFormed, j

(* Every answer is well-formed. *)
LEMMA AnswersAreWellFormed ==
    /\ \A k \in AnswerKinds \ {"STATUS_BEGIN", "STATUS_END"} : WellFormed(<<Marker(k)>>, "none")
    /\ \A kind : \A a \in AnswersTo(kind) : WellFormed(a, "none")
<1>1. \A k \in AnswerKinds : Marker(k) \in AnswerLines /\ Marker(k).kind = k
    BY DEF AnswerLines, Marker, Line
<1>2. ASSUME NEW k \in AnswerKinds \ {"STATUS_BEGIN", "STATUS_END"}
      PROVE  WellFormed(<<Marker(k)>>, "none")
    <2>1. Len(<<Marker(k)>>) = 1 /\ <<Marker(k)>>[1].kind = k
        BY <1>1, ShortSequences
    <2>2. QED
        BY <2>1 DEF WellFormed
<1>3. LET a == <<Marker("STATUS_BEGIN"), Marker("STATUS_END")>>
      IN  WellFormed(a, "none")
    <2> DEFINE a == <<Marker("STATUS_BEGIN"), Marker("STATUS_END")>>
    <2>1. "STATUS_BEGIN" \in AnswerKinds /\ "STATUS_END" \in AnswerKinds
        BY DEF AnswerKinds
    <2>2. Len(a) = 2 /\ a[1].kind = "STATUS_BEGIN" /\ a[2].kind = "STATUS_END"
        BY <1>1, <2>1, ShortSequences
    <2> HIDE DEF a
    <2>3. \A i \in 1 .. Len(a) : i = 1 \/ (i = 2 /\ i - 1 = 1)
        BY <2>2
    <2>4. \A i \in 1 .. Len(a) :
             /\ a[i].kind \in AnswerKinds
             /\ a[i].kind = "STATUS_END"
                   <=> IF i = 1 THEN "none" = "status" ELSE a[i - 1].kind = "STATUS_BEGIN"
        BY <2>1, <2>2, <2>3
    <2>5. QED
        BY <2>2, <2>4 DEF WellFormed, a
<1>4. ASSUME NEW kind, NEW a \in AnswersTo(kind) PROVE WellFormed(a, "none")
    BY <1>2, <1>3 DEF AnswersTo, AnswerKinds
<1>5. QED
    BY <1>2, <1>4

-----------------------------------------------------------------------------
(* What the Supervisor and the others do to the stream *)

(* Before it publishes, the answers are only those to lines, and none of    *)
(* them closes while the connection stands.                                 *)
LEMMA BeforePublishing ==
    ASSUME StreamInv, client # "done", server \in {"poll", "handle"}, Alive
    PROVE  /\ ~Publishing /\ Stream = responses /\ answers = <<>>
           /\ block \in {"none", "status"} /\ parser = <<>> /\ WellFormed(responses, block)
           /\ \A i \in 1 .. Len(responses) : responses[i].kind \notin Finals
<1>1. /\ Control /\ Reading(block, parser, Stream) /\ responses \in Seq(AnswerLines)
      /\ (\E i \in 1 .. Len(responses) : responses[i].kind \in {"DETACHED", "ERROR attached"})
            => ~Alive
    BY DEF StreamInv
<1>2. ~Publishing /\ answers = <<>>
    BY <1>1 DEF Control, Publishing
<1>3. Stream = responses
    BY <1>1, <1>2, EmptyJoined DEF Stream
<1>4. block \in {"none", "status"} /\ parser = <<>> /\ WellFormed(responses, block)
    BY <1>1, <1>2, <1>3 DEF Reading
<1>5. \A i \in 1 .. Len(responses) : responses[i].kind \in AnswerKinds
    BY <1>4 DEF WellFormed
<1>6. \A i \in 1 .. Len(responses) : responses[i].kind \notin Finals
    BY <1>1, <1>5 DEF Finals, AnswerKinds
<1>7. QED
    BY <1>2, <1>3, <1>4, <1>6

(* A line is answered. *)
LEMMA StreamOfAnAnswer ==
    ASSUME StreamInv, Control', server \in {"poll", "handle"}, Alive,
           UNCHANGED <<clientVars, responses, published, delivered>>,
           server' \in {"poll", "handle", "send"},
           \/ answers' = answers
           \/ /\ answers' # <<>> /\ answers' \in Seq(AnswerLines)
              /\ FinalIsLast(answers') /\ WellFormed(answers', "none")
    PROVE  StreamInv'
<1>1. /\ ~Publishing /\ delivered # "outcome" /\ ending # "outcome" /\ Control
      /\ ReportIsTrue /\ LossMeansNoAnswer
      /\ responses \in Seq(AnswerLines) /\ parser \in Seq(AnswerLines)
    BY DEF StreamInv, Publishing
<1>2. UNCHANGED <<client, block, parser, ending, reported, responses, published, delivered>>
    BY DEF clientVars
<1>3. ReportIsTrue' /\ LossMeansNoAnswer'
    BY <1>1, <1>2 DEF ReportIsTrue, LossMeansNoAnswer
<1>4. ASSUME client # "done"
      PROVE  /\ Reading(block, parser, Stream)' /\ block # "outcome" /\ FinalIsLast(Stream)'
             /\ ~(\E i \in 1 .. Len(responses) : responses[i].kind \in {"DETACHED", "ERROR attached"})
             /\ delivered = "detached" <=> LastResponse("DETACHED")
             /\ delivered = "outcome" <=> LastResponse("END")
    <2>1. /\ Stream = responses /\ answers = <<>>
          /\ block \in {"none", "status"} /\ parser = <<>> /\ WellFormed(responses, block)
          /\ \A i \in 1 .. Len(responses) : responses[i].kind \notin Finals
        BY <1>4, BeforePublishing
    <2>2. CASE answers' = answers
        <3>1. Stream' = responses
            BY <1>2, <2>1, <2>2 DEF Stream
        <3>2. FinalIsLast(Stream')
            BY <2>1, <3>1 DEF FinalIsLast
        <3>3. Reading(block, parser, Stream)'
            BY <1>1, <1>2, <2>1, <3>1 DEF Reading
        <3>4. QED
            BY <1>4, <2>1, <3>2, <3>3 DEF StreamInv, Finals
    <2>3. CASE answers' # answers
        <3>1. /\ answers' # <<>> /\ answers' \in Seq(AnswerLines)
              /\ FinalIsLast(answers') /\ WellFormed(answers', "none")
            BY <2>3
        <3>2. Stream' = responses \o answers'
            BY <1>2 DEF Stream
        <3>3. WellFormed(Stream', block) /\ Stream' \in Seq(AnswerLines)
            BY <1>1, <2>1, <3>1, <3>2, WellFormedJoin, JoinedFacts
        <3>4. Reading(block, parser, Stream)'
            BY <1>2, <2>1, <3>3 DEF Reading
        <3>5. FinalIsLast(Stream')
            BY <1>1, <2>1, <3>1, <3>2, FinalOfJoined
        <3>6. QED
            BY <1>4, <2>1, <3>4, <3>5 DEF StreamInv, Finals
    <2>4. QED
        BY <2>2, <2>3
<1>5. (client # "done" => /\ Reading(block, parser, Stream)
                          /\ block = "outcome" => Stream # <<>>
                          /\ FinalIsLast(Stream)
                          /\ delivered = "detached" <=> LastResponse("DETACHED")
                          /\ delivered = "outcome" <=> LastResponse("END")
                          /\ (\E i \in 1 .. Len(responses) :
                                 responses[i].kind \in {"DETACHED", "ERROR attached"}) => ~Alive)'
    BY <1>2, <1>4 DEF LastResponse
<1>6. QED
    BY <1>1, <1>2, <1>3, <1>5 DEF StreamInv, Publishing

LEMMA StreamOfAccept == StreamInv /\ Control' /\ Accept => StreamInv'
<1> SUFFICES ASSUME StreamInv, Control', Accept PROVE StreamInv'
    OBVIOUS
<1>1. /\ server = "poll" /\ Alive /\ server' = "send"
      /\ UNCHANGED <<clientVars, responses, published, delivered>>
      /\ answers' \in {<<Marker("ATTACHED")>>, <<Marker("ERROR attached")>>}
    BY DEF Accept, Alive
<1>2. /\ answers' # <<>> /\ answers' \in Seq(AnswerLines)
      /\ FinalIsLast(answers') /\ WellFormed(answers', "none")
    BY <1>1, AnswersAreLines, AnswersAreWellFormed DEF AnswerKinds
<1>3. QED
    BY <1>1, <1>2, StreamOfAnAnswer

LEMMA StreamOfHandleRequest == StreamInv /\ Control' /\ HandleRequest => StreamInv'
<1> SUFFICES ASSUME StreamInv, Control', HandleRequest PROVE StreamInv'
    OBVIOUS
<1> DEFINE kind == CompletedLine(Head(received))
<1>1. /\ server = "handle" /\ Alive
      /\ UNCHANGED <<clientVars, responses, published, delivered>>
    BY DEF HandleRequest, StreamInv, Control, Alive, wireVars
<1>2. /\ server' \in {"poll", "handle", "send"}
      /\ answers' = answers \/ answers' \in AnswersTo(kind)
    BY DEF HandleRequest, Idle
<1>3. \/ answers' = answers
      \/ /\ answers' # <<>> /\ answers' \in Seq(AnswerLines)
         /\ FinalIsLast(answers') /\ WellFormed(answers', "none")
    BY <1>2, AnswersAreLines, AnswersAreWellFormed
<1>4. QED
    BY <1>1, <1>2, <1>3, StreamOfAnAnswer

LEMMA StreamOfFinish == StreamInv /\ Control' /\ Finish => StreamInv'
<1> SUFFICES ASSUME StreamInv, Control', Finish PROVE StreamInv'
    OBVIOUS
<1>1. /\ server = "poll" /\ published' \in Outcomes /\ Control
      /\ UNCHANGED <<client, block, parser, ending, reported, responses, delivered>>
      /\ parser \in Seq(AnswerLines) /\ responses \in Seq(AnswerLines)
    BY DEF Finish, clientVars, StreamInv
<1>2. /\ server' \in {"publish", "gone"} /\ answers = <<>>
      /\ IF link = "open" THEN /\ server' = "publish" /\ link' = link
                               /\ answers' = Serialize(published')
                          ELSE /\ answers' = answers /\ server' = "gone"
                               /\ link' = IF link = "queued" THEN "reset" ELSE link
    BY <1>1 DEF Finish, Control
<1>3. ~Publishing /\ delivered # "outcome" /\ ending # "outcome" /\ Publishing'
    BY <1>1, <1>2 DEF StreamInv, Publishing
<1>4. ReportIsTrue' /\ LossMeansNoAnswer'
    BY <1>1, <1>3 DEF StreamInv, ReportIsTrue, LossMeansNoAnswer
<1>5. /\ Serialize(published') # <<>> /\ Serialize(published') \in Seq(AnswerLines)
      /\ FinalIsLast(Serialize(published'))
      /\ \A i \in 1 .. Len(Serialize(published')) :
            Serialize(published')[i].kind \notin {"DETACHED", "ERROR attached"}
    <2>1. /\ Serialize(published') # <<>> /\ Serialize(published') \in Seq(AnswerLines)
          /\ FinalIsLast(Serialize(published'))
        BY <1>1, AnswersAreLines
    <2>2. Serialize(published')[Len(Serialize(published'))].kind = "END"
        <3> DEFINE b == Serialize(published')
                   n == Len(published'.failures)
        <3>1. n \in Nat /\ Len(b) = n + 4 /\ b[n + 4] = Marker("END")
            BY <1>1, BlockShape
        <3>2. Marker("END").kind = "END"
            BY DEF Marker, Line
        <3> HIDE DEF b, n
        <3>3. b[Len(b)].kind = "END"
            BY <3>1, <3>2
        <3>4. QED
            BY <3>3 DEF b
    <2>3. ASSUME NEW i \in 1 .. Len(Serialize(published'))
          PROVE  Serialize(published')[i].kind \notin {"DETACHED", "ERROR attached"}
        BY <2>1, <2>2 DEF FinalIsLast, Finals
    <2>4. QED
        BY <2>1, <2>3
<1>6. ASSUME client # "done"
      PROVE  /\ Reading(block, parser, Stream)' /\ block # "outcome" /\ FinalIsLast(Stream)'
             /\ (\E i \in 1 .. Len(responses) :
                    responses[i].kind \in {"DETACHED", "ERROR attached"}) => ~Alive'
             /\ delivered = "detached" <=> LastResponse("DETACHED")
             /\ delivered = "outcome" <=> LastResponse("END")
    <2>1. /\ Reading(block, parser, Stream) /\ FinalIsLast(Stream)
          /\ delivered = "detached" <=> LastResponse("DETACHED")
          /\ delivered = "outcome" <=> LastResponse("END")
          /\ (\E i \in 1 .. Len(responses) : responses[i].kind \in {"DETACHED", "ERROR attached"})
                => ~Alive
        BY <1>6 DEF StreamInv
    <2>2. /\ block \in {"none", "status"} /\ parser = <<>> /\ block # "outcome"
          /\ \E a \in Seq(AnswerLines) : WellFormed(a, block) /\ Stream = a
        BY <1>3, <2>1 DEF Reading
    <2>3. Alive' => Alive
        BY <1>2 DEF Alive
    <2>4. CASE link = "open"
        <3>1. Stream = responses /\ \A i \in 1 .. Len(responses) : responses[i].kind \notin Finals
            BY <1>1, <1>6, <2>4, BeforePublishing DEF Alive
        <3>2. Stream' = Stream \o Serialize(published')
            BY <1>1, <1>2, <2>4, <3>1 DEF Stream
        <3>3. Reading(block, parser, Stream)'
            BY <1>1, <1>3, <2>2, <3>2 DEF Reading
        <3>4. FinalIsLast(Stream')
            BY <1>1, <1>5, <3>1, <3>2, FinalOfJoined
        <3>5. QED
            BY <2>1, <2>2, <2>3, <3>3, <3>4
    <2>5. CASE link # "open"
        <3>1. Stream' = Stream
            BY <1>1, <1>2, <2>5 DEF Stream
        <3>2. Reading(block, parser, Stream)'
            BY <1>1, <2>2, <3>1 DEF Reading
        <3>3. QED
            BY <2>1, <2>2, <2>3, <3>1, <3>2
    <2>6. QED
        BY <2>4, <2>5
<1>7. (client # "done" => /\ Reading(block, parser, Stream)
                          /\ block = "outcome" => Stream # <<>>
                          /\ FinalIsLast(Stream)
                          /\ delivered = "detached" <=> LastResponse("DETACHED")
                          /\ delivered = "outcome" <=> LastResponse("END")
                          /\ (\E i \in 1 .. Len(responses) :
                                 responses[i].kind \in {"DETACHED", "ERROR attached"}) => ~Alive)'
    BY <1>1, <1>6 DEF LastResponse
<1>8. server' = "publish" =>
         \A i \in 1 .. Len(answers') : answers'[i].kind \notin {"DETACHED", "ERROR attached"}
    BY <1>2, <1>5
<1>9. QED
    BY <1>1, <1>3, <1>4, <1>7, <1>8 DEF StreamInv

(* An answer goes into the socket. *)
LEMMA StreamOfSendAnswer == StreamInv /\ Control' /\ SendAnswer => StreamInv'
<1> SUFFICES ASSUME StreamInv, Control', SendAnswer PROVE StreamInv'
    OBVIOUS
<1>1. /\ server \in {"send", "publish"} /\ answers # <<>> /\ client # "done" /\ link = "open"
      /\ UNCHANGED <<client, block, parser, ending, reported, published>>
      /\ responses' = Append(responses, Head(answers)) /\ answers' = Tail(answers)
      /\ Control /\ answers \in Seq(AnswerLines)
      /\ parser \in Seq(AnswerLines) /\ responses \in Seq(AnswerLines)
      /\ ending # "outcome" /\ ending = "none"
    BY DEF SendAnswer, clientVars, StreamInv, Control
<1>2. /\ Reading(block, parser, Stream) /\ FinalIsLast(Stream)
      /\ block = "outcome" => Stream # <<>>
      /\ delivered = "detached" <=> LastResponse("DETACHED")
      /\ delivered = "outcome" <=> LastResponse("END")
      /\ delivered = "outcome" => Publishing /\ answers = <<>>
      /\ \A i \in 1 .. Len(responses) : responses[i].kind \notin {"DETACHED", "ERROR attached"}
    BY <1>1 DEF StreamInv, Alive
<1> DEFINE h == Head(answers)
<1>3. /\ h \in AnswerLines /\ h = answers[1] /\ Tail(answers) \in Seq(AnswerLines)
      /\ Len(Tail(answers)) = Len(answers) - 1 /\ Len(answers) \in Nat /\ Len(answers) > 0
      /\ \A i \in 1 .. Len(answers) - 1 : Tail(answers)[i] = answers[i + 1]
      /\ 1 \in 1 .. Len(answers)
    BY <1>1, ShortSequences
<1>4. /\ responses' \in Seq(AnswerLines) /\ Len(responses) \in Nat
      /\ Len(responses') = Len(responses) + 1 /\ responses'[Len(responses')] = h
      /\ \A i \in 1 .. Len(responses) : responses'[i] = responses[i]
    <2> HIDE DEF h
    <2>1. responses' = Append(responses, h)
        BY <1>1 DEF h
    <2>2. QED
        BY <1>1, <1>3, <2>1
<1>5. Stream' = Stream
    BY <1>1, MoveHead DEF Stream
<1>6. /\ Len(Stream) = Len(responses) + Len(answers) /\ Stream[Len(responses) + 1] = h
      /\ \A i \in 1 .. Len(responses) : Stream[i] = responses[i]
    BY <1>1, <1>3, JoinedFacts DEF Stream
<1>7. h.kind \in Finals => Tail(answers) = <<>>
    <2>1. SUFFICES ASSUME h.kind \in Finals PROVE Len(Tail(answers)) = 0
        BY <1>3, ShortSequences
    <2>2. Len(responses) + 1 \in 1 .. Len(Stream)
        BY <1>3, <1>4, <1>6
    <2>3. Len(responses) + 1 = Len(Stream)
        BY <1>2, <1>6, <2>1, <2>2 DEF FinalIsLast
    <2>4. QED
        BY <1>3, <1>4, <1>6, <2>3
<1>8. ~LastResponse("DETACHED") /\ ~LastResponse("END") /\ delivered = "none"
    <2>1. SUFFICES ASSUME LastResponse("DETACHED") \/ LastResponse("END") PROVE FALSE
        BY <1>1, <1>2 DEF Control
    <2>2. /\ Len(responses) \in 1 .. Len(responses) /\ Len(responses) \in 1 .. Len(Stream)
          /\ Len(responses) # Len(Stream)
        BY <1>3, <1>4, <1>6, <2>1 DEF LastResponse
    <2>3. Stream[Len(responses)].kind \in Finals
        BY <1>6, <2>1, <2>2 DEF LastResponse, Finals
    <2>4. QED
        BY <1>2, <2>2, <2>3 DEF FinalIsLast
<1>9. /\ server = "publish" => h.kind \notin {"DETACHED", "ERROR attached"}
      /\ server = "publish" => published \in Outcomes
      /\ server = "publish" =>
            \A i \in 1 .. Len(Tail(answers)) :
               Tail(answers)[i].kind \notin {"DETACHED", "ERROR attached"}
    <2>1. /\ server = "publish" =>
                \A i \in 1 .. Len(answers) : answers[i].kind \notin {"DETACHED", "ERROR attached"}
          /\ server = "publish" => published \in Outcomes
        BY DEF StreamInv
    <2>2. \A i \in 1 .. Len(Tail(answers)) : i \in 1 .. Len(answers) - 1 /\ i + 1 \in 1 .. Len(answers)
        BY <1>3
    <2>3. QED
        BY <1>3, <2>1, <2>2
<1>10. server = "send" => h.kind # "END" /\ ~Publishing
    <2>1. SUFFICES ASSUME server = "send" PROVE h.kind # "END" /\ ~Publishing
        OBVIOUS
    <2>2. ~Publishing
        BY <2>1 DEF Publishing
    <2>3. WellFormed(Stream, block)
        BY <1>2, <2>2 DEF Reading
    <2>4. Len(responses) + 1 \in 1 .. Len(Stream)
        BY <1>3, <1>4, <1>6
    <2>5. h.kind \in AnswerKinds
        BY <1>6, <2>3, <2>4 DEF WellFormed
    <2>6. QED
        BY <2>2, <2>5 DEF AnswerKinds
<1>11. /\ server' = "publish" <=> server = "publish"
       /\ server = "send" => server' \in {"send", "poll", "handle"}
    BY <1>1, <1>9 DEF SendAnswer, Idle
<1>12. Publishing' <=> Publishing
    BY <1>1, <1>11 DEF Publishing
<1>13. /\ delivered' = "detached" <=> h.kind = "DETACHED"
       /\ delivered' = "outcome" <=> h.kind = "END"
       /\ h.kind \in {"DETACHED", "ERROR attached"} => ~Alive'
    BY <1>8 DEF SendAnswer, CloseLink, Alive
<1>14. LastResponse("DETACHED")' <=> h.kind = "DETACHED"
    BY <1>4 DEF LastResponse
<1>15. LastResponse("END")' <=> h.kind = "END"
    BY <1>4 DEF LastResponse
<1>16. (\E i \in 1 .. Len(responses') : responses'[i].kind \in {"DETACHED", "ERROR attached"})
           => ~Alive'
    <2>1. SUFFICES ASSUME NEW i \in 1 .. Len(responses'),
                          responses'[i].kind \in {"DETACHED", "ERROR attached"}
                   PROVE  ~Alive'
        OBVIOUS
    <2>2. i \in 1 .. Len(responses) \/ i = Len(responses')
        BY <1>4
    <2>3. QED
        BY <1>2, <1>4, <1>13, <2>1, <2>2
<1>17. delivered' = "outcome" => Publishing' /\ answers' = <<>>
    <2>1. SUFFICES ASSUME h.kind = "END" PROVE Publishing' /\ Tail(answers) = <<>>
        BY <1>1, <1>13
    <2>2. server = "publish" /\ published \in Outcomes
        BY <1>1, <1>9, <1>10, <2>1
    <2>3. QED
        BY <1>7, <1>12, <2>1, <2>2 DEF Finals, Publishing
<1>18. Reading(block, parser, Stream)'
    BY <1>1, <1>2, <1>5, <1>12 DEF Reading
<1>19. ReportIsTrue' /\ LossMeansNoAnswer' /\ ending' # "outcome"
    BY <1>1 DEF ReportIsTrue, LossMeansNoAnswer
<1>20. /\ (block = "outcome" => Stream # <<>>)' /\ FinalIsLast(Stream)'
       /\ (delivered = "detached" <=> LastResponse("DETACHED"))'
       /\ (delivered = "outcome" <=> LastResponse("END"))'
    BY <1>1, <1>2, <1>5, <1>13, <1>14, <1>15
<1>21. /\ (server = "publish" => published \in Outcomes)'
       /\ (server = "publish" =>
              \A i \in 1 .. Len(answers) : answers[i].kind \notin {"DETACHED", "ERROR attached"})'
    BY <1>1, <1>9, <1>11
<1> HIDE DEF h
<1>22. QED
    BY <1>1, <1>4, <1>16, <1>17, <1>18, <1>19, <1>20, <1>21 DEF StreamInv

(* The other steps leave the stream as it is, or the client has ended. *)
LEMMA StreamFrame ==
    ASSUME StreamInv, Control',
           UNCHANGED <<responses, answers, published, delivered, block, parser, reported>>,
           Publishing => Publishing', Alive' => Alive,
           server' = "publish" => server = "publish",
           client' # "done" => client # "done",
           ending' = ending \/ ending' \in {"no_session", "failed", "send_failed"}
    PROVE  StreamInv'
<1>1. Stream' = Stream /\ \A k : LastResponse(k)' <=> LastResponse(k)
    BY DEF Stream, LastResponse
<1>2. Reading(block, parser, Stream) => Reading(block, parser, Stream)'
    BY <1>1 DEF Reading, Publishing
<1>3. ReportIsTrue' /\ LossMeansNoAnswer'
    BY DEF StreamInv, ReportIsTrue, LossMeansNoAnswer
<1>4. (client # "done" => /\ Reading(block, parser, Stream)
                          /\ block = "outcome" => Stream # <<>>
                          /\ FinalIsLast(Stream)
                          /\ delivered = "detached" <=> LastResponse("DETACHED")
                          /\ delivered = "outcome" <=> LastResponse("END")
                          /\ (\E i \in 1 .. Len(responses) :
                                 responses[i].kind \in {"DETACHED", "ERROR attached"}) => ~Alive)'
    BY <1>1, <1>2 DEF StreamInv
<1>5. /\ (delivered = "outcome" => Publishing /\ answers = <<>>)'
      /\ (ending = "outcome" => Publishing)'
    BY DEF StreamInv
<1>6. QED
    BY <1>3, <1>4, <1>5 DEF StreamInv

LEMMA StreamOfTheRest ==
    ASSUME StreamInv, Control',
           Connect \/ Poll \/ ReadInput \/ ReadInputEnd \/ SendLine \/ SendFails \/ CallFails
           \/ ReadRequests \/ Published \/ Type \/ EndInput \/ WorkloadEnds \/ SupervisorDies
           \/ UNCHANGED vars
    PROVE  StreamInv'
<1>1. UNCHANGED <<responses, answers, published, delivered, block, parser, reported>>
    BY DEF Connect, Poll, ReadInput, ReadInputEnd, SendLine, SendFails, CallFails, ReadRequests,
           Published, Type, EndInput, WorkloadEnds, SupervisorDies, vars, clientVars, serverVars,
           wireVars, userVars
<1>2. /\ server \in {"publish", "gone"} => server' \in {"publish", "gone"}
      /\ server' = "publish" => server = "publish"
    BY DEF Connect, Poll, ReadInput, ReadInputEnd, SendLine, SendFails, CallFails, ReadRequests,
           Published, Type, EndInput, WorkloadEnds, SupervisorDies, vars, clientVars, serverVars,
           wireVars, userVars
<1>3. Alive' => Alive
    BY DEF Connect, Poll, ReadInput, ReadInputEnd, SendLine, SendFails, CallFails, ReadRequests,
           Published, Type, EndInput, WorkloadEnds, SupervisorDies, vars, clientVars, serverVars,
           wireVars, userVars, StreamInv, Control, Alive, CloseLink
<1>4. client' # "done" => client # "done"
    BY DEF Connect, Poll, ReadInput, ReadInputEnd, SendLine, SendFails, CallFails, ReadRequests,
           Published, Type, EndInput, WorkloadEnds, SupervisorDies, vars, clientVars, serverVars,
           wireVars, userVars, End
<1>5. ending' = ending \/ ending' \in {"no_session", "failed", "send_failed"}
    BY DEF Connect, Poll, ReadInput, ReadInputEnd, SendLine, SendFails, CallFails, ReadRequests,
           Published, Type, EndInput, WorkloadEnds, SupervisorDies, vars, clientVars, serverVars,
           wireVars, userVars, End
<1>6. Publishing => Publishing'
    BY <1>1, <1>2 DEF Publishing
<1>7. QED
    BY <1>1, <1>2, <1>3, <1>4, <1>5, <1>6, StreamFrame

LEMMA StreamOfReadEnd == StreamInv /\ Control' /\ ReadEnd => StreamInv'
<1> SUFFICES ASSUME StreamInv, Control', ReadEnd PROVE StreamInv'
    OBVIOUS
<1>1. /\ client = "socket" /\ responses = <<>> /\ client' = "done"
      /\ ending' \in {"eof", "read_failed"}
      /\ UNCHANGED <<responses, answers, published, delivered, parser, server>>
    BY DEF ReadEnd, HasAnswer, End, serverVars, wireVars
<1>2. ~LastResponse("DETACHED") /\ ~LastResponse("END")
    BY <1>1 DEF LastResponse
<1>3. delivered = "none"
    BY <1>1, <1>2 DEF StreamInv, Control
<1>4. ReportIsTrue' /\ LossMeansNoAnswer' /\ ending' # "outcome"
    BY <1>1, <1>3 DEF ReportIsTrue, LossMeansNoAnswer
<1>5. QED
    BY <1>1, <1>3, <1>4 DEF StreamInv

LEMMA StreamOfControllerGone == StreamInv /\ Control' /\ ControllerGone => StreamInv'
<1> SUFFICES ASSUME StreamInv, Control', ControllerGone PROVE StreamInv'
    OBVIOUS
<1>1. /\ client = "done" /\ client' = "done" /\ server \in {"poll", "send"} /\ server' = "poll"
      /\ UNCHANGED <<responses, published, delivered, parser, ending, reported>>
    BY DEF ControllerGone, clientVars
<1>2. ~Publishing /\ delivered # "outcome" /\ ending # "outcome"
    BY <1>1 DEF StreamInv, Publishing
<1>3. ReportIsTrue' /\ LossMeansNoAnswer'
    BY <1>1, <1>2 DEF StreamInv, ReportIsTrue, LossMeansNoAnswer
<1>4. QED
    BY <1>1, <1>2, <1>3 DEF StreamInv

LEMMA StreamStep == StreamInv /\ [Next]_vars => StreamInv'
<1> SUFFICES ASSUME StreamInv, [Next]_vars PROVE StreamInv'
    OBVIOUS
<1>1. Control'
    BY ControlStep DEF StreamInv
<1>2. CASE ReadResponses
    BY <1>1, <1>2, StreamOfReadResponses
<1>3. CASE ReadEnd
    BY <1>1, <1>3, StreamOfReadEnd
<1>4. CASE Accept
    BY <1>1, <1>4, StreamOfAccept
<1>5. CASE HandleRequest
    BY <1>1, <1>5, StreamOfHandleRequest
<1>6. CASE SendAnswer
    BY <1>1, <1>6, StreamOfSendAnswer
<1>7. CASE Finish
    BY <1>1, <1>7, StreamOfFinish
<1>8. CASE ControllerGone
    BY <1>1, <1>8, StreamOfControllerGone
<1>9. CASE Connect \/ Poll \/ ReadInput \/ ReadInputEnd \/ SendLine \/ SendFails \/ CallFails
           \/ ReadRequests \/ Published \/ Type \/ EndInput \/ WorkloadEnds \/ SupervisorDies
           \/ UNCHANGED vars
    BY <1>1, <1>9, StreamOfTheRest
<1>10. QED
    BY <1>2, <1>3, <1>4, <1>5, <1>6, <1>7, <1>8, <1>9 DEF Next, ClientStep, ServerStep

-----------------------------------------------------------------------------
(* The theorems *)

(* What `netlaglab attach` reports is what happened, for every division of  *)
(* the answers into reads: a Session Outcome is the published one, with     *)
(* every failure; a detach was confirmed; and the client never rejects what *)
(* the Supervisor sends.                                                    *)
THEOREM AttachReportIsTrue == Spec => []ReportIsTrue
<1>1. StreamInv => ReportIsTrue
    BY DEF StreamInv
<1>2. QED
    BY <1>1, StreamInit, StreamStep, PTL DEF Spec

(* When the client says that it lost the connection, no complete answer is  *)
(* left unread: neither a Session Outcome nor a confirmation of its detach. *)
THEOREM AttachLossMeansNoAnswer == Spec => []LossMeansNoAnswer
<1>1. StreamInv => LossMeansNoAnswer
    BY DEF StreamInv
<1>2. QED
    BY <1>1, StreamInit, StreamStep, PTL DEF Spec

(* A script piped into the client is carried out, to its last line, before  *)
(* the client reports that it has detached.                                 *)
THEOREM AttachCarriesOutTheScript == Spec => []ScriptIsCarriedOut
<1>1. ScriptInv /\ StreamInv => ScriptIsCarriedOut
    BY DEF ScriptInv, StreamInv, ReportIsTrue, ScriptIsCarriedOut, Confirmed
<1>2. QED
    BY <1>1, ScriptInit, ScriptStep, StreamInit, StreamStep, PTL DEF Spec
==============================================================================
