------------------------- MODULE SessionReplyProofs -------------------------
(***************************************************************************)
(* Theorems about what the Controller is told: every command that the      *)
(* Supervisor has read is answered, in order, or is kept where its answer  *)
(* is owed; for any Controllers, lines, settings, completions, crashes and *)
(* bounds.                                                                 *)
(*                                                                         *)
(* The invariant is OwedInv, on top of SessionInv of SessionProofs.  First *)
(* comes the ledger of Observe, then a batch of the control plane against  *)
(* the lines that it answers (Balance), then the moves of the adapter      *)
(* (Owes, Settles) and its reads, last the steps of Session.               *)
(***************************************************************************)
EXTENDS SessionChangeProofs

-----------------------------------------------------------------------------
(* What the Controller gets of a batch, against what it is owed. *)
(* The ledger is that of Observe, with a note that the connection is closed. *)
Ledger(o) == [owed |-> o, ok |-> TRUE, gone |-> FALSE]

SeenNext(r, a) ==
    CASE a.type = "send" -> Observe(r, a.text)
      [] a.type = "disconnect" -> [r EXCEPT !.gone = TRUE]
      [] OTHER -> r
SN == INSTANCE Folding WITH Op <- SeenNext
OB == INSTANCE Folding WITH Op <- Observe

(* The ledger after the texts of a batch, none of which is lost. *)
Seen(r, acts) == SN!Fold(r, acts)

LEMMA SeenAppend ==
    ASSUME NEW r, NEW acts \in Seq(BatchActions), NEW a \in BatchActions
    PROVE  Seen(r, Append(acts, a)) = SeenNext(Seen(r, acts), a)
BY SN!FoldAppend DEF Seen

(* A batch in order is seen as if a dispatch were not in it. *)
LEMMA SeenOneMore ==
    ASSUME NEW r, NEW acts, InOrder(acts), NEW a \in PlainActions
    PROVE  Seen(r, AppendBeforeDispatch(acts, a)) = SeenNext(Seen(r, acts), a)
<1> DEFINE n == Len(acts)
<1>1. n \in Nat /\ acts \in Seq(BatchActions) /\ a \in BatchActions
    BY DEF InOrder, BatchActions, PlainActions
<1>2. CASE acts # <<>> /\ Last(acts).type = "dispatch"
    <2> DEFINE fr == Front(acts)
               d == acts[n]
               fa == Append(fr, a)
    <2>1. n # 0 /\ d.type = "dispatch"
        BY <1>1, <1>2 DEF Last
    <2>2. AppendBeforeDispatch(acts, a) = fr \o <<a, d>>
        BY <1>2 DEF AppendBeforeDispatch, Last
    <2>3. /\ fr \in Seq(BatchActions) /\ Len(fr) = n - 1 /\ \A i \in 1 .. n - 1 : fr[i] = acts[i]
        BY <1>1, <1>2, FrontFacts
    <2>4. d \in BatchActions
        BY <1>1, <2>1
    <2> HIDE DEF fr, d
    <2>5. fr \o <<a, d>> = Append(fa, d)
        BY <1>1, <2>3, <2>4
    <2>6. acts = Append(fr, d)
        BY <1>1, <2>1, <2>3, <2>4 DEF d
    <2>7. fa \in Seq(BatchActions) /\ Seen(r, fa) = SeenNext(Seen(r, fr), a)
        BY <1>1, <2>3, SeenAppend
    <2> HIDE DEF fa
    <2>8. Seen(r, Append(fa, d)) = SeenNext(Seen(r, fa), d)
        BY <2>4, <2>7, SeenAppend
    <2>9. Seen(r, Append(fr, d)) = SeenNext(Seen(r, fr), d)
        BY <2>3, <2>4, SeenAppend
    <2>10. \A q : SeenNext(q, d) = q
        BY <2>1 DEF SeenNext
    <2>11. Seen(r, acts) = Seen(r, fr)
        BY ONLY <2>6, <2>9, <2>10
    <2>12. Seen(r, AppendBeforeDispatch(acts, a)) = Seen(r, fa)
        BY ONLY <2>2, <2>5, <2>8, <2>10
    <2>13. QED
        BY ONLY <2>7, <2>11, <2>12
<1>3. CASE ~(acts # <<>> /\ Last(acts).type = "dispatch")
    <2>1. AppendBeforeDispatch(acts, a) = Append(acts, a)
        BY <1>3 DEF AppendBeforeDispatch
    <2>2. QED
        BY <1>1, <2>1, SeenAppend
<1>4. QED
    BY <1>2, <1>3

LEMMA SeenSay ==
    ASSUME NEW r, NEW acts, InOrder(acts), NEW t \in Texts
    PROVE  Seen(r, AppendBeforeDispatch(acts, Send(t))) = Observe(Seen(r, acts), t)
<1>1. Send(t) \in PlainActions /\ Send(t).type = "send" /\ Send(t).text = t
    BY ActionTypes DEF Send
<1>2. QED
    BY <1>1, SeenOneMore DEF SeenNext

LEMMA SeenStop ==
    ASSUME NEW r, NEW acts \in Seq(BatchActions)
    PROVE  Seen(r, <<Action("stop")>> \o acts) = Seen(r, acts)
<1>1. Action("stop") \in BatchActions /\ Action("stop").type = "stop"
    BY ActionTypes DEF Action, BatchActions
<1>2. SeenNext(r, Action("stop")) = r
    BY <1>1 DEF SeenNext
<1>3. QED
    BY <1>1, <1>2, SN!FoldPrepend DEF Seen

LEMMA SeenNothing == ASSUME NEW r PROVE Seen(r, <<>>) = r
BY SN!FoldNothing DEF Seen

(* Taking the dispatch out changes nothing of what is seen. *)
LEMMA SeenWithoutDispatch ==
    ASSUME NEW r, NEW acts \in Seq(BatchActions)
    PROVE  Seen(r, WithoutDispatch(acts)) = Seen(r, acts)
<1> DEFINE n == Len(acts)
<1>1. WithoutDispatch(acts) = KA!Fold(<<>>, acts)
    BY DEF WithoutDispatch, KeepAction, FoldLeft, MapThenFoldSet, KA!Fold, KA!Largest, Max
<1>2. PICK v : SN!IsTrace(r, acts, v) /\ SN!Fold(r, acts) = v[n]
    BY SN!FoldTrace
<1>3. n \in Nat /\ \A i \in 1 .. n : acts[i] \in BatchActions
    OBVIOUS
<1> DEFINE T == [i \in 0 .. n |-> {k \in Seq(BatchActions) : Seen(r, k) = v[i]}]
<1>4. <<>> \in T[0]
    <2>1. v[0] = r
        BY <1>2 DEF SN!IsTrace
    <2>2. <<>> \in Seq(BatchActions) /\ 0 \in 0 .. n
        BY <1>3
    <2>3. QED
        BY <2>1, <2>2, SeenNothing
<1>5. ASSUME NEW i \in 1 .. n, NEW k \in T[i - 1] PROVE KeepAction(k, acts[i]) \in T[i]
    <2>1. i - 1 \in 0 .. n /\ i \in 0 .. n /\ i - 1 \in 0 .. n - 1 /\ (i - 1) + 1 = i
        BY <1>3
    <2>2. k \in Seq(BatchActions) /\ Seen(r, k) = v[i - 1]
        BY <2>1
    <2>3. v[i] = SeenNext(v[i - 1], acts[i])
        BY <1>2, <2>1 DEF SN!IsTrace
    <2>4. acts[i] \in BatchActions
        BY <1>3
    <2>5. CASE acts[i].type = "dispatch"
        <3>1. KeepAction(k, acts[i]) = k /\ v[i] = v[i - 1]
            BY <2>3, <2>5 DEF KeepAction, SeenNext
        <3>2. QED
            BY <2>1, <2>2, <3>1
    <2>6. CASE acts[i].type # "dispatch"
        <3>1. KeepAction(k, acts[i]) = Append(k, acts[i])
            BY <2>6 DEF KeepAction
        <3>2. Append(k, acts[i]) \in Seq(BatchActions)
            BY <2>2, <2>4
        <3>3. Seen(r, Append(k, acts[i])) = v[i]
            BY <2>2, <2>3, <2>4, SeenAppend
        <3>4. QED
            BY <2>1, <3>1, <3>2, <3>3
    <2>7. QED
        BY <2>5, <2>6
<1> HIDE DEF T, n
<1>6. KA!Fold(<<>>, acts) \in T[n]
    BY <1>3, <1>4, <1>5, KA!FoldAdvances DEF n
<1>7. n \in 0 .. n
    BY <1>3
<1>8. QED
    BY <1>1, <1>2, <1>6, <1>7 DEF T, Seen

-----------------------------------------------------------------------------
(* A line l in the ledger, behind the lines of e and before those of z. *)
LEMMA Regroup ==
    ASSUME NEW X, NEW e \in Seq(X), NEW l \in X, NEW z \in Seq(X)
    PROVE  /\ Append(e, l) \in Seq(X) /\ <<l>> \o z \in Seq(X)
           /\ Append(e, l) \o z = e \o (<<l>> \o z)
           /\ e \o (<<l>> \o z) \in Seq(X)
<1> DEFINE lz == <<l>> \o z
           s == Append(e, l) \o z
           t == e \o lz
<1>1. <<l>> \in Seq(X) /\ Len(<<l>>) = 1 /\ <<l>>[1] = l
    OBVIOUS
<1>2. /\ lz \in Seq(X) /\ Len(lz) = Len(z) + 1 /\ lz[1] = l
      /\ \A i \in 1 .. Len(z) : lz[1 + i] = z[i]
    BY <1>1, JoinFacts
<1>3. /\ Append(e, l) \in Seq(X) /\ Len(Append(e, l)) = Len(e) + 1
      /\ Append(e, l)[Len(e) + 1] = l /\ \A i \in 1 .. Len(e) : Append(e, l)[i] = e[i]
    OBVIOUS
<1>4. Len(e) \in Nat /\ Len(z) \in Nat
    OBVIOUS
<1> HIDE DEF lz
<1>5. /\ s \in Seq(X) /\ Len(s) = Len(e) + 1 + Len(z)
      /\ \A i \in 1 .. Len(e) + 1 : s[i] = Append(e, l)[i]
      /\ \A i \in 1 .. Len(z) : s[Len(e) + 1 + i] = z[i]
    BY <1>3, JoinFacts
<1>6. /\ t \in Seq(X) /\ Len(t) = Len(e) + Len(lz)
      /\ \A i \in 1 .. Len(e) : t[i] = e[i]
      /\ \A i \in 1 .. Len(lz) : t[Len(e) + i] = lz[i]
    <2>1. lz \in Seq(X)
        BY <1>2
    <2>2. QED
        BY ONLY <2>1, JoinFacts, e \in Seq(X) DEF t
<1> HIDE DEF s, t
<1>7. Len(s) = Len(t)
    BY <1>2, <1>4, <1>5, <1>6
<1>8. ASSUME NEW i \in 1 .. Len(s) PROVE s[i] = t[i]
    <2>1. CASE i \in 1 .. Len(e)
        <3>1. s[i] = e[i]
            <4>1. i \in 1 .. Len(e) + 1
                BY <1>4, <2>1
            <4>2. QED
                BY <1>3, <1>5, <2>1, <4>1
        <3>2. t[i] = e[i]
            BY <1>6, <2>1
        <3>3. QED
            BY <3>1, <3>2
    <2>2. CASE i = Len(e) + 1
        <3>1. i \in 1 .. Len(e) + 1 /\ 1 \in 1 .. Len(lz)
            BY <1>2, <1>4, <2>2
        <3>2. s[i] = l
            BY <1>3, <1>5, <2>2, <3>1
        <3>3. t[i] = l
            BY <1>2, <1>6, <2>2, <3>1
        <3>4. QED
            BY <3>2, <3>3
    <2>3. CASE i \notin 1 .. Len(e) + 1
        <3> DEFINE j == i - (Len(e) + 1)
        <3>1. /\ j \in 1 .. Len(z) /\ i = Len(e) + 1 + j
              /\ i = Len(e) + (1 + j) /\ 1 + j \in 1 .. Len(lz)
            BY <1>2, <1>4, <1>5, <2>3
        <3> HIDE DEF j
        <3>2. s[i] = z[j]
            BY <1>5, <3>1
        <3>3. t[i] = z[j]
            BY <1>2, <1>6, <3>1
        <3>4. QED
            BY <3>2, <3>3
    <2>4. i \in 1 .. Len(e) + 1 => i \in 1 .. Len(e) \/ i = Len(e) + 1
        BY <1>4
    <2>5. QED
        BY <2>1, <2>2, <2>3, <2>4
<1>9. s = t
    BY <1>5, <1>6, <1>7, <1>8, SeqEqual
<1>10. QED
    BY <1>2, <1>3, <1>6, <1>9 DEF s, t, lz

(* Where it is found, and what is left without it. *)
LEMMA LineBetween ==
    ASSUME NEW X, NEW e \in Seq(X), NEW l \in X, NEW z \in Seq(X)
    PROVE  LET s == e \o (<<l>> \o z)
               n == Len(e) + 1
           IN  /\ Len(s) = Len(e) + 1 + Len(z) /\ s[n] = l
               /\ \A i \in 1 .. Len(e) : s[i] = e[i]
               /\ SubSeq(s, n + 1, Len(s)) = z
               /\ SubSeq(s, 1, Len(e)) = e
<1> DEFINE lz == <<l>> \o z
           s == e \o lz
           n == Len(e) + 1
<1>1. <<l>> \in Seq(X) /\ Len(<<l>>) = 1 /\ <<l>>[1] = l
    OBVIOUS
<1>2. /\ lz \in Seq(X) /\ Len(lz) = Len(z) + 1 /\ lz[1] = l
      /\ \A i \in 1 .. Len(z) : lz[1 + i] = z[i]
    BY <1>1, JoinFacts
<1>3. Len(e) \in Nat /\ Len(z) \in Nat
    OBVIOUS
<1> HIDE DEF lz
<1>4. /\ s \in Seq(X) /\ Len(s) = Len(e) + Len(lz)
      /\ \A i \in 1 .. Len(e) : s[i] = e[i]
      /\ \A i \in 1 .. Len(lz) : s[Len(e) + i] = lz[i]
    <2>1. lz \in Seq(X)
        BY <1>2
    <2>2. QED
        BY ONLY <2>1, JoinFacts, e \in Seq(X) DEF s
<1> HIDE DEF s
<1>5. /\ Len(s) = Len(e) + 1 + Len(z) /\ s[n] = l
      /\ \A i \in 1 .. Len(z) : s[n + i] = z[i]
    <2>1. 1 \in 1 .. Len(lz)
        BY <1>2, <1>3
    <2>2. \A i \in 1 .. Len(z) : 1 + i \in 1 .. Len(lz) /\ n + i = Len(e) + (1 + i)
        BY <1>2, <1>3
    <2>3. QED
        BY <1>2, <1>3, <1>4, <2>1, <2>2
<1>6. SubSeq(s, n + 1, Len(s)) = z
    <2> DEFINE t == SubSeq(s, n + 1, Len(s))
    <2>1. Len(t) = Len(z) /\ t \in Seq(X)
        BY <1>3, <1>4, <1>5
    <2>2. \A i \in 1 .. Len(z) : t[i] = s[n + i]
        BY <1>3, <1>4, <1>5
    <2> HIDE DEF t
    <2>3. t = z
        BY <1>5, <2>1, <2>2
    <2>4. QED
        BY <2>3 DEF t
<1>7. SubSeq(s, 1, Len(e)) = e
    <2> DEFINE t == SubSeq(s, 1, Len(e))
    <2>1. Len(t) = Len(e) /\ t \in Seq(X)
        BY <1>3, <1>4, <1>5
    <2>2. \A i \in 1 .. Len(e) : t[i] = s[i]
        BY <1>3, <1>4, <1>5
    <2> HIDE DEF t
    <2>3. t = e
        BY <1>4, <2>1, <2>2
    <2>4. QED
        BY <2>3 DEF t
<1>8. QED
    BY <1>4, <1>5, <1>6, <1>7 DEF s, lz

LEMMA LineTakenOut ==
    ASSUME NEW X, NEW e \in Seq(X), NEW l \in X, NEW z \in Seq(X)
    PROVE  RemoveAt(e \o (<<l>> \o z), Len(e) + 1) = e \o z
<1> DEFINE s == e \o (<<l>> \o z)
           n == Len(e) + 1
<1>1. SubSeq(s, n + 1, Len(s)) = z /\ SubSeq(s, 1, Len(e)) = e
    BY LineBetween
<1>2. n - 1 = Len(e)
    OBVIOUS
<1> HIDE DEF s, n
<1>3. QED
    BY <1>1, <1>2 DEF RemoveAt, s, n

LEMMA FirstOfType ==
    ASSUME NEW e \in Seq(ControllerLines), NEW l \in ControllerLines,
           NEW z \in Seq(ControllerLines), NEW types, l.type \in types,
           \A i \in 1 .. Len(e) : e[i].type \notin types
    PROVE  IndexOf(e \o (<<l>> \o z), types) = Len(e) + 1
<1> DEFINE s == e \o (<<l>> \o z)
           n == Len(e) + 1
           is == {i \in DOMAIN s : s[i].type \in types}
<1>1. s \in Seq(ControllerLines)
    BY Regroup
<1>2. Len(s) = Len(e) + 1 + Len(z) /\ s[n] = l /\ \A i \in 1 .. Len(e) : s[i] = e[i]
    BY LineBetween
<1>3. Len(e) \in Nat /\ Len(z) \in Nat /\ DOMAIN s = 1 .. Len(s)
    BY <1>1
<1> HIDE DEF s
<1>4. n \in is
    BY <1>2, <1>3
<1>5. \A j \in is : n <= j /\ j \in Nat
    <2> SUFFICES ASSUME NEW j \in is PROVE n <= j /\ j \in Nat
        OBVIOUS
    <2>1. j \in 1 .. Len(s) /\ s[j].type \in types
        BY <1>3
    <2>2. j \notin 1 .. Len(e)
        BY <1>2, <2>1
    <2>3. QED
        BY <1>2, <1>3, <2>1, <2>2
<1>6. \A i \in is : (\A j \in is : i <= j) => i = n
    BY <1>3, <1>4, <1>5
<1>7. IndexOf(s, types) = n
    <2>1. is # {}
        BY <1>4
    <2>2. (CHOOSE i \in is : \A j \in is : i <= j) = n
        BY <1>4, <1>5, <1>6
    <2>3. QED
        BY <2>1, <2>2 DEF IndexOf
<1>8. QED
    BY <1>7 DEF s

(* The texts that answer a line anywhere: a stop, which cancels what is     *)
(* before it, and a parse error, which leaves it.                           *)
LEMMA ObserveStopping ==
    ASSUME NEW e \in Seq(ControllerLines), NEW l \in ControllerLines,
           NEW z \in Seq(ControllerLines), l.type = "stop",
           \A i \in 1 .. Len(e) : e[i].type # "stop"
    PROVE  Observe(Ledger(e \o (<<l>> \o z)), Text("STOPPING")) = Ledger(z)
<1> DEFINE s == e \o (<<l>> \o z)
           n == Len(e) + 1
<1>1. IndexOf(s, {"stop"}) = n
    BY FirstOfType
<1>2. SubSeq(s, n + 1, Len(s)) = z
    BY LineBetween
<1>3. n # 0 /\ Text("STOPPING").text = "STOPPING"
    BY DEF Text
<1> HIDE DEF s, n
<1>4. Observe(Ledger(s), Text("STOPPING")) = [Ledger(s) EXCEPT !.owed = SubSeq(@, n + 1, Len(@))]
    BY <1>1, <1>3 DEF Observe, Ledger
<1>5. QED
    BY <1>2, <1>4 DEF Ledger, s

LEMMA ObserveParseError ==
    ASSUME NEW e \in Seq(ControllerLines), NEW l \in ControllerLines,
           NEW z \in Seq(ControllerLines), NEW t,
           t.text = "ERROR parse" \/ t.text = "ERROR too long",
           l.type \in {"invalid", "oversized"},
           \A i \in 1 .. Len(e) : e[i].type \notin {"invalid", "oversized"}
    PROVE  Observe(Ledger(e \o (<<l>> \o z)), t) = Ledger(e \o z)
<1> DEFINE s == e \o (<<l>> \o z)
           n == Len(e) + 1
<1>1. IndexOf(s, {"invalid", "oversized"}) = n
    BY FirstOfType
<1>2. RemoveAt(s, n) = e \o z
    BY LineTakenOut
<1>3. Len(e) \in Nat
    BY ElementOf
<1>4. n # 0
    BY ONLY <1>3
<1> HIDE DEF s, n
<1>5. Observe(Ledger(s), t) = [Ledger(s) EXCEPT !.owed = RemoveAt(@, n)]
    BY <1>1, <1>4 DEF Observe, Ledger
<1>6. QED
    BY <1>2, <1>5 DEF Ledger, s

(* The other answers are for the oldest line. *)
Ordinary == {"PROFILE_CHANGED", "ERROR profile", "ERROR stopping", "STATUS", "HELP", "DETACHED"}
LEMMA ObserveAnswer ==
    ASSUME NEW l \in ControllerLines, NEW z \in Seq(ControllerLines), NEW t,
           t.text \in Ordinary, Answers(t, l)
    PROVE  Observe(Ledger(<<l>> \o z), t) = Ledger(z)
<1> DEFINE s == <<l>> \o z
<1>1. /\ s # <<>> /\ Head(s) = l /\ SubSeq(s, 2, Len(s)) = z /\ SubSeq(s, 1, 0) = <<>>
      /\ <<>> \o z = z
    <2>1. <<>> \o s = s /\ Len(<<>>) = 0 /\ <<>> \in Seq(ControllerLines)
        OBVIOUS
    <2>2. Len(s) = Len(z) + 1 /\ s[1] = l /\ SubSeq(s, 2, Len(s)) = z /\ SubSeq(s, 1, 0) = <<>>
        BY <2>1, LineBetween
    <2>3. Len(z) \in Nat
        OBVIOUS
    <2>4. QED
        BY <2>2, <2>3
<1> HIDE DEF s
<1>2. RemoveAt(s, 1) = z
    BY <1>1 DEF RemoveAt
<1>3. Observe(Ledger(s), t) = [Ledger(s) EXCEPT !.owed = RemoveAt(@, 1)]
    <2>1. Ledger(s).owed = s
        BY DEF Ledger
    <2> DEFINE r == Ledger(s)
               k == CASE t.text = "STOPPING" -> IndexOf(r.owed, {"stop"})
                      [] t.text \in {"ERROR parse", "ERROR too long"} ->
                            IndexOf(r.owed, {"invalid", "oversized"})
                      [] t.text = "ERROR too many" -> Len(r.owed)
                      [] OTHER -> IF r.owed # <<>> /\ Answers(t, Head(r.owed)) THEN 1 ELSE 0
    <2>2. t.text \notin {"STOPPING", "ERROR parse", "ERROR too long", "ERROR too many", "ATTACHED"}
        BY DEF Ordinary
    <2>3. k = 1
        BY <1>1, <2>1, <2>2
    <2>4. Observe(r, t) =
            CASE t.text = "ATTACHED" -> [r EXCEPT !.ok = @ /\ r.owed = <<>>]
              [] t.text # "ATTACHED" /\ k = 0 -> [r EXCEPT !.ok = FALSE]
              [] t.text \in {"STOPPING", "ERROR too many"} /\ k # 0 ->
                    [r EXCEPT !.owed = SubSeq(@, k + 1, Len(@))]
              [] OTHER -> [r EXCEPT !.owed = RemoveAt(@, k)]
        BY DEF Observe
    <2> HIDE DEF k, r, Ordinary
    <2>7. t.text # "STOPPING" /\ t.text # "ERROR too many" /\ t.text # "ATTACHED"
        BY ONLY <2>2
    <2>8. k # 0
        BY ONLY <2>3
    <2>5. Observe(r, t) = [r EXCEPT !.owed = RemoveAt(@, k)]
        BY ONLY <2>4, <2>7, <2>8
    <2>6. QED
        BY <2>3, <2>5 DEF r
<1>4. QED
    BY <1>2, <1>3 DEF Ledger, s

(* Nothing is owed when a Controller is greeted, something is when it is    *)
(* told that it asks too much.                                              *)
LEMMA ObserveAttached == Observe(Ledger(<<>>), Text("ATTACHED")) = Ledger(<<>>)
BY DEF Observe, Ledger, Text

LEMMA ObserveTooMany ==
    ASSUME NEW s \in Seq(ControllerLines), s # <<>>
    PROVE  Observe(Ledger(s), Text("ERROR too many")).ok
<1>1. Len(s) # 0 /\ Text("ERROR too many").text = "ERROR too many"
    BY DEF Text
<1>2. QED
    BY <1>1 DEF Observe, Ledger

(* What was wrong once remains so, and Observe does not look at the note. *)
Ledgers(r) == r = [owed |-> r.owed, ok |-> r.ok, gone |-> r.gone]
Flat(r) == [owed |-> r.owed, ok |-> r.ok]

LEMMA ObserveBoth ==
    ASSUME NEW r, NEW f, NEW o, NEW k, NEW g, NEW t,
           r = [owed |-> o, ok |-> k, gone |-> g], f = [owed |-> o, ok |-> k]
    PROVE  /\ Ledgers(Observe(r, t)) /\ Observe(r, t).gone = g
           /\ Observe(r, t).ok => k
           /\ Flat(Observe(r, t)) = Observe(f, t)
<1> DEFINE i == CASE t.text = "STOPPING" -> IndexOf(o, {"stop"})
                  [] t.text \in {"ERROR parse", "ERROR too long"} ->
                        IndexOf(o, {"invalid", "oversized"})
                  [] t.text = "ERROR too many" -> Len(o)
                  [] OTHER -> IF o # <<>> /\ Answers(t, Head(o)) THEN 1 ELSE 0
           After(q) ==
             CASE t.text = "ATTACHED" -> [q EXCEPT !.ok = @ /\ q.owed = <<>>]
               [] t.text # "ATTACHED" /\ i = 0 -> [q EXCEPT !.ok = FALSE]
               [] t.text \in {"STOPPING", "ERROR too many"} /\ i # 0 ->
                     [q EXCEPT !.owed = SubSeq(@, i + 1, Len(@))]
               [] OTHER -> [q EXCEPT !.owed = RemoveAt(@, i)]
<1>1. Observe(r, t) = After(r)
    BY DEF Observe
<1>2. Observe(f, t) = After(f)
    BY DEF Observe
<1> DEFINE x == Observe(r, t)
           y == Observe(f, t)
           Goal == Ledgers(x) /\ x.gone = g /\ (x.ok => k) /\ Flat(x) = y
<1> HIDE DEF i
<1>3. CASE t.text = "ATTACHED"
    <2> DEFINE k2 == k /\ o = <<>>
    <2>1. After(r) = [r EXCEPT !.ok = k2] /\ After(f) = [f EXCEPT !.ok = k2]
        BY <1>3
    <2>2. k2 => k
        OBVIOUS
    <2> HIDE DEF k2
    <2>3. x = [owed |-> o, ok |-> k2, gone |-> g] /\ y = [owed |-> o, ok |-> k2]
        BY <1>1, <1>2, <2>1
    <2> HIDE DEF x, y
    <2>4. x.ok = k2 /\ x.gone = g /\ Ledgers(x) /\ Flat(x) = y
        BY ONLY <2>3 DEF Ledgers, Flat
    <2>5. QED
        BY <2>2, <2>4 DEF x, y
<1>4. CASE t.text # "ATTACHED" /\ i = 0
    <2>1. After(r) = [r EXCEPT !.ok = FALSE] /\ After(f) = [f EXCEPT !.ok = FALSE]
        BY <1>4
    <2>2. x = [owed |-> o, ok |-> FALSE, gone |-> g] /\ y = [owed |-> o, ok |-> FALSE]
        BY <1>1, <1>2, <2>1
    <2> HIDE DEF x, y
    <2>3. ~x.ok /\ x.gone = g /\ Ledgers(x) /\ Flat(x) = y
        BY ONLY <2>2 DEF Ledgers, Flat
    <2>4. QED
        BY <2>3 DEF x, y
<1>5. CASE t.text # "ATTACHED" /\ i # 0
    <2> DEFINE v == IF t.text \in {"STOPPING", "ERROR too many"} THEN SubSeq(o, i + 1, Len(o))
                                                                 ELSE RemoveAt(o, i)
    <2>1. After(r) = [r EXCEPT !.owed = v] /\ After(f) = [f EXCEPT !.owed = v]
        BY <1>5
    <2> HIDE DEF v
    <2>2. x = [owed |-> v, ok |-> k, gone |-> g] /\ y = [owed |-> v, ok |-> k]
        BY <1>1, <1>2, <2>1
    <2> HIDE DEF x, y
    <2>3. x.ok = k /\ x.gone = g /\ Ledgers(x) /\ Flat(x) = y
        BY ONLY <2>2 DEF Ledgers, Flat
    <2>4. QED
        BY <2>3 DEF x, y
<1>6. QED
    BY <1>3, <1>4, <1>5

LEMMA ObserveLedger ==
    ASSUME NEW r, NEW t, Ledgers(r)
    PROVE  /\ Ledgers(Observe(r, t)) /\ Observe(r, t).gone = r.gone
           /\ Observe(r, t).ok => r.ok
           /\ Flat(Observe(r, t)) = Observe(Flat(r), t)
<1>1. r = [owed |-> r.owed, ok |-> r.ok, gone |-> r.gone]
    BY DEF Ledgers
<1>2. Flat(r) = [owed |-> r.owed, ok |-> r.ok]
    BY DEF Flat
<1>3. QED
    BY ONLY <1>1, <1>2, ObserveBoth

-----------------------------------------------------------------------------
(* What a connection is still owed: the answer to its own change in flight, *)
(* and to what is queued behind it.                                         *)
Cmds(queue) == [i \in DOMAIN queue |-> queue[i].cmd]
Own(c) == IF InFlight(c) /\ c.inflight.reply = c.gen THEN <<SetCommand(c.inflight.change)>>
                                                     ELSE <<>>
StillOwed(c) == Own(c) \o Cmds(c.queue)

(* The queue is of the connection there is, it holds no stop, and nothing   *)
(* is queued or to be told unless a change is in flight and someone is      *)
(* there who may be told.                                                   *)
Entries == [cmd : ControllerCommands, gen : Nat]
Sound(c) ==
    /\ c.inflight.reply <= c.gen
    /\ c.attached => c.gen # 0
    /\ \A i \in 1 .. Len(c.queue) : c.queue[i].gen = c.gen /\ c.queue[i].cmd.type # "stop"
    /\ ~InFlight(c) => c.queue = <<>>
    /\ ~c.attached \/ c.stopping \/ c.terminal \/ c.failed =>
          c.queue = <<>> /\ c.inflight.reply = 0

LEMMA CmdsFacts ==
    ASSUME NEW queue \in Seq(Entries)
    PROVE  /\ Cmds(queue) \in Seq(ControllerCommands) /\ Len(Cmds(queue)) = Len(queue)
           /\ \A i \in 1 .. Len(queue) : Cmds(queue)[i] = queue[i].cmd
<1>1. DOMAIN queue = 1 .. Len(queue) /\ Len(queue) \in Nat
      /\ \A i \in 1 .. Len(queue) : queue[i] \in Entries
    BY ElementOf
<1>2. \A i \in 1 .. Len(queue) : queue[i].cmd \in ControllerCommands
    BY <1>1 DEF Entries
<1>3. QED
    BY <1>1, <1>2 DEF Cmds

LEMMA CmdsAppend ==
    ASSUME NEW queue \in Seq(Entries), NEW q \in Entries
    PROVE  Cmds(Append(queue, q)) = Append(Cmds(queue), q.cmd)
<1> DEFINE p == Append(queue, q)
           s == Cmds(p)
           t == Append(Cmds(queue), q.cmd)
<1>1. /\ p \in Seq(Entries) /\ Len(p) = Len(queue) + 1 /\ p[Len(queue) + 1] = q
      /\ \A i \in 1 .. Len(queue) : p[i] = queue[i]
    OBVIOUS
<1> HIDE DEF p
<1>2. q.cmd \in ControllerCommands /\ Len(queue) \in Nat
    BY DEF Entries
<1>3. /\ s \in Seq(ControllerCommands) /\ Len(s) = Len(p)
      /\ \A i \in 1 .. Len(p) : s[i] = p[i].cmd
    BY <1>1, CmdsFacts
<1>4. /\ Cmds(queue) \in Seq(ControllerCommands) /\ Len(Cmds(queue)) = Len(queue)
      /\ \A i \in 1 .. Len(queue) : Cmds(queue)[i] = queue[i].cmd
    BY CmdsFacts
<1>5. /\ t \in Seq(ControllerCommands) /\ Len(t) = Len(queue) + 1 /\ t[Len(queue) + 1] = q.cmd
      /\ \A i \in 1 .. Len(queue) : t[i] = Cmds(queue)[i]
    BY <1>2, <1>4
<1> HIDE DEF s, t
<1>6. ASSUME NEW i \in 1 .. Len(s) PROVE s[i] = t[i]
    <2>1. i \in 1 .. Len(queue) \/ i = Len(queue) + 1
        BY <1>1, <1>2, <1>3
    <2>2. CASE i \in 1 .. Len(queue)
        <3>1. i \in 1 .. Len(p)
            BY <1>1, <1>2, <2>2
        <3>2. QED
            BY <1>1, <1>3, <1>4, <1>5, <2>2, <3>1
    <2>3. CASE i = Len(queue) + 1
        BY <1>1, <1>3, <1>5, <2>3
    <2>4. QED
        BY <2>1, <2>2, <2>3
<1>7. s = t
    BY <1>1, <1>3, <1>5, <1>6
<1>8. QED
    BY <1>7 DEF s, t, p

LEMMA CmdsNothing == Cmds(<<>>) = <<>>
<1>1. <<>> \in Seq(Entries) /\ Len(<<>>) = 0
    OBVIOUS
<1>2. Cmds(<<>>) \in Seq(ControllerCommands) /\ Len(Cmds(<<>>)) = 0
    BY <1>1, CmdsFacts
<1>3. QED
    BY <1>2

LEMMA CommandTypes ==
    /\ ControllerCommands \subseteq ControllerLines
    /\ \A c \in Changes : SetCommand(c) \in ControllerCommands
                          /\ SetCommand(c).type = "change" /\ SetCommand(c).change = c
    /\ \A l \in ControllerLines :
          /\ l.type \in {"change", "help", "status", "stop", "detach", "invalid", "oversized",
                         "empty"}
          /\ l.type = "change" => l.change \in Changes /\ l = SetCommand(l.change)
          /\ l.type \in {"change", "help", "status", "stop", "detach"} <=> l \in ControllerCommands
BY DEF ControllerCommands, ControllerLines, SetCommand, PlainCommand

LEMMA OwedFacts ==
    ASSUME NEW c \in ControlPlanes
    PROVE  /\ Own(c) \in Seq(ControllerCommands) /\ Cmds(c.queue) \in Seq(ControllerCommands)
           /\ StillOwed(c) \in Seq(ControllerCommands) /\ StillOwed(c) \in Seq(ControllerLines)
           /\ \A i \in 1 .. Len(StillOwed(c)) : StillOwed(c)[i].type \notin {"invalid", "oversized"}
           /\ Sound(c) => \A i \in 1 .. Len(StillOwed(c)) : StillOwed(c)[i].type # "stop"
<1> DEFINE o == Own(c)
           k == Cmds(c.queue)
           s == StillOwed(c)
<1>1. c.queue \in Seq(Entries) /\ c.inflight \in Flights
    BY DEF ControlPlanes, Queues, Entries
<1>2. /\ k \in Seq(ControllerCommands) /\ Len(k) = Len(c.queue)
      /\ \A i \in 1 .. Len(c.queue) : k[i] = c.queue[i].cmd
    BY <1>1, CmdsFacts
<1>3. /\ o \in Seq(ControllerCommands)
      /\ \A i \in 1 .. Len(o) : o[i].type = "change"
    <2>1. CASE InFlight(c) /\ c.inflight.reply = c.gen
        <3> DEFINE a == SetCommand(c.inflight.change)
        <3>1. a \in ControllerCommands /\ a.type = "change"
            BY <1>1, <2>1, FlightTypes, CommandTypes DEF InFlight
        <3>2. o = <<a>>
            BY <2>1 DEF Own
        <3> HIDE DEF a, o
        <3>3. QED
            BY <3>1, <3>2
    <2>2. CASE ~(InFlight(c) /\ c.inflight.reply = c.gen)
        <3>1. o = <<>>
            BY <2>2 DEF Own
        <3>2. <<>> \in Seq(ControllerCommands) /\ Len(<<>>) = 0
            OBVIOUS
        <3>3. QED
            BY <3>1, <3>2
    <2>3. QED
        BY <2>1, <2>2
<1>4. s = o \o k
    BY DEF StillOwed
<1> HIDE DEF o, k, s
<1>5. /\ s \in Seq(ControllerCommands) /\ Len(s) = Len(o) + Len(k)
      /\ \A i \in 1 .. Len(o) : s[i] = o[i]
      /\ \A i \in 1 .. Len(k) : s[Len(o) + i] = k[i]
    <2>1. QED
        BY ONLY <1>2, <1>3, <1>4, JoinFacts
<1>6. s \in Seq(ControllerLines)
    BY <1>5, CommandTypes, SeqGrows
<1>7. \A i \in 1 .. Len(s) : s[i].type \notin {"invalid", "oversized"}
    <2>1. \A i \in 1 .. Len(s) : s[i] \in ControllerCommands
        BY <1>5, ElementOf
    <2>2. \A l \in ControllerCommands : l.type \in {"change", "help", "status", "stop", "detach"}
        BY CommandTypes
    <2>3. QED
        BY <2>1, <2>2
<1>8. ASSUME Sound(c), NEW i \in 1 .. Len(s) PROVE s[i].type # "stop"
    <2>1. Len(o) \in Nat /\ Len(k) \in Nat
        BY <1>2, <1>3, ElementOf
    <2>2. CASE i \in 1 .. Len(o)
        BY <1>3, <1>5, <2>2
    <2>3. CASE i \notin 1 .. Len(o)
        <3> DEFINE j == i - Len(o)
        <3>1. j \in 1 .. Len(k) /\ i = Len(o) + j
            BY <1>5, <2>1, <2>3
        <3> HIDE DEF j
        <3>2. s[i] = c.queue[j].cmd /\ j \in 1 .. Len(c.queue)
            BY <1>2, <1>5, <3>1
        <3>3. QED
            BY <1>8, <3>2 DEF Sound
    <2>4. QED
        BY <2>2, <2>3
<1>9. QED
    BY <1>2, <1>3, <1>5, <1>6, <1>7, <1>8 DEF o, k, s

(* Nothing is owed when nothing of the connection is in flight. *)
LEMMA OwedNothing ==
    ASSUME NEW c, c.queue = <<>>, ~InFlight(c) \/ c.inflight.reply # c.gen
    PROVE  StillOwed(c) = <<>>
<1>1. Own(c) = <<>> /\ Cmds(c.queue) = <<>>
    BY CmdsNothing DEF Own
<1>2. <<>> \o <<>> = <<>>
    OBVIOUS
<1>3. QED
    BY <1>1, <1>2 DEF StillOwed

(* A connection that is told nothing. *)
Silenced(c) == c.queue = <<>> /\ c.inflight.reply = 0

LEMMA SilencedIsSound ==
    ASSUME NEW c \in ControlPlanes, Silenced(c), c.attached => c.gen # 0
    PROVE  Sound(c) /\ (c.attached => StillOwed(c) = <<>>)
<1>1. c.gen \in Nat /\ c.inflight.reply <= c.gen
    BY DEF ControlPlanes, Silenced
<1>2. Sound(c)
    BY <1>1, EmptyQueue DEF Sound, Silenced
<1>3. c.attached => c.inflight.reply # c.gen
    BY DEF Silenced
<1>4. QED
    BY <1>2, <1>3, OwedNothing DEF Silenced

LEMMA StoppingIsSilent ==
    ASSUME NEW c \in ControlPlanes, Sound(c), c.stopping
    PROVE  Silenced(c) /\ (c.attached => StillOwed(c) = <<>>)
BY SilencedIsSound DEF Sound, Silenced

(* A reply is cancelled with the queue. *)
LEMMA CancelSilences ==
    ASSUME NEW c \in ControlPlanes, c.queue = <<>>
    PROVE  Silenced(CancelReply(c))
<1>1. /\ CancelReply(c).queue = <<>> /\ (InFlight(c) => CancelReply(c).inflight.reply = 0)
      /\ (InFlight(c) <=> InFlight(CancelReply(c)))
    BY Cancel DEF OnlyFlightQueue
<1>2. ~InFlight(CancelReply(c)) => CancelReply(c).inflight.reply = 0
    BY DEF InFlight, NoFlight
<1>3. QED
    BY <1>1, <1>2 DEF Silenced

LEMMA DisconnectSilences ==
    ASSUME NEW c \in ControlPlanes
    PROVE  Silenced(DisconnectController(c)) /\ ~DisconnectController(c).attached
           /\ Sound(DisconnectController(c))
<1> DEFINE c1 == [c EXCEPT !.attached = FALSE, !.queue = <<>>]
           d == DisconnectController(c)
<1>1. c1 \in ControlPlanes /\ c1.queue = <<>>
    <2> DEFINE a == [c EXCEPT !.attached = FALSE]
    <2>1. a \in ControlPlanes
        BY DEF ControlPlanes
    <2>2. c1 = [a EXCEPT !.queue = <<>>]
        OBVIOUS
    <2> HIDE DEF a, c1
    <2>3. QED
        BY <2>1, <2>2, EmptyQueue DEF ControlPlanes
<1>2. d = CancelReply(c1)
    BY DEF DisconnectController
<1>3. Silenced(d)
    BY <1>1, <1>2, CancelSilences
<1>4. ~d.attached /\ d \in ControlPlanes
    BY Disconnected DEF OnlyFlightQueue
<1>5. QED
    BY <1>3, <1>4, SilencedIsSound

-----------------------------------------------------------------------------
(* A batch against the lines o it answers: whatever else the Controller has *)
(* asked for, every text answers what is to be answered next, and what is   *)
(* left is what the connection is still owed, as long as it is not closed.  *)
Balance(s, o) ==
    /\ o \in Seq(ControllerLines)
    /\ \A rest \in Seq(ControllerLines) :
         LET r == Seen(Ledger(o \o rest), s.acts)
         IN  r.ok /\ IF s.cp.attached THEN r = Ledger(StillOwed(s.cp) \o rest) ELSE r.gone

LEMMA OneLineMore ==
    ASSUME NEW s, NEW o, Balance(s, o), s.cp.attached, s.cp \in ControlPlanes,
           NEW l \in ControllerLines
    PROVE  /\ Append(o, l) \in Seq(ControllerLines)
           /\ \A rest \in Seq(ControllerLines) :
                Seen(Ledger(Append(o, l) \o rest), s.acts)
                  = Ledger(StillOwed(s.cp) \o (<<l>> \o rest))
<1>1. o \in Seq(ControllerLines)
    BY DEF Balance
<1>2. ASSUME NEW rest \in Seq(ControllerLines)
      PROVE  Seen(Ledger(Append(o, l) \o rest), s.acts)
                  = Ledger(StillOwed(s.cp) \o (<<l>> \o rest))
    <2>1. Append(o, l) \o rest = o \o (<<l>> \o rest) /\ <<l>> \o rest \in Seq(ControllerLines)
        BY <1>1, Regroup
    <2>2. QED
        BY <2>1 DEF Balance
<1>3. QED
    BY <1>1, <1>2

(* An answer that is sent, and one that is the last. *)
LEMMA SayBalances ==
    ASSUME NEW c0, NEW s \in Batches(c0), NEW o, Balance(s, o), s.cp.attached,
           NEW l \in ControllerLines, NEW t \in Texts,
           \A rest \in Seq(ControllerLines) :
              Observe(Ledger(StillOwed(s.cp) \o (<<l>> \o rest)), t)
                = Ledger(StillOwed(s.cp) \o rest)
    PROVE  Balance(Say(s, t), Append(o, l))
<1>1. /\ Say(s, t).cp = s.cp /\ Say(s, t).acts = AppendBeforeDispatch(s.acts, Send(t))
      /\ InOrder(s.acts) /\ s.cp \in ControlPlanes
    BY DEF Say, Batches
<1>2. /\ Append(o, l) \in Seq(ControllerLines)
      /\ \A rest \in Seq(ControllerLines) :
           Seen(Ledger(Append(o, l) \o rest), s.acts)
             = Ledger(StillOwed(s.cp) \o (<<l>> \o rest))
    BY <1>1, OneLineMore
<1>3. ASSUME NEW rest \in Seq(ControllerLines)
      PROVE  Seen(Ledger(Append(o, l) \o rest), Say(s, t).acts) = Ledger(StillOwed(s.cp) \o rest)
    BY <1>1, <1>2, SeenSay
<1>4. \A q : Ledger(q).ok
    BY DEF Ledger
<1>5. QED
    BY <1>1, <1>2, <1>3, <1>4 DEF Balance

LEMMA GoodbyeBalances ==
    ASSUME NEW c0, NEW s \in Batches(c0), NEW o, Balance(s, o), s.cp.attached,
           NEW l \in ControllerLines, NEW t \in Texts,
           \A rest \in Seq(ControllerLines) :
              Observe(Ledger(StillOwed(s.cp) \o (<<l>> \o rest)), t).ok
    PROVE  /\ Balance(SayAndDisconnect(s, t), Append(o, l))
           /\ Sound(SayAndDisconnect(s, t).cp) /\ ~SayAndDisconnect(s, t).cp.attached
<1> DEFINE said == Say(s, t)
           bye == Action("disconnect")
           z == SayAndDisconnect(s, t)
<1>1. said \in Batches(c0) /\ said.cp = s.cp /\ said.acts = AppendBeforeDispatch(s.acts, Send(t))
    BY SayKeeps DEF Say, Batches
<1>2. z.cp = DisconnectController(said.cp) /\ z.acts = AppendBeforeDispatch(said.acts, bye)
    BY DEF SayAndDisconnect
<1>3. InOrder(said.acts) /\ InOrder(s.acts) /\ s.cp \in ControlPlanes
    BY <1>1 DEF Batches
<1> HIDE DEF said, z
<1>4. Sound(z.cp) /\ ~z.cp.attached
    BY <1>1, <1>2, <1>3, DisconnectSilences
<1>5. /\ Append(o, l) \in Seq(ControllerLines)
      /\ \A rest \in Seq(ControllerLines) :
           Seen(Ledger(Append(o, l) \o rest), s.acts)
             = Ledger(StillOwed(s.cp) \o (<<l>> \o rest))
    BY <1>3, OneLineMore
<1>6. bye \in PlainActions /\ bye.type = "disconnect"
    BY ActionTypes DEF Action
<1> HIDE DEF bye
<1>7. ASSUME NEW rest \in Seq(ControllerLines)
      PROVE  LET r == Seen(Ledger(Append(o, l) \o rest), z.acts) IN r.ok /\ r.gone
    <2> DEFINE q == Ledger(Append(o, l) \o rest)
               p == Ledger(StillOwed(s.cp) \o (<<l>> \o rest))
               k == Observe(p, t)
    <2>1. Seen(q, s.acts) = p
        BY <1>5
    <2>6. Ledgers(k) /\ k.ok
        BY ObserveLedger DEF Ledger, Ledgers
    <2> HIDE DEF q, p, k
    <2>2. Seen(q, said.acts) = Observe(Seen(q, s.acts), t)
        BY <1>1, <1>3, SeenSay
    <2>3. Seen(q, z.acts) = SeenNext(Seen(q, said.acts), bye)
        BY <1>2, <1>3, <1>6, SeenOneMore
    <2>4. Seen(q, z.acts) = [k EXCEPT !.gone = TRUE]
        BY <1>6, <2>1, <2>2, <2>3 DEF SeenNext, k
    <2>5. [k EXCEPT !.gone = TRUE].ok = k.ok /\ [k EXCEPT !.gone = TRUE].gone
        BY <2>6 DEF Ledgers
    <2>7. QED
        BY <2>4, <2>5, <2>6 DEF q
<1>8. QED
    BY <1>4, <1>5, <1>7 DEF Balance, z

(* What the rest of the ledger is behind nothing. *)
LEMMA BehindNothing ==
    ASSUME NEW l \in ControllerLines, NEW rest \in Seq(ControllerLines)
    PROVE  /\ <<>> \o rest = rest /\ <<l>> \o rest \in Seq(ControllerLines)
           /\ <<>> \o (<<l>> \o rest) = <<l>> \o rest /\ <<l>> \o rest # <<>>
<1> DEFINE s == <<l>> \o rest
<1>1. <<l>> \in Seq(ControllerLines) /\ Len(<<l>>) = 1 /\ Len(rest) \in Nat
    OBVIOUS
<1>2. s \in Seq(ControllerLines) /\ Len(s) = 1 + Len(rest)
    BY <1>1, JoinFacts
<1> HIDE DEF s
<1>3. s # <<>> /\ <<>> \o s = s
    BY <1>1, <1>2
<1>4. QED
    BY <1>2, <1>3 DEF s

(* A command that is answered at once, because nothing is before it. *)
LEMMA OrdinaryBalances ==
    ASSUME NEW c0, NEW s \in Batches(c0), NEW o, Balance(s, o), s.cp.attached,
           NEW l \in ControllerLines, NEW t \in Texts, StillOwed(s.cp) = <<>>,
           t.text \in Ordinary, Answers(t, l)
    PROVE  /\ Balance(Say(s, t), Append(o, l))
           /\ Balance(SayAndDisconnect(s, t), Append(o, l)) /\ Sound(SayAndDisconnect(s, t).cp)
<1>1. ASSUME NEW rest \in Seq(ControllerLines)
      PROVE  Observe(Ledger(StillOwed(s.cp) \o (<<l>> \o rest)), t)
                = Ledger(StillOwed(s.cp) \o rest)
    BY BehindNothing, ObserveAnswer
<1>2. \A q : Ledger(q).ok
    BY DEF Ledger
<1>3. \A rest \in Seq(ControllerLines) :
         Observe(Ledger(StillOwed(s.cp) \o (<<l>> \o rest)), t).ok
    BY <1>1, <1>2
<1>4. Balance(Say(s, t), Append(o, l))
    BY <1>1, SayBalances
<1>5. Balance(SayAndDisconnect(s, t), Append(o, l)) /\ Sound(SayAndDisconnect(s, t).cp)
    BY <1>3, GoodbyeBalances
<1>6. QED
    BY <1>4, <1>5

(* A parse error, behind whatever. *)
LEMMA InvalidBalances ==
    ASSUME NEW c0, NEW s \in Batches(c0), NEW o, Balance(s, o), s.cp.attached,
           NEW l \in ControllerLines, l.type \in {"invalid", "oversized"}, NEW t \in Texts,
           t.text = "ERROR parse" \/ t.text = "ERROR too long"
    PROVE  /\ Balance(Say(s, t), Append(o, l))
           /\ Balance(SayAndDisconnect(s, t), Append(o, l)) /\ Sound(SayAndDisconnect(s, t).cp)
<1>0. s.cp \in ControlPlanes
    BY DEF Batches
<1> DEFINE so == StillOwed(s.cp)
<1>1. /\ so \in Seq(ControllerLines)
      /\ \A i \in 1 .. Len(so) : so[i].type \notin {"invalid", "oversized"}
    BY <1>0, OwedFacts
<1> HIDE DEF so
<1>2. ASSUME NEW rest \in Seq(ControllerLines)
      PROVE  Observe(Ledger(so \o (<<l>> \o rest)), t) = Ledger(so \o rest)
    BY <1>1, ObserveParseError
<1>3. \A q : Ledger(q).ok
    BY DEF Ledger
<1>4. \A rest \in Seq(ControllerLines) : Observe(Ledger(so \o (<<l>> \o rest)), t).ok
    BY <1>2, <1>3
<1>5. Balance(Say(s, t), Append(o, l))
    BY <1>2, SayBalances DEF so
<1>6. Balance(SayAndDisconnect(s, t), Append(o, l)) /\ Sound(SayAndDisconnect(s, t).cp)
    BY <1>4, GoodbyeBalances DEF so
<1>7. QED
    BY <1>5, <1>6

(* A command too many. *)
LEMMA TooManyBalances ==
    ASSUME NEW c0, NEW s \in Batches(c0), NEW o, Balance(s, o), s.cp.attached,
           NEW l \in ControllerLines
    PROVE  LET z == SayAndDisconnect(s, Text("ERROR too many"))
           IN  Balance(z, Append(o, l)) /\ Sound(z.cp)
<1> DEFINE t == Text("ERROR too many")
           so == StillOwed(s.cp)
<1>1. t \in Texts /\ so \in Seq(ControllerLines)
    BY TextTypes, OwedFacts DEF Batches
<1> HIDE DEF so, t
<1>2. ASSUME NEW rest \in Seq(ControllerLines)
      PROVE  Observe(Ledger(so \o (<<l>> \o rest)), t).ok
    <2>1. so \o (<<l>> \o rest) \in Seq(ControllerLines)
        BY <1>1, Regroup
    <2>5. Len(so \o (<<l>> \o rest)) = Len(so) + 1 + Len(rest)
        BY <1>1, LineBetween
    <2>2. Len(so) \in Nat /\ Len(rest) \in Nat
        BY <1>1, ElementOf
    <2>3. so \o (<<l>> \o rest) # <<>>
        BY <2>2, <2>5
    <2>4. QED
        BY <2>1, <2>3, ObserveTooMany DEF t
<1>3. QED
    BY <1>1, <1>2, GoodbyeBalances DEF so, t

-----------------------------------------------------------------------------
(* A command that is queued is owed after what was owed before. *)
LEMMA OwedQueued ==
    ASSUME NEW c \in ControlPlanes, NEW d, NEW q \in Entries,
           d.queue = Append(c.queue, q), d.inflight = c.inflight, d.gen = c.gen
    PROVE  StillOwed(d) = Append(StillOwed(c), q.cmd)
<1> DEFINE o == Own(c)
           k == Cmds(c.queue)
<1>1. o \in Seq(ControllerCommands) /\ k \in Seq(ControllerCommands) /\ q.cmd \in ControllerCommands
    BY OwedFacts DEF Entries
<1>2. Own(d) = o
    BY DEF Own, InFlight
<1>3. Cmds(d.queue) = Append(k, q.cmd)
    BY CmdsAppend DEF ControlPlanes, Queues, Entries
<1> HIDE DEF o, k
<1>4. o \o Append(k, q.cmd) = Append(o \o k, q.cmd)
    BY <1>1
<1>5. QED
    BY <1>2, <1>3, <1>4 DEF StillOwed, o, k

LEMMA QueueBalances ==
    ASSUME NEW c0, NEW s \in Batches(c0), NEW o, Balance(s, o), s.cp.attached, Sound(s.cp),
           InFlight(s.cp), ~s.cp.stopping, ~s.cp.terminal, ~s.cp.failed,
           NEW q \in Entries, q.gen = s.cp.gen, q.cmd.type # "stop", NEW z,
           z = [cp |-> [s.cp EXCEPT !.queue = Append(@, q)], acts |-> s.acts]
    PROVE  Balance(z, Append(o, q.cmd)) /\ Sound(z.cp)
<1> DEFINE c == s.cp
           p == Append(c.queue, q)
           d == [c EXCEPT !.queue = p]
           l == q.cmd
<1>1. c \in ControlPlanes /\ c.queue \in Seq(Entries) /\ l \in ControllerCommands
    BY DEF Batches, ControlPlanes, Queues, Entries
<1>2. z.cp = d /\ z.acts = s.acts
    OBVIOUS
<1>3. l \in ControllerLines
    BY <1>1, CommandTypes
<1> HIDE DEF p
<1>4. /\ d.queue = p /\ d.inflight = c.inflight /\ d.gen = c.gen /\ d.attached = c.attached
      /\ d.stopping = c.stopping /\ d.terminal = c.terminal /\ d.failed = c.failed
    BY <1>1 DEF ControlPlanes
<1> HIDE DEF d, l
<1>5. Sound(d)
    <2>1. /\ Len(p) = Len(c.queue) + 1 /\ p[Len(c.queue) + 1] = q
          /\ \A i \in 1 .. Len(c.queue) : p[i] = c.queue[i]
        BY <1>1 DEF p
    <2>2. Len(c.queue) \in Nat
        BY <1>1, ElementOf
    <2>3. \A i \in 1 .. Len(p) : i \in 1 .. Len(c.queue) \/ i = Len(c.queue) + 1
        BY <2>1, <2>2
    <2>4. \A i \in 1 .. Len(p) : p[i].gen = c.gen /\ p[i].cmd.type # "stop"
        BY <2>1, <2>3 DEF Sound
    <2>5. QED
        BY <1>4, <2>4 DEF Sound, InFlight
<1>6. StillOwed(d) = Append(StillOwed(c), l)
    BY <1>1, <1>4, OwedQueued DEF l, p
<1>7. /\ Append(o, l) \in Seq(ControllerLines)
      /\ \A rest \in Seq(ControllerLines) :
           Seen(Ledger(Append(o, l) \o rest), s.acts) = Ledger(StillOwed(c) \o (<<l>> \o rest))
    BY <1>1, <1>3, OneLineMore
<1>8. StillOwed(c) \in Seq(ControllerLines)
    BY <1>1, OwedFacts
<1>9. ASSUME NEW rest \in Seq(ControllerLines)
      PROVE  Seen(Ledger(Append(o, l) \o rest), s.acts) = Ledger(StillOwed(d) \o rest)
    <2> DEFINE so == StillOwed(c)
    <2>1. so \in Seq(ControllerLines)
        BY <1>8
    <2>2. Seen(Ledger(Append(o, l) \o rest), s.acts) = Ledger(so \o (<<l>> \o rest))
        BY <1>7
    <2>3. StillOwed(d) = Append(so, l)
        BY <1>6
    <2> HIDE DEF so
    <2>4. Append(so, l) \o rest = so \o (<<l>> \o rest)
        BY <1>3, <2>1, Regroup
    <2>5. QED
        BY <2>2, <2>3, <2>4
<1>10. \A x : Ledger(x).ok
    BY DEF Ledger
<1>11. QED
    BY <1>2, <1>4, <1>5, <1>7, <1>9, <1>10 DEF Balance, l

(* A change that is dispatched is owed by itself. *)
LEMMA DispatchBalances ==
    ASSUME NEW c0, NEW s \in Batches(c0), NEW o, Balance(s, o), s.cp.attached, Sound(s.cp),
           ~InFlight(s.cp), ~s.cp.stopping, ~s.cp.terminal, ~s.cp.failed,
           NEW l \in ControllerCommands, l.type = "change"
    PROVE  Balance(ProcessCommand(s, l), Append(o, l)) /\ Sound(ProcessCommand(s, l).cp)
<1> DEFINE c == s.cp
           f == [change |-> l.change, reply |-> c.gen, unexecuted |-> TRUE]
           d == [c EXCEPT !.inflight = f]
           a == Dispatch(l.change)
           z == ProcessCommand(s, l)
<1>1. c \in ControlPlanes /\ s.acts \in Seq(BatchActions) /\ c.gen \in Nat
    BY DEF Batches, ControlPlanes
<1>2. z.cp = d /\ z.acts = Append(s.acts, a)
    BY DEF ProcessCommand
<1>3. l \in ControllerLines /\ l.change \in Changes /\ l = SetCommand(l.change)
    BY CommandTypes
<1>4. a \in BatchActions /\ a.type = "dispatch"
    BY <1>3, ActionTypes DEF BatchActions, Dispatch
<1>5. /\ f # NoFlight /\ f.reply = c.gen /\ f.change = l.change
    BY <1>3, NoChangeAssumption DEF NoFlight
<1> HIDE DEF f, z
<1>6. /\ d.queue = c.queue /\ d.inflight = f /\ d.gen = c.gen /\ d.attached = c.attached
      /\ d.stopping = c.stopping /\ d.terminal = c.terminal /\ d.failed = c.failed
    BY <1>1 DEF ControlPlanes
<1> HIDE DEF d, a
<1>7. c.queue = <<>>
    BY DEF Sound
<1>8. Sound(d)
    BY <1>1, <1>5, <1>6, <1>7, EmptyQueue DEF Sound, InFlight
<1>9. StillOwed(d) = <<l>> /\ StillOwed(c) = <<>>
    <2>1. StillOwed(c) = <<>>
        BY <1>7, OwedNothing
    <2>2. Own(d) = <<l>> /\ Cmds(d.queue) = <<>>
        BY <1>3, <1>5, <1>6, <1>7, CmdsNothing DEF Own, InFlight
    <2>3. <<l>> \o <<>> = <<l>>
        OBVIOUS
    <2>4. QED
        BY <2>1, <2>2, <2>3 DEF StillOwed
<1>10. /\ Append(o, l) \in Seq(ControllerLines)
       /\ \A rest \in Seq(ControllerLines) :
            Seen(Ledger(Append(o, l) \o rest), s.acts) = Ledger(StillOwed(c) \o (<<l>> \o rest))
    BY <1>1, <1>3, OneLineMore
<1>11. ASSUME NEW rest \in Seq(ControllerLines)
       PROVE  Seen(Ledger(Append(o, l) \o rest), z.acts) = Ledger(StillOwed(d) \o rest)
    <2>1. Seen(Ledger(Append(o, l) \o rest), s.acts) = Ledger(<<l>> \o rest)
        BY <1>3, <1>9, <1>10, BehindNothing
    <2>2. \A r : Seen(r, Append(s.acts, a)) = Seen(r, s.acts)
        BY <1>1, <1>4, SeenAppend DEF SeenNext
    <2>3. QED
        BY <1>2, <1>9, <2>1, <2>2
<1>12. \A x : Ledger(x).ok
    BY DEF Ledger
<1>13. QED
    BY <1>2, <1>6, <1>8, <1>10, <1>11, <1>12 DEF Balance, z

(* A stop cancels what was asked before it. *)
LEMMA StopBalances ==
    ASSUME NEW c0, Settled(c0), NEW s \in Batches(c0), NEW o, Balance(s, o), s.cp.attached,
           Sound(s.cp), NEW l \in ControllerCommands, l.type = "stop"
    PROVE  Balance(EnterStopping(s), Append(o, l)) /\ Sound(EnterStopping(s).cp)
<1> DEFINE first == StopFirst(s)
           drop == s.cp.inflight.unexecuted
           acts == IF drop THEN WithoutDispatch(first) ELSE first
           c1 == [s.cp EXCEPT !.stopping = TRUE, !.queue = <<>>]
           c2 == CancelReply(c1)
           c3 == IF drop THEN [c2 EXCEPT !.inflight = NoFlight] ELSE c2
           r == [cp |-> c3, acts |-> acts]
           z == EnterStopping(s)
           t == Text("STOPPING")
           so == StillOwed(s.cp)
<1>1. z = Say(r, t)
    BY DEF EnterStopping
<1>2. s.cp \in ControlPlanes /\ InOrder(s.acts) /\ s.acts \in Seq(BatchActions)
    BY DEF Batches, InOrder
<1>3. z \in Batches(c0) /\ z.cp.queue = <<>> /\ z.cp.stopping /\ z.cp.attached = s.cp.attached
    BY EnterStoppingKeeps
<1>4. z.cp = c3 /\ z.acts = AppendBeforeDispatch(acts, Send(t))
    BY <1>1 DEF Say
<1>5. c1 \in ControlPlanes /\ c1.queue = <<>>
    <2> DEFINE d == [s.cp EXCEPT !.stopping = TRUE]
    <2>1. d \in ControlPlanes
        BY <1>2 DEF ControlPlanes
    <2>2. c1 = [d EXCEPT !.queue = <<>>]
        OBVIOUS
    <2> HIDE DEF d, c1
    <2>3. QED
        BY <2>1, <2>2, EmptyQueue DEF ControlPlanes
<1> HIDE DEF z, c1
<1>6. Silenced(c2) /\ c2 \in ControlPlanes
    BY <1>5, CancelSilences, Cancel DEF OnlyFlightQueue
<1> HIDE DEF c2
<1>7. c3.inflight.reply = 0
    <2>1. [c2 EXCEPT !.inflight = NoFlight].inflight = NoFlight
        BY <1>6 DEF ControlPlanes
    <2>2. QED
        BY <1>6, <2>1 DEF Silenced, NoFlight
<1>8. z.cp.gen = s.cp.gen
    BY <1>3 DEF Batches, Kept
<1> HIDE DEF c3
<1>9. Silenced(z.cp) /\ z.cp \in ControlPlanes /\ z.cp.gen # 0
    BY <1>3, <1>4, <1>7, <1>8 DEF Silenced, Sound, Batches
<1>10. Sound(z.cp) /\ StillOwed(z.cp) = <<>>
    BY <1>3, <1>9, SilencedIsSound
<1>11. InOrder(first) /\ first \in Seq(BatchActions)
    BY StopFirstFacts DEF InOrder
<1>12. \A q : Seen(q, first) = Seen(q, s.acts)
    BY <1>2, SeenStop DEF StopFirst
<1> HIDE DEF first
<1>13. InOrder(acts) /\ \A q : Seen(q, acts) = Seen(q, s.acts)
    <2>1. CASE drop
        <3>1. acts = WithoutDispatch(first)
            BY <2>1
        <3>2. acts \in Seq(PlainActions)
            BY <1>11, <3>1, NoDispatchLeft
        <3>3. \A q : Seen(q, acts) = Seen(q, s.acts)
            BY <1>11, <1>12, <3>1, SeenWithoutDispatch
        <3> HIDE DEF acts
        <3>4. \A i \in 1 .. Len(acts) : acts[i] \in PlainActions
            BY <3>2, ElementOf
        <3>5. \A a \in PlainActions : ~IsDispatch(a)
            BY DEF PlainActions, IsDispatch
        <3>6. acts \in Seq(BatchActions)
            BY <3>2, SeqGrows DEF BatchActions
        <3>7. QED
            BY <3>3, <3>4, <3>5, <3>6 DEF InOrder
    <2>2. CASE ~drop
        BY <1>11, <1>12, <2>2
    <2>3. QED
        BY <2>1, <2>2
<1> HIDE DEF acts
<1>14. l \in ControllerLines
    BY CommandTypes
<1>15. /\ Append(o, l) \in Seq(ControllerLines)
       /\ \A rest \in Seq(ControllerLines) :
            Seen(Ledger(Append(o, l) \o rest), s.acts) = Ledger(so \o (<<l>> \o rest))
    BY <1>2, <1>14, OneLineMore
<1>16. so \in Seq(ControllerLines) /\ \A i \in 1 .. Len(so) : so[i].type # "stop"
    BY <1>2, OwedFacts
<1>17. t \in Texts
    BY TextTypes
<1> HIDE DEF so
<1>18. ASSUME NEW rest \in Seq(ControllerLines)
       PROVE  Seen(Ledger(Append(o, l) \o rest), z.acts) = Ledger(StillOwed(z.cp) \o rest)
    <2>1. Observe(Ledger(so \o (<<l>> \o rest)), t) = Ledger(rest)
        BY <1>14, <1>16, ObserveStopping
    <2>2. \A q : Seen(q, z.acts) = Observe(Seen(q, acts), t)
        BY <1>4, <1>13, <1>17, SeenSay
    <2>3. <<>> \o rest = rest
        OBVIOUS
    <2>4. QED
        BY <1>10, <1>13, <1>15, <2>1, <2>2, <2>3
<1>19. \A x : Ledger(x).ok
    BY DEF Ledger
<1>20. QED
    BY <1>3, <1>10, <1>15, <1>18, <1>19 DEF Balance, z

-----------------------------------------------------------------------------
(* process_command() answers what it is given, or puts it where it is owed. *)
LEMMA ProcessCommandBalances ==
    ASSUME NEW c0, Settled(c0), NEW s \in Batches(c0), NEW o, Balance(s, o), s.cp.attached,
           Sound(s.cp), ~s.cp.terminal, ~s.cp.failed, NEW l \in ControllerCommands
    PROVE  Balance(ProcessCommand(s, l), Append(o, l)) /\ Sound(ProcessCommand(s, l).cp)
<1> DEFINE z == ProcessCommand(s, l)
           Goal == Balance(z, Append(o, l)) /\ Sound(z.cp)
<1>1. /\ s.cp \in ControlPlanes /\ s = [cp |-> s.cp, acts |-> s.acts] /\ s.cp.confirmed \in Profiles
      /\ s.cp.gen \in Nat
    BY DEF Batches, ControlPlanes
<1>2. /\ l.type \in {"change", "help", "status", "stop", "detach"} /\ l \in ControllerLines
    BY CommandTypes
<1>3. CASE l.type = "stop"
    <2>1. z = EnterStopping(s)
        BY <1>3 DEF ProcessCommand
    <2>2. QED
        BY <1>3, <2>1, StopBalances
<1>4. CASE l.type # "stop" /\ InFlight(s.cp) /\ ~s.cp.stopping
    <2>1. CASE QueueFull(s)
        <3>1. z = SayAndDisconnect(s, Text("ERROR too many"))
            BY <1>4, <2>1 DEF ProcessCommand
        <3>2. QED
            BY <1>2, <3>1, TooManyBalances
    <2>2. CASE ~QueueFull(s)
        <3> DEFINE q == [cmd |-> l, gen |-> s.cp.gen]
        <3>1. z = [s EXCEPT !.cp.queue = Append(@, q)]
            BY <1>4, <2>2 DEF ProcessCommand
        <3>2. z = [cp |-> [s.cp EXCEPT !.queue = Append(@, q)], acts |-> s.acts]
            BY <1>1, <3>1
        <3>3. q \in Entries /\ q.gen = s.cp.gen /\ q.cmd = l
            BY <1>1 DEF Entries
        <3> HIDE DEF z, q
        <3>4. Balance(z, Append(o, q.cmd)) /\ Sound(z.cp)
            BY <1>4, <3>2, <3>3, QueueBalances
        <3>5. QED
            BY <3>3, <3>4 DEF z
    <2>3. QED
        BY <2>1, <2>2
<1>5. CASE l.type # "stop" /\ ~(InFlight(s.cp) /\ ~s.cp.stopping)
    <2>1. StillOwed(s.cp) = <<>>
        <3>1. CASE s.cp.stopping
            BY <1>1, <3>1, StoppingIsSilent
        <3>2. CASE ~InFlight(s.cp)
            BY <3>2, OwedNothing DEF Sound
        <3>3. QED
            BY <1>5, <3>1, <3>2
    <2>2. CASE l.type = "change" /\ ~s.cp.stopping
        BY <1>5, <2>2, DispatchBalances
    <2>3. ASSUME NEW t \in Texts, t.text \in Ordinary, Answers(t, l), z = Say(s, t)
          PROVE  Goal
        <3>1. Balance(Say(s, t), Append(o, l))
            BY <1>2, <2>1, <2>3, OrdinaryBalances
        <3>2. Say(s, t).cp = s.cp
            BY SayKeeps
        <3>3. QED
            BY <2>3, <3>1, <3>2
    <2>4. CASE l.type = "change" /\ s.cp.stopping
        <3> DEFINE t == Text("ERROR stopping")
        <3>1. t \in Texts /\ t.text = "ERROR stopping"
            BY TextTypes DEF Text
        <3>2. z = Say(s, t)
            BY <2>4 DEF ProcessCommand
        <3> HIDE DEF t, z
        <3>3. t.text \in Ordinary /\ Answers(t, l)
            BY <2>4, <3>1 DEF Ordinary, Answers
        <3>4. QED
            BY <2>3, <3>1, <3>2, <3>3 DEF z
    <2>5. CASE l.type = "help"
        <3> DEFINE t == Text("HELP")
        <3>1. t \in Texts /\ t.text = "HELP"
            BY TextTypes DEF Text
        <3>2. z = Say(s, t)
            BY <1>5, <2>5 DEF ProcessCommand
        <3> HIDE DEF t, z
        <3>3. t.text \in Ordinary /\ Answers(t, l)
            BY <2>5, <3>1 DEF Ordinary, Answers
        <3>4. QED
            BY <2>3, <3>1, <3>2, <3>3 DEF z
    <2>6. CASE l.type = "status"
        <3> DEFINE t == StatusText(s.cp.confirmed)
        <3>1. t \in Texts /\ t.text = "STATUS"
            BY <1>1, TextTypes DEF Text, StatusText
        <3>2. z = Say(s, t)
            BY <1>5, <2>6 DEF ProcessCommand
        <3> HIDE DEF t, z
        <3>3. t.text \in Ordinary /\ Answers(t, l)
            BY <2>6, <3>1 DEF Ordinary, Answers
        <3>4. QED
            BY <2>3, <3>1, <3>2, <3>3 DEF z
    <2>7. CASE l.type = "detach"
        <3> DEFINE t == Text("DETACHED")
        <3>1. t \in Texts /\ t.text = "DETACHED"
            BY TextTypes DEF Text
        <3>2. z = SayAndDisconnect(s, t)
            BY <1>5, <2>7 DEF ProcessCommand
        <3> HIDE DEF t, z
        <3>3. t.text \in Ordinary /\ Answers(t, l)
            BY <2>7, <3>1 DEF Ordinary, Answers
        <3>4. Balance(SayAndDisconnect(s, t), Append(o, l)) /\ Sound(SayAndDisconnect(s, t).cp)
            BY <1>2, <2>1, <3>1, <3>3, OrdinaryBalances
        <3>5. QED
            BY <3>2, <3>4 DEF z
    <2>8. QED
        BY <1>2, <1>5, <2>2, <2>4, <2>5, <2>6, <2>7
<1>6. QED
    BY <1>3, <1>4, <1>5

(* Once the connection is closed, what follows is not looked at. *)
LEMMA ClosedBalances ==
    ASSUME NEW s, NEW o, Balance(s, o), ~s.cp.attached, NEW l \in ControllerLines
    PROVE  Balance(s, Append(o, l))
<1>1. o \in Seq(ControllerLines)
    BY DEF Balance
<1>2. Append(o, l) \in Seq(ControllerLines)
    BY <1>1
<1>3. ASSUME NEW rest \in Seq(ControllerLines)
      PROVE  LET r == Seen(Ledger(Append(o, l) \o rest), s.acts) IN r.ok /\ r.gone
    <2>1. Append(o, l) \o rest = o \o (<<l>> \o rest) /\ <<l>> \o rest \in Seq(ControllerLines)
        BY <1>1, Regroup
    <2>2. QED
        BY <2>1 DEF Balance
<1>4. QED
    BY <1>2, <1>3 DEF Balance

(* A line: an empty one asks for nothing. *)
AskNext(asked, l) == IF l.type = "empty" THEN asked ELSE Append(asked, l)
AN == INSTANCE Folding WITH Op <- AskNext

InBalance(c0, s, o) ==
    /\ s \in Batches(c0) /\ Balance(s, o) /\ Sound(s.cp)
    /\ ~s.cp.terminal /\ ~s.cp.failed

LEMMA ProcessLineBalances ==
    ASSUME NEW c0, Settled(c0), NEW s, NEW o, NEW l \in ControllerLines, InBalance(c0, s, o)
    PROVE  InBalance(c0, ProcessLine(s, l), AskNext(o, l))
<1> DEFINE z == ProcessLine(s, l)
           a == AskNext(o, l)
           Goal == Balance(z, a) /\ Sound(z.cp)
<1>1. s \in Batches(c0) /\ Balance(s, o) /\ Sound(s.cp) /\ ~s.cp.terminal /\ ~s.cp.failed
    BY DEF InBalance
<1>2. z \in Batches(c0)
    BY <1>1, ProcessLineKeeps
<1>3. z.cp.terminal = s.cp.terminal /\ z.cp.failed = s.cp.failed
    BY <1>1, <1>2 DEF Batches, Kept
<1>4. Goal
    <2>1. CASE l.type = "empty"
        BY <1>1, <2>1 DEF ProcessLine, AskNext
    <2>2. CASE l.type # "empty" /\ ~s.cp.attached
        <3>1. z = s /\ a = Append(o, l)
            BY <2>2 DEF ProcessLine, AskNext
        <3>2. QED
            BY <1>1, <2>2, <3>1, ClosedBalances
    <2>3. CASE l.type = "invalid" /\ s.cp.attached
        <3> DEFINE t == Text("ERROR parse")
        <3>1. t \in Texts /\ t.text = "ERROR parse"
            BY TextTypes DEF Text
        <3>2. z = Say(s, t) /\ a = Append(o, l)
            BY <2>3 DEF ProcessLine, AskNext
        <3> HIDE DEF t, z, a
        <3>3. Balance(Say(s, t), Append(o, l)) /\ Say(s, t).cp = s.cp
            BY <1>1, <2>3, <3>1, InvalidBalances, SayKeeps
        <3>4. QED
            BY <1>1, <3>2, <3>3 DEF z, a
    <2>4. CASE l.type = "oversized" /\ s.cp.attached
        <3> DEFINE t == Text("ERROR too long")
        <3>1. t \in Texts /\ t.text = "ERROR too long"
            BY TextTypes DEF Text
        <3>2. z = SayAndDisconnect(s, t) /\ a = Append(o, l)
            BY <2>4 DEF ProcessLine, AskNext
        <3> HIDE DEF t, z, a
        <3>3. Balance(SayAndDisconnect(s, t), Append(o, l)) /\ Sound(SayAndDisconnect(s, t).cp)
            BY <1>1, <2>4, <3>1, InvalidBalances
        <3>4. QED
            BY <3>2, <3>3 DEF z, a
    <2>5. CASE l.type \notin {"empty", "invalid", "oversized"} /\ s.cp.attached
        <3>1. z = ProcessCommand(s, l) /\ a = Append(o, l)
            BY <2>5 DEF ProcessLine, AskNext
        <3>2. l \in ControllerCommands
            BY <2>5, CommandTypes
        <3>3. QED
            BY <1>1, <2>5, <3>1, <3>2, ProcessCommandBalances
    <2>6. QED
        BY <2>1, <2>2, <2>3, <2>4, <2>5
<1>5. QED
    BY <1>1, <1>2, <1>3, <1>4 DEF InBalance

-----------------------------------------------------------------------------
(* That the last batch has been executed changes nothing of what is owed. *)
LEMMA ExecutedOwes ==
    ASSUME NEW c \in ControlPlanes, Sound(c)
    PROVE  StillOwed(Executed(c)) = StillOwed(c) /\ Sound(Executed(c))
<1> DEFINE d == Executed(c)
<1>1. /\ d.queue = c.queue /\ d.gen = c.gen /\ d.attached = c.attached /\ d.stopping = c.stopping
      /\ d.terminal = c.terminal /\ d.failed = c.failed /\ (InFlight(d) <=> InFlight(c))
      /\ d.inflight.change = c.inflight.change /\ d.inflight.reply = c.inflight.reply
    BY ExecutedFacts DEF OnlyFlightQueue, Kept, Same
<1> HIDE DEF d
<1>2. Sound(d)
    BY <1>1 DEF Sound
<1>3. Own(d) = Own(c)
    BY <1>1 DEF Own
<1>4. QED
    BY <1>1, <1>2, <1>3 DEF StillOwed, d

(* A batch that says nothing yet owes what was owed. *)
LEMMA NothingSaid ==
    ASSUME NEW c \in ControlPlanes, Sound(c), c.attached
    PROVE  Balance([cp |-> c, acts |-> <<>>], StillOwed(c))
<1> DEFINE b == [cp |-> c, acts |-> <<>>]
<1>1. b.cp = c /\ b.acts = <<>> /\ StillOwed(c) \in Seq(ControllerLines)
    BY OwedFacts
<1>2. \A r : Seen(r, b.acts) = r
    BY <1>1, SeenNothing
<1>3. \A q : Ledger(q).ok
    BY DEF Ledger
<1> HIDE DEF b
<1>4. QED
    BY <1>1, <1>2, <1>3 DEF Balance, b

LEMMA AppendBehind ==
    ASSUME NEW o \in Seq(ControllerLines), NEW k \in Seq(ControllerLines), NEW l \in ControllerLines
    PROVE  Append(o \o k, l) = o \o Append(k, l)
OBVIOUS

(* What the lines of a read ask for, behind what was asked before. *)
LEMMA AskedIsFold ==
    ASSUME NEW ls \in Seq(ControllerLines), NEW o \in Seq(ControllerLines)
    PROVE  AN!Fold(o, ls) = o \o Asked(ls)
<1> DEFINE n == Len(ls)
<1>1. Asked(ls) = AN!Fold(<<>>, ls)
    BY DEF Asked, AskNext, FoldLeft, MapThenFoldSet, AN!Fold, AN!Largest, Max
<1>2. PICK v : AN!IsTrace(o, ls, v) /\ AN!Fold(o, ls) = v[n]
    BY AN!FoldTrace
<1>3. n \in Nat /\ \A i \in 1 .. n : ls[i] \in ControllerLines
    OBVIOUS
<1> DEFINE T == [i \in 0 .. n |-> {k \in Seq(ControllerLines) : v[i] = o \o k}]
<1>4. <<>> \in T[0]
    <2>1. v[0] = o
        BY <1>2 DEF AN!IsTrace
    <2>2. <<>> \in Seq(ControllerLines) /\ o \o <<>> = o
        OBVIOUS
    <2>3. 0 \in 0 .. n
        BY <1>3
    <2>4. QED
        BY <2>1, <2>2, <2>3
<1>5. ASSUME NEW i \in 1 .. n, NEW k \in T[i - 1] PROVE AskNext(k, ls[i]) \in T[i]
    <2>1. i - 1 \in 0 .. n /\ i \in 0 .. n /\ i - 1 \in 0 .. n - 1 /\ (i - 1) + 1 = i
        BY <1>3
    <2>2. k \in Seq(ControllerLines) /\ v[i - 1] = o \o k
        BY <2>1
    <2>3. v[i] = AskNext(v[i - 1], ls[i])
        BY <1>2, <2>1 DEF AN!IsTrace
    <2> DEFINE l == ls[i]
               p == v[i - 1]
    <2>4. l \in ControllerLines
        BY <1>3
    <2>5. AskNext(k, l) \in Seq(ControllerLines)
        BY <2>2, <2>4 DEF AskNext
    <2>6. Append(o \o k, l) = o \o Append(k, l)
        <3> HIDE DEF l
        <3>1. o \in Seq(ControllerLines) /\ k \in Seq(ControllerLines) /\ l \in ControllerLines
            BY <2>2, <2>4
        <3>2. QED
            BY ONLY <3>1, AppendBehind
    <2>7. AskNext(p, l) = o \o AskNext(k, l)
        BY <2>2, <2>6 DEF AskNext
    <2>8. QED
        BY <2>1, <2>3, <2>5, <2>7
<1> HIDE DEF T, n
<1>6. AN!Fold(<<>>, ls) \in T[n]
    BY <1>3, <1>4, <1>5, AN!FoldAdvances DEF n
<1>7. n \in 0 .. n
    BY <1>3
<1>8. QED
    BY <1>1, <1>2, <1>6, <1>7 DEF T

LEMMA AskedFacts ==
    ASSUME NEW ls \in Seq(ControllerLines), NEW o \in Seq(ControllerLines)
    PROVE  Asked(ls) \in Seq(ControllerLines) /\ o \o Asked(ls) \in Seq(ControllerLines)
<1> DEFINE S == Seq(ControllerLines)
<1>1. Asked(ls) = AN!Fold(<<>>, ls)
    BY DEF Asked, AskNext, FoldLeft, MapThenFoldSet, AN!Fold, AN!Largest, Max
<1>2. \A i \in 1 .. Len(ls) : ls[i] \in ControllerLines
    OBVIOUS
<1>3. ASSUME NEW i \in 1 .. Len(ls), NEW k \in S PROVE AskNext(k, ls[i]) \in S
    BY <1>2 DEF AskNext
<1>4. <<>> \in S
    OBVIOUS
<1> HIDE DEF S
<1>5. AN!Fold(<<>>, ls) \in S
    BY <1>3, <1>4, AN!FoldStaysIn
<1>6. Asked(ls) \in Seq(ControllerLines)
    BY <1>1, <1>5 DEF S
<1>7. QED
    BY <1>6

(* A read of lines answers them, or owes their answers. *)
LEMMA HandleBytesBalances ==
    ASSUME NEW c \in ControlPlanes, Sound(c), c.attached, ~c.terminal, ~c.failed,
           NEW ls \in Seq(ControllerLines)
    PROVE  LET s == HandleBytes(c, ls)
           IN  Balance(s, StillOwed(c) \o Asked(ls)) /\ Sound(s.cp)
<1> DEFINE c0 == Executed(c)
           b == [cp |-> c0, acts |-> <<>>]
           o == StillOwed(c)
           n == Len(ls)
<1>1. /\ Settled(c0) /\ c0 \in ControlPlanes /\ c0.attached /\ ~c0.terminal /\ ~c0.failed
      /\ Sound(c0) /\ StillOwed(c0) = o
    BY ExecutedFacts, ExecutedOwes DEF OnlyFlightQueue, Kept, Same, Settled
<1>2. HandleBytes(c, ls) = PL!Fold(b, ls)
    <2>1. HandleBytes(c, ls) = FoldLeft(ProcessLine, b, ls)
        BY DEF HandleBytes
    <2>2. FoldLeft(ProcessLine, b, ls) = PL!Fold(b, ls)
        BY DEF FoldLeft, MapThenFoldSet, PL!Fold, PL!Largest, Max
    <2>3. QED
        BY <2>1, <2>2
<1> HIDE DEF c0, o
<1>3. InBalance(c0, b, o)
    <2>1. <<>> \in Seq(PlainActions) /\ Len(<<>>) <= 1
        OBVIOUS
    <2>2. b \in Batches(c0) /\ b.cp = c0
        BY <1>1, <2>1, EmptyBatch
    <2>3. Balance(b, o)
        BY <1>1, NothingSaid
    <2> HIDE DEF b
    <2>4. QED
        BY <1>1, <2>2, <2>3 DEF InBalance
<1>4. o \in Seq(ControllerLines)
    BY OwedFacts DEF o
<1>5. PICK v : AN!IsTrace(o, ls, v) /\ AN!Fold(o, ls) = v[n]
    BY AN!FoldTrace
<1>6. n \in Nat /\ \A i \in 1 .. n : ls[i] \in ControllerLines
    OBVIOUS
<1> HIDE DEF b
<1> DEFINE T == [i \in 0 .. n |-> {s \in Batches(c0) : InBalance(c0, s, v[i])}]
<1>7. b \in T[0]
    <2>1. v[0] = o /\ 0 \in 0 .. n
        BY <1>5, <1>6 DEF AN!IsTrace
    <2>2. b \in Batches(c0)
        BY <1>3 DEF InBalance
    <2>3. QED
        BY <1>3, <2>1, <2>2
<1>8. ASSUME NEW i \in 1 .. n, NEW s \in T[i - 1] PROVE ProcessLine(s, ls[i]) \in T[i]
    <2>1. i - 1 \in 0 .. n /\ i \in 0 .. n /\ i - 1 \in 0 .. n - 1 /\ (i - 1) + 1 = i
        BY <1>6
    <2>2. s \in Batches(c0) /\ InBalance(c0, s, v[i - 1])
        BY <2>1
    <2>3. v[i] = AskNext(v[i - 1], ls[i])
        BY <1>5, <2>1 DEF AN!IsTrace
    <2>4. ls[i] \in ControllerLines
        BY <1>6
    <2>5. InBalance(c0, ProcessLine(s, ls[i]), AskNext(v[i - 1], ls[i]))
        BY <1>1, <2>2, <2>4, ProcessLineBalances
    <2>6. ProcessLine(s, ls[i]) \in Batches(c0)
        BY <2>5 DEF InBalance
    <2>7. QED
        BY <2>1, <2>3, <2>5, <2>6
<1> HIDE DEF T, n
<1>9. PL!Fold(b, ls) \in T[n]
    BY <1>6, <1>7, <1>8, PL!FoldAdvances DEF n
<1>10. n \in 0 .. n
    BY <1>6
<1>11. InBalance(c0, HandleBytes(c, ls), v[n])
    BY <1>2, <1>9, <1>10 DEF T
<1>12. v[n] = o \o Asked(ls)
    BY <1>4, <1>5, AskedIsFold
<1>13. QED
    BY <1>11, <1>12 DEF InBalance, o

(* The commands of a queue, one at a time, behind what was owed before. *)
CmdNext(o, q) == Append(o, q.cmd)
CN == INSTANCE Folding WITH Op <- CmdNext

LEMMA CmdsIsFold ==
    ASSUME NEW queue \in Seq(Entries), NEW o \in Seq(ControllerLines)
    PROVE  CN!Fold(o, queue) = o \o Cmds(queue)
<1> DEFINE n == Len(queue)
           k == Cmds(queue)
<1>1. /\ k \in Seq(ControllerCommands) /\ Len(k) = n
      /\ \A i \in 1 .. n : k[i] = queue[i].cmd
    BY CmdsFacts
<1>2. k \in Seq(ControllerLines) /\ n \in Nat
    BY <1>1, CommandTypes, SeqGrows
<1> HIDE DEF k
<1>3. k = [i \in 1 .. n |-> k[i]] /\ \A i \in 1 .. n : k[i] \in ControllerLines
    BY <1>1, <1>2
<1> DEFINE T == [i \in 0 .. n |-> {o \o SubSeq(k, 1, i)}]
<1>4. o \in T[0]
    <2>1. SubSeq(k, 1, 0) = <<>>
        BY <1>2
    <2>2. o \o <<>> = o
        OBVIOUS
    <2>3. 0 \in 0 .. n
        BY <1>2
    <2>4. T[0] = {o \o SubSeq(k, 1, 0)}
        BY <2>3
    <2>5. QED
        BY <2>1, <2>2, <2>4
<1>5. ASSUME NEW i \in 1 .. n, NEW p \in T[i - 1] PROVE CmdNext(p, queue[i]) \in T[i]
    <2> DEFINE a == SubSeq(k, 1, i - 1)
               b == SubSeq(k, 1, i)
               l == k[i]
    <2>1. i - 1 \in 0 .. n /\ i \in 0 .. n
        BY <1>2
    <2>2. p = o \o a
        BY <2>1
    <2>3. l = queue[i].cmd /\ l \in ControllerLines
        BY <1>1, <1>3
    <2>4. a \in Seq(ControllerLines) /\ b = Append(a, l)
        BY <1>1, <1>2
    <2> HIDE DEF a, b, l
    <2>5. Append(o \o a, l) = o \o Append(a, l)
        <3>1. o \in Seq(ControllerLines) /\ a \in Seq(ControllerLines) /\ l \in ControllerLines
            BY <2>3, <2>4
        <3>2. QED
            BY ONLY <3>1, AppendBehind
    <2>6. T[i] = {o \o b}
        BY <2>1 DEF b
    <2>7. QED
        BY <2>2, <2>3, <2>4, <2>5, <2>6 DEF CmdNext
<1>6. CN!Fold(o, queue) \in T[n]
    <2> HIDE DEF T, n
    <2>1. QED
        BY <1>4, <1>5, CN!FoldAdvances DEF n
<1>7. n \in 0 .. n /\ SubSeq(k, 1, n) = k
    BY <1>1, <1>2
<1>8. T[n] = {o \o k}
    BY <1>7
<1>9. QED
    BY <1>6, <1>8 DEF k

-----------------------------------------------------------------------------
(* Only a stop makes the Session stop. *)
LEMMA OtherCommandsGoOn ==
    ASSUME NEW c0, NEW s \in Batches(c0), NEW l \in ControllerCommands, l.type # "stop"
    PROVE  ProcessCommand(s, l).cp.stopping = s.cp.stopping
<1> DEFINE z == ProcessCommand(s, l)
<1>1. s.cp \in ControlPlanes /\ s = [cp |-> s.cp, acts |-> s.acts] /\ s.cp.confirmed \in Profiles
    BY DEF Batches, ControlPlanes
<1>2. l.type \in {"change", "help", "status", "stop", "detach"}
    BY CommandTypes
<1>3. \/ \E t : z = Say(s, t)
      \/ \E u \in {"ERROR too many", "DETACHED"} : z = SayAndDisconnect(s, Text(u))
      \/ z = [s EXCEPT !.cp.queue = Append(@, [cmd |-> l, gen |-> s.cp.gen])]
      \/ z = [cp |-> [s.cp EXCEPT !.inflight =
                        [change |-> l.change, reply |-> s.cp.gen, unexecuted |-> TRUE]],
              acts |-> Append(s.acts, Dispatch(l.change))]
    BY <1>2 DEF ProcessCommand
<1> HIDE DEF z
<1>4. ASSUME NEW t, z = Say(s, t) PROVE z.cp.stopping = s.cp.stopping
    BY <1>1, <1>4 DEF Say
<1>5. ASSUME NEW u \in {"ERROR too many", "DETACHED"}, z = SayAndDisconnect(s, Text(u))
      PROVE  z.cp.stopping = s.cp.stopping
    <2> DEFINE t == Text(u)
               said == Say(s, t)
    <2>1. t \in Texts
        BY TextTypes
    <2> HIDE DEF t
    <2>2. said.cp = s.cp
        BY <2>1, SayKeeps
    <2>3. z.cp = DisconnectController(said.cp)
        BY <1>5 DEF SayAndDisconnect, t
    <2> HIDE DEF said
    <2>4. QED
        BY <1>1, <2>2, <2>3, Disconnected
<1>6. CASE z = [s EXCEPT !.cp.queue = Append(@, [cmd |-> l, gen |-> s.cp.gen])]
    BY <1>1, <1>6 DEF ControlPlanes, z
<1>7. CASE z = [cp |-> [s.cp EXCEPT !.inflight =
                          [change |-> l.change, reply |-> s.cp.gen, unexecuted |-> TRUE]],
                acts |-> Append(s.acts, Dispatch(l.change))]
    BY <1>1, <1>7 DEF ControlPlanes, z
<1>8. QED
    BY <1>3, <1>4, <1>5, <1>6, <1>7 DEF z

(* What the queue holds is answered, or owed, behind what was owed before. *)
LEMMA DrainNextBalances ==
    ASSUME NEW c0, Settled(c0), NEW r, NEW o, InBalance(c0, r, o), ~r.cp.stopping,
           NEW q \in Entries, q.gen = r.cp.gen, q.cmd.type # "stop"
    PROVE  InBalance(c0, DrainNext(r, q), CmdNext(o, q)) /\ ~DrainNext(r, q).cp.stopping
<1> DEFINE z == DrainNext(r, q)
           l == q.cmd
<1>1. /\ r \in Batches(c0) /\ Balance(r, o) /\ Sound(r.cp) /\ ~r.cp.terminal /\ ~r.cp.failed
    BY DEF InBalance
<1>2. r.cp \in ControlPlanes /\ r = [cp |-> r.cp, acts |-> r.acts] /\ r.cp.queue \in Queues
    BY <1>1 DEF Batches, ControlPlanes
<1>3. l \in ControllerCommands /\ l \in ControllerLines /\ CmdNext(o, q) = Append(o, l)
    BY CommandTypes DEF Entries, CmdNext
<1>4. CASE r.cp.attached /\ InFlight(r.cp)
    <2> DEFINE p == Append(r.cp.queue, q)
               d == [r.cp EXCEPT !.queue = p]
    <2>1. z = [cp |-> d, acts |-> r.acts]
        BY <1>2, <1>4 DEF DrainNext
    <2>2. Balance(z, Append(o, q.cmd)) /\ Sound(z.cp)
        BY <1>1, <1>4, <2>1, QueueBalances
    <2>3. p \in Queues
        BY <1>2 DEF Queues, Entries
    <2> HIDE DEF p, z
    <2>4. d \in ControlPlanes
        BY <1>2, <2>3 DEF ControlPlanes
    <2>5. /\ d.inflight = r.cp.inflight /\ d.attached = r.cp.attached
          /\ d.stopping = r.cp.stopping /\ Kept(r.cp, d)
        BY <1>2 DEF ControlPlanes, Kept
    <2> HIDE DEF d
    <2>6. z \in Batches(c0)
        BY <1>1, <2>1, <2>4, <2>5 DEF Batches, Kept
    <2>7. ~z.cp.terminal /\ ~z.cp.failed /\ ~z.cp.stopping
        BY <1>1, <2>1, <2>5 DEF Kept
    <2>8. QED
        BY <1>3, <2>2, <2>6, <2>7 DEF InBalance, z
<1>5. CASE r.cp.attached /\ ~InFlight(r.cp)
    <2>1. z = ProcessCommand(r, l)
        BY <1>5 DEF DrainNext
    <2>2. Balance(ProcessCommand(r, l), Append(o, l)) /\ Sound(ProcessCommand(r, l).cp)
        BY <1>1, <1>3, <1>5, ProcessCommandBalances
    <2>3. ProcessCommand(r, l) \in Batches(c0)
        BY <1>1, <1>3, ProcessCommandKeeps
    <2>4. ~ProcessCommand(r, l).cp.stopping
        BY <1>1, <1>3, OtherCommandsGoOn
    <2>5. \A s \in Batches(c0) : s.cp.terminal = c0.terminal /\ s.cp.failed = c0.failed
        BY DEF Batches, Kept
    <2>6. QED
        BY <1>1, <1>3, <2>1, <2>2, <2>3, <2>4, <2>5 DEF InBalance
<1>6. CASE ~r.cp.attached
    <2>1. z = r
        BY <1>6 DEF DrainNext
    <2>2. Balance(r, Append(o, l))
        BY <1>1, <1>3, <1>6, ClosedBalances
    <2>3. QED
        BY <1>1, <1>3, <2>1, <2>2 DEF InBalance
<1>7. QED
    BY <1>4, <1>5, <1>6

LEMMA DrainQueueBalances ==
    ASSUME NEW c0, Settled(c0), NEW s \in Batches(c0), NEW o, NEW b,
           b = [cp |-> [s.cp EXCEPT !.queue = <<>>], acts |-> s.acts],
           InBalance(c0, b, o),
           \A i \in 1 .. Len(s.cp.queue) :
              /\ s.cp.queue[i].gen = s.cp.gen /\ s.cp.queue[i].cmd.type # "stop"
              /\ ~s.cp.stopping
    PROVE  InBalance(c0, DrainQueue(s), o \o Cmds(s.cp.queue))
<1> DEFINE queue == s.cp.queue
           n == Len(queue)
<1>1. /\ s.cp \in ControlPlanes /\ s = [cp |-> s.cp, acts |-> s.acts] /\ queue \in Seq(Entries)
    BY DEF Batches, ControlPlanes, Queues, Entries
<1>2. n \in Nat /\ \A i \in 1 .. n : queue[i] \in Entries
    BY <1>1, ElementOf
<1>3. DrainQueue(s) = DQ!Fold(b, queue)
    <2>1. b = [s EXCEPT !.cp.queue = <<>>]
        BY <1>1
    <2> DEFINE b0 == [s EXCEPT !.cp.queue = <<>>]
    <2>2. DrainQueue(s) = DQ!Fold(b0, s.cp.queue)
        <3> HIDE DEF b0
        <3>1. QED
            BY ONLY DEF DrainQueue, DrainNext, FoldLeft, MapThenFoldSet, DQ!Fold, DQ!Largest,
                        Max, b0
    <2>3. QED
        BY <2>1, <2>2
<1>4. b.cp.stopping = s.cp.stopping /\ b.cp.gen = s.cp.gen /\ b \in Batches(c0)
    BY <1>1 DEF ControlPlanes, InBalance
<1>5. s.cp.gen = c0.gen /\ \A r \in Batches(c0) : r.cp.gen = c0.gen
    BY DEF Batches, Kept
<1>6. o \in Seq(ControllerLines)
    BY DEF InBalance, Balance
<1>7. PICK v : CN!IsTrace(o, queue, v) /\ CN!Fold(o, queue) = v[n]
    BY <1>1, CN!FoldTrace
<1>8. \A i \in 1 .. n : queue[i].gen = c0.gen /\ queue[i].cmd.type # "stop" /\ ~s.cp.stopping
    BY <1>5
<1>9. CN!Fold(o, queue) = o \o Cmds(queue)
    BY <1>1, <1>6, CmdsIsFold
<1>10. b.cp.stopping => n = 0
    <2>1. CASE n # 0
        <3>1. 1 \in 1 .. n
            BY <1>2, <2>1
        <3>2. QED
            BY <1>4, <1>8, <3>1
    <2>2. QED
        BY <2>1
<1> HIDE DEF queue, n
<1> DEFINE Good(r) == r.cp.stopping => n = 0
           T == [i \in 0 .. n |-> {r \in Batches(c0) : InBalance(c0, r, v[i]) /\ Good(r)}]
<1>11. b \in T[0]
    <2>1. v[0] = o /\ 0 \in 0 .. n
        BY <1>2, <1>7 DEF CN!IsTrace
    <2>2. QED
        BY <1>4, <1>10, <2>1
<1>12. ASSUME NEW i \in 1 .. n, NEW r \in T[i - 1] PROVE DrainNext(r, queue[i]) \in T[i]
    <2>1. i - 1 \in 0 .. n /\ i \in 0 .. n /\ i - 1 \in 0 .. n - 1 /\ (i - 1) + 1 = i /\ n # 0
        BY <1>2
    <2>2. r \in Batches(c0) /\ InBalance(c0, r, v[i - 1]) /\ ~r.cp.stopping
        <3> HIDE DEF Good
        <3>1. r \in Batches(c0) /\ InBalance(c0, r, v[i - 1]) /\ Good(r)
            BY <2>1
        <3>2. QED
            BY <2>1, <3>1 DEF Good
    <2>3. v[i] = CmdNext(v[i - 1], queue[i])
        BY <1>7, <2>1 DEF CN!IsTrace, n
    <2> DEFINE q == queue[i]
               p == v[i - 1]
    <2>4. q \in Entries /\ q.gen = r.cp.gen /\ q.cmd.type # "stop"
        BY <1>2, <1>5, <1>8, <2>2
    <2>5. InBalance(c0, r, p)
        BY <2>2
    <2> HIDE DEF q, p, T
    <2>6. InBalance(c0, DrainNext(r, q), CmdNext(p, q)) /\ ~DrainNext(r, q).cp.stopping
        BY <2>2, <2>4, <2>5, DrainNextBalances
    <2>7. DrainNext(r, q) \in Batches(c0)
        BY <2>6 DEF InBalance
    <2>8. Good(DrainNext(r, q))
        BY <2>6
    <2> HIDE DEF Good
    <2>9. QED
        BY <2>1, <2>3, <2>6, <2>7, <2>8 DEF q, p, T
<1> HIDE DEF T, Good
<1>13. DQ!Fold(b, queue) \in T[n]
    BY <1>1, <1>11, <1>12, DQ!FoldAdvances DEF n
<1>14. n \in 0 .. n
    BY <1>2
<1>15. QED
    BY <1>3, <1>7, <1>9, <1>13, <1>14 DEF T, queue

-----------------------------------------------------------------------------
Emptied(c) == [c EXCEPT !.queue = <<>>]
ResultText(result) == IF result = "applied" THEN "PROFILE_CHANGED" ELSE "ERROR profile"
ResultAnswer(c, result, change) ==
    IF Answerable(Executed(c)) THEN <<Send(ReplyText(ResultText(result), change))>> ELSE <<>>

(* The control plane once its change is over, before the queue is looked at. *)
LEMMA LandedIsSound ==
    ASSUME NEW c \in ControlPlanes, Sound(c), NEW result, NEW change \in Changes,
           NEW b, b = Emptied(Landed(c, result, change))
    PROVE  /\ b \in ControlPlanes /\ b.queue = <<>> /\ b.inflight = NoFlight
           /\ Kept(Landed(c, result, change), b)
           /\ b.attached = c.attached /\ b.gen = c.gen /\ Same(c, b)
           /\ Sound(b) /\ StillOwed(b) = <<>>
<1> DEFINE d == Landed(c, result, change)
<1>1. /\ d \in ControlPlanes /\ d.inflight = NoFlight /\ Same(c, d)
      /\ d.attached = c.attached /\ d.gen = c.gen
    BY LandedFacts DEF Settled
<1>2. b = [d EXCEPT !.queue = <<>>]
    BY DEF Emptied
<1> HIDE DEF d
<1>3. b \in ControlPlanes /\ b.queue = <<>> /\ b.inflight = d.inflight /\ b.attached = d.attached
      /\ Kept(d, b) /\ Same(d, b)
    BY <1>1, <1>2, EmptyQueue DEF ControlPlanes, Kept, Same
<1>4. ~InFlight(b) /\ b.inflight.reply = 0
    BY <1>1, <1>3 DEF InFlight, NoFlight
<1>5. b.attached => b.gen # 0
    BY <1>1, <1>3 DEF Sound, Kept
<1>6. Sound(b)
    BY <1>3, <1>4, <1>5, SilencedIsSound DEF Silenced
<1>7. StillOwed(b) = <<>>
    BY <1>3, <1>4, OwedNothing
<1>8. QED
    BY <1>1, <1>3, <1>6, <1>7 DEF Kept, Same, d

LEMMA OneOrNothing ==
    /\ \A a \in BatchActions : <<a>> = Append(<<>>, a)
    /\ <<>> \in Seq(BatchActions)
    /\ \A rest \in Seq(ControllerLines) : <<>> \o rest = rest
    /\ <<>> \in Seq(ControllerLines)
<1>1. \A a \in BatchActions : <<a>> = Append(<<>>, a)
    OBVIOUS
<1>2. <<>> \in Seq(BatchActions)
    OBVIOUS
<1>3. \A rest \in Seq(ControllerLines) : <<>> \o rest = rest
    OBVIOUS
<1>4. <<>> \in Seq(ControllerLines)
    OBVIOUS
<1>5. QED
    BY <1>1, <1>2, <1>3, <1>4

(* The result of a change is told to who has asked for it, where it may be  *)
(* told,                                                                    *)
LEMMA AnswerBalances ==
    ASSUME NEW c \in ControlPlanes, Sound(c), c.attached, ~c.terminal, ~c.failed,
           NEW result \in {"applied", "restored"}, NEW change \in Changes,
           c.inflight.change = change, NEW answer,
           answer = ResultAnswer(c, result, change)
    PROVE  /\ Own(c) \in Seq(ControllerLines)
           /\ \A rest \in Seq(ControllerLines) :
                 Seen(Ledger(Own(c) \o rest), answer) = Ledger(rest)
<1> DEFINE e == Executed(c)
           t == ResultText(result)
           u == ReplyText(t, change)
           l == SetCommand(change)
<1>1. /\ e.gen = c.gen /\ e.attached = c.attached /\ e.stopping = c.stopping
      /\ e.terminal = c.terminal /\ e.failed = c.failed /\ e.inflight.reply = c.inflight.reply
    BY ExecutedFacts DEF OnlyFlightQueue, Kept, Same
<1>2. InFlight(c)
    BY ONLY NoChangeAssumption, c.inflight.change = change, change \in Changes
       DEF InFlight, NoFlight
<1>3. answer = IF Answerable(e) THEN <<Send(u)>> ELSE <<>>
    BY DEF ResultAnswer
<1>4. t \in {"PROFILE_CHANGED", "ERROR profile"}
    BY DEF ResultText
<1>5. u \in Texts /\ u.text = t /\ u.change = change
    BY <1>4, TextTypes DEF ReplyText, Text
<1>6. l \in ControllerLines /\ l.type = "change" /\ l.change = change
    BY CommandTypes
<1> HIDE DEF e
<1>7. Answerable(e) <=> c.inflight.reply = c.gen
    BY <1>1 DEF Answerable, Sound
<1>8. CASE c.inflight.reply = c.gen
    <2>1. Own(c) = <<l>>
        BY <1>2, <1>8 DEF Own
    <2>2. answer = <<Send(u)>>
        BY <1>3, <1>7, <1>8
    <2> HIDE DEF u, l
    <2>3. u.text \in Ordinary /\ Answers(u, l)
        <3>1. CASE t = "PROFILE_CHANGED"
            BY ONLY <3>1, <1>5, <1>6 DEF Ordinary, Answers
        <3>2. CASE t = "ERROR profile"
            BY ONLY <3>2, <1>5, <1>6 DEF Ordinary, Answers
        <3>3. QED
            BY ONLY <3>1, <3>2, <1>4
    <2>4. <<l>> \in Seq(ControllerLines)
        BY ONLY <1>6
    <2> DEFINE a == Send(u)
    <2>5. a \in BatchActions /\ a.type = "send" /\ a.text = u
        BY <1>5, ActionTypes DEF Send, BatchActions
    <2> HIDE DEF a
    <2>6. <<a>> = Append(<<>>, a) /\ <<>> \in Seq(BatchActions)
        BY ONLY <2>5, OneOrNothing
    <2>7. \A r : Seen(r, <<a>>) = Observe(r, u)
        BY <2>5, <2>6, SeenAppend, SeenNothing DEF SeenNext
    <2>8. \A rest \in Seq(ControllerLines) : Observe(Ledger(<<l>> \o rest), u) = Ledger(rest)
        BY <1>6, <2>3, ObserveAnswer
    <2>9. QED
        BY <2>1, <2>2, <2>4, <2>7, <2>8 DEF a
<1>9. CASE c.inflight.reply # c.gen
    <2>1. Own(c) = <<>>
        BY <1>9 DEF Own
    <2>2. answer = <<>>
        BY <1>3, <1>7, <1>9
    <2>3. <<>> \in Seq(ControllerLines) /\ \A rest \in Seq(ControllerLines) : <<>> \o rest = rest
        BY ONLY OneOrNothing
    <2>4. QED
        BY <2>1, <2>2, <2>3, SeenNothing
<1>10. QED
    BY <1>8, <1>9

(* and what is queued behind it goes on. *)
LEMMA ResultBalances ==
    ASSUME NEW c \in ControlPlanes, Sound(c), c.attached, ~c.terminal, ~c.failed,
           NEW result \in {"applied", "restored"}, NEW change \in Changes,
           c.inflight.change = change
    PROVE  LET s == HandleResult(c, result, change)
           IN  Balance(s, StillOwed(c)) /\ Sound(s.cp)
<1> DEFINE e == Executed(c)
           d == Landed(c, result, change)
           s == HandleResult(c, result, change)
           t == ResultText(result)
           u == ReplyText(t, change)
           answer == ResultAnswer(c, result, change)
           reply == [cp |-> d, acts |-> answer]
           b == Emptied(d)
           bb == [cp |-> b, acts |-> answer]
           o == Own(c)
<1>1. e.inflight.change = change /\ ~e.terminal /\ ~e.failed
    BY ExecutedFacts DEF Same
<1>2. Settled(d) /\ d.queue = c.queue /\ d.attached = c.attached /\ d.gen = c.gen /\ Same(c, d)
    BY LandedFacts
<1>3. s = DrainQueue(reply)
    BY <1>1 DEF HandleResult, Landed, ResultAnswer, ResultText
<1>4. answer \in Seq(PlainActions) /\ Len(answer) <= 1
    <2>1. u \in Texts
        <3>1. t \in {"PROFILE_CHANGED", "ERROR profile"}
            BY DEF ResultText
        <3> HIDE DEF t
        <3>2. QED
            BY <3>1, TextTypes
    <2>2. Send(u) \in PlainActions
        BY <2>1, ActionTypes
    <2>3. answer = <<Send(u)>> \/ answer = <<>>
        BY DEF ResultAnswer
    <2> HIDE DEF u, answer
    <2>4. <<Send(u)>> \in Seq(PlainActions) /\ Len(<<Send(u)>>) = 1
        BY <2>2
    <2>5. <<>> \in Seq(PlainActions) /\ Len(<<>>) = 0
        OBVIOUS
    <2>6. CASE answer = <<Send(u)>>
        BY <2>4, <2>6
    <2>7. CASE answer = <<>>
        BY <2>5, <2>7
    <2>8. QED
        BY <2>3, <2>6, <2>7
<1>7. d.inflight = NoFlight
    BY LandedFacts
<1> HIDE DEF e, d, s, t, u, answer, b
<1>17. /\ o \in Seq(ControllerLines)
      /\ \A rest \in Seq(ControllerLines) : Seen(Ledger(o \o rest), answer) = Ledger(rest)
    BY ONLY AnswerBalances, c \in ControlPlanes, Sound(c), c.attached, ~c.terminal, ~c.failed,
            result \in {"applied", "restored"}, change \in Changes, c.inflight.change = change
       DEF answer, o
<1>18. /\ b \in ControlPlanes /\ b.queue = <<>> /\ b.inflight = NoFlight
      /\ Kept(d, b) /\ b.attached = c.attached /\ b.gen = c.gen /\ Same(c, b)
      /\ Sound(b) /\ StillOwed(b) = <<>>
    BY ONLY LandedIsSound, c \in ControlPlanes, Sound(c), change \in Changes DEF b, d
<1>8. reply \in Batches(d) /\ reply.cp = d /\ reply.acts = answer
    BY <1>2, <1>4, EmptyBatch
<1> HIDE DEF reply
<1>9. bb.cp = b /\ bb.acts = answer
    OBVIOUS
<1>10. bb = [cp |-> [reply.cp EXCEPT !.queue = <<>>], acts |-> reply.acts]
    BY <1>8 DEF b, Emptied
<1> HIDE DEF bb, b, o
<1>11. bb \in Batches(d)
    <2>1. bb = [cp |-> b, acts |-> answer] /\ b.stopping = d.stopping /\ b.inflight = d.inflight
          /\ b.attached = d.attached
        BY <1>2, <1>18, <1>7, <1>9 DEF bb, Same
    <2>2. QED
        BY <1>18, <1>8, <2>1 DEF Batches, Kept
<1>12. Balance(bb, o)
    <2>1. \A rest \in Seq(ControllerLines) : <<>> \o rest = rest
        OBVIOUS
    <2>2. \A q : Ledger(q).ok
        BY DEF Ledger
    <2>3. QED
        BY <1>17, <1>18, <1>9, <2>1, <2>2 DEF Balance
<1>13. InBalance(d, bb, o)
    BY <1>18, <1>9, <1>11, <1>12 DEF InBalance, Same
<1>14. \A i \in 1 .. Len(reply.cp.queue) :
          /\ reply.cp.queue[i].gen = reply.cp.gen /\ reply.cp.queue[i].cmd.type # "stop"
          /\ ~reply.cp.stopping
    <2>1. CASE c.queue = <<>>
        <3>1. \A i \in 1 .. Len(<<>>) : FALSE
            OBVIOUS
        <3>2. QED
            BY <1>2, <1>8, <2>1, <3>1
    <2>2. CASE c.queue # <<>>
        BY <1>2, <1>8, <2>2 DEF Sound, Same
    <2>3. QED
        BY <2>1, <2>2
<1>15. InBalance(d, DrainQueue(reply), o \o Cmds(reply.cp.queue))
    BY <1>2, <1>8, <1>10, <1>13, <1>14, DrainQueueBalances
<1>16. QED
    BY <1>2, <1>3, <1>8, <1>15 DEF InBalance, StillOwed, s, o

-----------------------------------------------------------------------------
(* What one action of a batch is for the Controller. *)
Telling(x, a, y) ==
    /\ x.halted => y = x
    /\ ~x.halted /\ a.type \in {"stop", "fail_session"} =>
          y.cp = x.cp /\ y.client = x.client /\ y.texts = x.texts /\ ~y.halted
    /\ ~x.halted /\ a.type = "dispatch" =>
          y.cp = x.cp /\ y.client = x.client /\ y.texts = x.texts
    /\ ~x.halted /\ a.type = "disconnect" =>
          y.cp = x.cp /\ y.client = "none" /\ y.texts = x.texts /\ ~y.halted
    /\ ~x.halted /\ a.type = "send" =>
          IF x.client = "open"
            THEN y.cp = x.cp /\ y.client = x.client /\ y.texts = Append(x.texts, a.text)
                 /\ ~y.halted
            ELSE y.cp = HandleWriteFailed(x.cp).cp /\ y.client = "none" /\ y.texts = x.texts
                 /\ y.halted

LEMMA ExecuteTells ==
    ASSUME NEW P, BatchEvents \subseteq P, NEW x \in Adapters(P),
           NEW a \in BatchActions \cup {FailSession}
    PROVE  Telling(x, a, Execute(x, a))
<1> DEFINE y == Execute(x, a)
<1>1. \A k \in {"stop_requested", "conversation_lost", "profile_state_unknown"} :
          [kind |-> k, value |-> 0] \in P
    BY DEF BatchEvents, Event
<1>2. a.type \in {"stop", "disconnect", "send", "dispatch", "fail_session"}
    BY DEF BatchActions, PlainActions, Dispatches, FailSession, Action
<1>3. CASE x.halted
    <2>1. y = x
        BY <1>3 DEF Execute
    <2> HIDE DEF y
    <2>2. QED
        BY <1>3, <2>1 DEF Telling, y
<1>4. CASE ~x.halted /\ a.type \in {"stop", "fail_session"}
    <2> DEFINE k == IF a.type = "stop" THEN "stop_requested" ELSE "profile_state_unknown"
               z == Push(x, k, 0)
    <2>1. y = z
        BY <1>4 DEF Execute
    <2>2. [kind |-> k, value |-> 0] \in P
        BY <1>1
    <2> HIDE DEF k, y
    <2>3. z.cp = x.cp /\ z.client = x.client /\ z.texts = x.texts /\ z.halted = x.halted
        BY <2>2, PushFacts
    <2> HIDE DEF z
    <2>4. QED
        BY <1>4, <2>1, <2>3 DEF Telling, y
<1>5. CASE ~x.halted /\ a.type = "disconnect"
    <2>1. y = [x EXCEPT !.client = "none"]
        BY <1>5 DEF Execute
    <2> HIDE DEF y
    <2>2. y.cp = x.cp /\ y.client = "none" /\ y.texts = x.texts /\ y.halted = x.halted
        BY <2>1 DEF Adapters
    <2>3. QED
        BY <1>5, <2>2 DEF Telling, y
<1>6. CASE ~x.halted /\ a.type = "send" /\ x.client = "open"
    <2>1. y = [x EXCEPT !.texts = Append(@, a.text)]
        BY <1>6 DEF Execute
    <2> HIDE DEF y
    <2>2. y.cp = x.cp /\ y.client = x.client /\ y.texts = Append(x.texts, a.text)
          /\ y.halted = x.halted
        BY <2>1 DEF Adapters
    <2>3. QED
        BY <1>6, <2>2 DEF Telling, y
<1>7. CASE ~x.halted /\ a.type = "send" /\ x.client # "open"
    <2>1. y = WriteFailed(x)
        BY <1>7 DEF Execute
    <2> HIDE DEF y
    <2>2. y.texts = x.texts /\ y.halted /\ y.client = "none" /\ y.cp = HandleWriteFailed(x.cp).cp
        BY <2>1, WriteFailedFacts
    <2>3. QED
        BY <1>7, <2>2 DEF Telling, y
<1>8. CASE ~x.halted /\ a.type = "dispatch"
    <2> DEFINE b1 == [x EXCEPT !.conv = BeginProfileChange(@, a.change)]
               b == IF CanBeginProfileChange(x.conv) THEN b1 ELSE x
               o == [b EXCEPT !.outbox = Append(@, ChangeCommand(a.change))]
               l == Push(b, "conversation_lost", 0)
               h == [l EXCEPT !.halted = TRUE]
               Like(z) == z.cp = x.cp /\ z.client = x.client /\ z.texts = x.texts
    <2>1. y = IF CanDispatch(x) THEN o ELSE h
        BY <1>8 DEF Execute
    <2>2. a.change \in Changes
        BY <1>8 DEF BatchActions, PlainActions, Dispatches, FailSession, Action
    <2>3. b1 \in Adapters(P) /\ Like(b1)
        <3> DEFINE d == BeginProfileChange(x.conv, a.change)
        <3>1. d \in Conversations
            BY <2>2 DEF Adapters, Conversations, BeginProfileChange
        <3> HIDE DEF d
        <3>2. b1 = [x EXCEPT !.conv = d]
            BY DEF d
        <3> HIDE DEF b1
        <3>3. QED
            BY <3>1, <3>2 DEF Adapters
    <2> HIDE DEF b1
    <2>4. b \in Adapters(P) /\ Like(b)
        BY <2>3
    <2> HIDE DEF b
    <2>5. Like(o)
        BY <2>4 DEF Adapters
    <2>6. l \in Adapters(P) /\ Like(l)
        BY <1>1, <2>4, PushFacts
    <2> HIDE DEF l
    <2>7. Like(h)
        BY <2>6 DEF Adapters
    <2> HIDE DEF o, h
    <2>8. Like(y)
        BY <2>1, <2>5, <2>7
    <2> HIDE DEF y
    <2>9. QED
        BY <1>8, <2>8 DEF Telling, y
<1>9. QED
    BY <1>2, <1>3, <1>4, <1>5, <1>6, <1>7, <1>8

(* The ledger of a batch never gets better. *)
LEMMA SeenNextLedger ==
    ASSUME NEW r, NEW a, Ledgers(r)
    PROVE  LET q == SeenNext(r, a)
           IN  Ledgers(q) /\ (q.ok => r.ok) /\ (r.gone => q.gone)
<1> DEFINE q == SeenNext(r, a)
<1>1. CASE a.type = "send"
    <2>1. q = Observe(r, a.text)
        BY <1>1 DEF SeenNext
    <2>2. QED
        BY <2>1, ObserveLedger
<1>2. CASE a.type = "disconnect"
    <2>1. q = [r EXCEPT !.gone = TRUE]
        BY <1>2 DEF SeenNext
    <2> HIDE DEF q
    <2>2. QED
        BY <2>1 DEF Ledgers, q
<1>3. CASE a.type \notin {"send", "disconnect"}
    BY <1>3 DEF SeenNext
<1>4. QED
    BY <1>1, <1>2, <1>3

LEMMA SeenTrace ==
    ASSUME NEW p, NEW acts \in Seq(BatchActions), NEW g, SN!IsTrace(Ledger(p), acts, g)
    PROVE  \A i \in 0 .. Len(acts) :
              Ledgers(g[i]) /\ (g[Len(acts)].ok => g[i].ok) /\ (g[i].gone => g[Len(acts)].gone)
<1> DEFINE n == Len(acts)
           Below(j) == \A i \in 0 .. n :
                          i <= j => (g[j].ok => g[i].ok) /\ (g[i].gone => g[j].gone)
           W == {j \in 0 .. n : Ledgers(g[j]) /\ Below(j)}
<1>1. n \in Nat
    OBVIOUS
<1>2. g[0] = Ledger(p) /\ \A i \in 0 .. n - 1 : g[i + 1] = SeenNext(g[i], acts[i + 1])
    BY DEF SN!IsTrace
<1> HIDE DEF n
<1>3. 0 \in W
    <2>1. Ledgers(g[0])
        BY <1>2 DEF Ledgers, Ledger
    <2>2. \A i \in 0 .. n : i <= 0 => i = 0
        BY <1>1
    <2>3. 0 \in 0 .. n
        BY <1>1
    <2>4. QED
        BY <2>1, <2>2, <2>3
<1>4. ASSUME NEW j \in 0 .. n - 1, j \in W PROVE j + 1 \in W
    <2>1. Ledgers(g[j]) /\ Below(j)
        BY <1>4
    <2>2. /\ Ledgers(g[j + 1]) /\ (g[j + 1].ok => g[j].ok) /\ (g[j].gone => g[j + 1].gone)
        BY <1>2, <2>1, SeenNextLedger
    <2>3. \A i \in 0 .. n : i <= j + 1 => i <= j \/ i = j + 1
        BY <1>1
    <2>4. Below(j + 1)
        BY <2>1, <2>2, <2>3
    <2>5. j + 1 \in 0 .. n
        BY <1>1
    <2> HIDE DEF Below
    <2>6. QED
        BY <2>2, <2>4, <2>5
<1> HIDE DEF W
<1>5. \A j \in 0 .. n : j \in W
    BY <1>1, <1>3, <1>4, SN!CountingUp
<1>6. n \in 0 .. n /\ \A i \in 0 .. n : i <= n
    BY <1>1
<1>7. QED
    BY <1>5, <1>6 DEF W, n

-----------------------------------------------------------------------------
(* The texts of a step, against the lines o that they answer. *)
Reckoned(o, texts) == OB!Fold([owed |-> o, ok |-> TRUE], texts)

(* The connection is over: nothing is owed any more. *)
Over(x) == x.client = "none" \/ x.cp.terminal \/ x.cp.failed

(* What the adapter has said so far answers o in order, and what is left of *)
(* o is what it still owes.                                                 *)
Owes(x, o) ==
    /\ Reckoned(o, x.texts).ok
    /\ ~Over(x) => Reckoned(o, x.texts) = [owed |-> StillOwed(x.cp), ok |-> TRUE]
    /\ Sound(x.cp) /\ (x.cp.attached <=> x.client # "none")

(* A batch that answers p, or leaves it owed, or closes the connection. *)
Settles(h, p) ==
    LET r == Seen(Ledger(p), h.acts)
    IN  r.ok /\ IF h.cp.attached THEN r = Ledger(StillOwed(h.cp)) ELSE r.gone

LEMMA NothingBehind ==
    ASSUME NEW p \in Seq(ControllerLines)
    PROVE  p \o <<>> = p /\ <<>> \in Seq(ControllerLines)
OBVIOUS

LEMMA BalanceSettles ==
    ASSUME NEW h, NEW p, Balance(h, p), h.cp \in ControlPlanes
    PROVE  Settles(h, p)
<1>1. p \in Seq(ControllerLines) /\ StillOwed(h.cp) \in Seq(ControllerLines)
    BY OwedFacts DEF Balance
<1>2. <<>> \in Seq(ControllerLines) /\ p \o <<>> = p /\ StillOwed(h.cp) \o <<>> = StillOwed(h.cp)
    BY <1>1, NothingBehind
<1>3. QED
    BY <1>2 DEF Balance, Settles

LEMMA WriteFailedSilences ==
    ASSUME NEW c \in ControlPlanes
    PROVE  Sound(HandleWriteFailed(c).cp) /\ ~HandleWriteFailed(c).cp.attached
<1> DEFINE e == IF c.inflight.unexecuted THEN [c EXCEPT !.inflight = NoFlight] ELSE c
<1>1. e \in ControlPlanes
    BY DEF ControlPlanes, Flights
<1>2. HandleWriteFailed(c).cp = DisconnectController(e)
    BY DEF HandleWriteFailed
<1> HIDE DEF e
<1>3. QED
    BY <1>1, <1>2, DisconnectSilences

(* One more text. *)
LEMMA ReckonedMore ==
    ASSUME NEW o, NEW texts \in Seq(Texts), NEW t \in Texts, NEW r, Ledgers(r),
           Reckoned(o, texts) = Flat(r)
    PROVE  Reckoned(o, Append(texts, t)) = Flat(Observe(r, t))
<1>1. Reckoned(o, Append(texts, t)) = Observe(Reckoned(o, texts), t)
    BY OB!FoldAppend DEF Reckoned
<1>2. QED
    BY <1>1, ObserveLedger

(* The batch is executed, up to its first failure. *)
LEMMA ExecutionOwes ==
    ASSUME NEW P, BatchEvents \subseteq P, NEW x \in Adapters(P), x.client # "none",
           NEW o, NEW p, Reckoned(o, x.texts) = Flat(Ledger(p)),
           NEW h, h.cp \in ControlPlanes, Len(h.cp.queue) <= QueueLimit, InOrder(h.acts),
           Settles(h, p), Sound(h.cp)
    PROVE  Owes(ExecuteActions(x, h), o)
<1> DEFINE d == h.cp
           acts == h.acts
           n == Len(acts)
           b1 == [x EXCEPT !.cp = d]
           b == [b1 EXCEPT !.halted = FALSE]
           y == ExecuteActions(x, h)
<1>1. y = EX!Fold(b, acts)
    BY DEF ExecuteActions, FoldLeft, MapThenFoldSet, EX!Fold, EX!Largest, Max
<1>2. b1 \in Adapters(P) /\ b1.cp = d /\ b1.client = x.client /\ b1.texts = x.texts
    BY DEF Adapters
<1> HIDE DEF b1
<1>3. /\ b \in Adapters(P) /\ b.cp = d /\ b.client = x.client /\ b.texts = x.texts /\ ~b.halted
    BY <1>2 DEF Adapters
<1> HIDE DEF b, y
<1>4. acts \in Seq(BatchActions) /\ n \in Nat /\ \A i \in 1 .. n : acts[i] \in BatchActions
    BY DEF InOrder
<1>5. PICK g : SN!IsTrace(Ledger(p), acts, g) /\ SN!Fold(Ledger(p), acts) = g[n]
    BY <1>4, SN!FoldTrace
<1>6. /\ g[n].ok
      /\ IF d.attached THEN g[n] = Ledger(StillOwed(d)) ELSE g[n].gone
    BY <1>5 DEF Settles, Seen
<1>7. \A i \in 0 .. n : Ledgers(g[i]) /\ g[i].ok /\ (g[i].gone => ~d.attached)
    <2>1. \A i \in 0 .. n : Ledgers(g[i]) /\ (g[n].ok => g[i].ok) /\ (g[i].gone => g[n].gone)
        BY <1>4, <1>5, SeenTrace
    <2>2. d.attached => ~g[n].gone
        BY <1>6 DEF Ledger
    <2>3. QED
        BY <1>6, <2>1, <2>2
<1>8. g[0] = Ledger(p) /\ \A i \in 1 .. n : g[i] = SeenNext(g[i - 1], acts[i])
    <2>1. g[0] = Ledger(p) /\ \A i \in 0 .. n - 1 : g[i + 1] = SeenNext(g[i], acts[i + 1])
        BY <1>5 DEF SN!IsTrace
    <2>2. ASSUME NEW i \in 1 .. n PROVE i - 1 \in 0 .. n - 1 /\ (i - 1) + 1 = i
        BY <1>4
    <2>3. QED
        BY <2>1, <2>2
<1>9. \A i \in 1 .. n : acts[i].type = "dispatch" => i = n
    BY DEF InOrder, IsDispatch
<1> HIDE DEF d, acts, n
<1> DEFINE Attached(i, z) == /\ z.cp = d /\ Reckoned(o, z.texts) = Flat(g[i])
                             /\ ~g[i].gone /\ (z.halted => i = n)
           Closed(z) == Reckoned(o, z.texts).ok /\ Sound(z.cp) /\ ~z.cp.attached
           Good(i, z) == IF z.client # "none" THEN Attached(i, z) ELSE Closed(z)
           T == [i \in 0 .. n |-> {z \in Adapters(P) : Good(i, z)}]
<1>10. b \in T[0]
    <2>1. Good(0, b)
        BY <1>3, <1>8 DEF Ledger
    <2>2. 0 \in 0 .. n
        BY <1>4
    <2> HIDE DEF Good
    <2>3. QED
        BY <1>3, <2>1, <2>2
<1>11. \A r : Flat(r).ok = r.ok
    BY DEF Flat
<1>12. ASSUME NEW i \in 1 .. n, NEW z \in T[i - 1] PROVE Execute(z, acts[i]) \in T[i]
    <2> DEFINE a == acts[i]
               w == Execute(z, a)
               f == g[i - 1]
    <2>1. i - 1 \in 0 .. n /\ i \in 0 .. n /\ i - 1 # n
        BY <1>4
    <2>2. z \in Adapters(P) /\ Good(i - 1, z)
        <3> HIDE DEF Good
        <3>1. QED
            BY <2>1
    <2>3. a \in BatchActions /\ (a.type = "dispatch" => i = n) /\ g[i] = SeenNext(f, a)
        BY <1>4, <1>8, <1>9
    <2>4. a.type \in {"stop", "disconnect", "send", "dispatch"}
          /\ (a.type = "send" => a.text \in Texts)
        BY <2>3 DEF BatchActions, PlainActions, Dispatches
    <2>5. /\ Ledgers(f) /\ f.ok /\ (f.gone => ~d.attached)
          /\ Ledgers(g[i]) /\ g[i].ok /\ (g[i].gone => ~d.attached)
        BY <1>7, <2>1
    <2> HIDE DEF a, f
    <2>6. w \in Adapters(P) /\ Telling(z, a, w)
        BY <2>2, <2>3, ExecuteFacts, ExecuteTells
    <2> HIDE DEF w, T
    <2>7. z.cp \in ControlPlanes /\ z.texts \in Seq(Texts)
        BY <2>2 DEF Adapters
    <2>8. Sound(HandleWriteFailed(z.cp).cp) /\ ~HandleWriteFailed(z.cp).cp.attached
        BY <2>7, WriteFailedSilences
    <2>9. Good(i, w)
        <3>1. CASE z.halted
            BY <2>1, <2>2, <2>6, <3>1 DEF Telling, f
        <3>2. CASE ~z.halted /\ z.client = "none"
            <4>1. Closed(z)
                BY <2>2, <3>2
            <4>2. \/ w.cp = z.cp /\ w.client = "none" /\ w.texts = z.texts
                  \/ w.cp = HandleWriteFailed(z.cp).cp /\ w.client = "none" /\ w.texts = z.texts
                BY <2>4, <2>6, <3>2 DEF Telling
            <4>3. QED
                BY <2>8, <4>1, <4>2
        <3>3. CASE ~z.halted /\ z.client # "none"
            <4>1. z.cp = d /\ Reckoned(o, z.texts) = Flat(f) /\ ~f.gone
                BY <2>2, <3>3 DEF f
            <4>2. CASE a.type = "stop"
                <5>1. g[i] = f
                    BY <2>3, <4>2 DEF SeenNext
                <5>2. QED
                    BY <2>6, <3>3, <4>1, <4>2, <5>1 DEF Telling
            <4>3. CASE a.type = "dispatch"
                <5>1. g[i] = f
                    BY <2>3, <4>3 DEF SeenNext
                <5>2. QED
                    BY <2>3, <2>6, <3>3, <4>1, <4>3, <5>1 DEF Telling
            <4>4. CASE a.type = "disconnect"
                <5>1. g[i] = [f EXCEPT !.gone = TRUE]
                    BY <2>3, <4>4 DEF SeenNext
                <5>2. g[i].gone
                    BY <2>5, <5>1 DEF Ledgers
                <5>3. w.cp = d /\ w.client = "none" /\ w.texts = z.texts
                    BY <2>6, <3>3, <4>1, <4>4 DEF Telling
                <5>4. Sound(d)
                    BY DEF d
                <5>5. QED
                    BY <1>11, <2>5, <4>1, <5>2, <5>3, <5>4
            <4>5. CASE a.type = "send" /\ z.client = "open"
                <5>1. g[i] = Observe(f, a.text)
                    BY <2>3, <4>5 DEF SeenNext
                <5>2. w.cp = d /\ w.client = z.client /\ w.texts = Append(z.texts, a.text)
                      /\ ~w.halted
                    BY <2>6, <3>3, <4>1, <4>5 DEF Telling
                <5>3. Reckoned(o, w.texts) = Flat(g[i])
                    BY <2>4, <2>5, <2>7, <4>1, <4>5, <5>1, <5>2, ReckonedMore
                <5>4. ~g[i].gone
                    BY <2>5, <4>1, <5>1, ObserveLedger
                <5>5. QED
                    BY <3>3, <5>2, <5>3, <5>4
            <4>6. CASE a.type = "send" /\ z.client # "open"
                <5>1. w.cp = HandleWriteFailed(z.cp).cp /\ w.client = "none" /\ w.texts = z.texts
                    BY <2>6, <3>3, <4>6 DEF Telling
                <5>2. QED
                    BY <1>11, <2>5, <2>8, <4>1, <5>1
            <4>7. QED
                BY <2>4, <4>2, <4>3, <4>4, <4>5, <4>6
        <3>4. QED
            BY <3>1, <3>2, <3>3
    <2> HIDE DEF Good
    <2>10. QED
        BY <2>1, <2>6, <2>9 DEF w, a, T
<1> HIDE DEF T
<1>13. EX!Fold(b, acts) \in T[n]
    BY <1>4, <1>10, <1>12, EX!FoldAdvances DEF n
<1>14. Good(n, y)
    <2> HIDE DEF Good
    <2>1. n \in 0 .. n
        BY <1>4
    <2>2. QED
        BY <1>1, <1>13, <2>1 DEF T
<1>15. CASE y.client # "none"
    <2>1. y.cp = d /\ Reckoned(o, y.texts) = Flat(g[n]) /\ ~g[n].gone
        BY <1>14, <1>15
    <2>2. d.attached /\ g[n] = Ledger(StillOwed(d))
        BY <1>6, <2>1
    <2>3. Flat(g[n]) = [owed |-> StillOwed(d), ok |-> TRUE]
        BY <2>2 DEF Flat, Ledger
    <2>4. Sound(d)
        BY DEF d
    <2>5. QED
        BY <1>15, <2>1, <2>2, <2>3, <2>4 DEF Owes, y
<1>16. CASE y.client = "none"
    BY <1>14, <1>16 DEF Owes, Over, y
<1>17. QED
    BY <1>15, <1>16

-----------------------------------------------------------------------------
(* The events that forget the queue and whom to tell. *)
LEMMA ForgetSilences ==
    ASSUME NEW d \in ControlPlanes, d.queue = <<>>, d.attached => d.gen # 0
    PROVE  LET e == CancelReply(d)
           IN  Sound(e) /\ e.attached = d.attached /\ e \in ControlPlanes
<1> DEFINE e == CancelReply(d)
<1>1. e \in ControlPlanes /\ e.attached = d.attached /\ e.gen = d.gen
    BY Cancel DEF OnlyFlightQueue, Kept
<1>2. Silenced(e)
    BY CancelSilences
<1> HIDE DEF e
<1>3. QED
    BY <1>1, <1>2, SilencedIsSound DEF e

LEMMA TerminalSilences ==
    ASSUME NEW c \in ControlPlanes, Sound(c)
    PROVE  LET d == HandleTerminal(c).cp
           IN  Sound(d) /\ d.attached = c.attached /\ d.terminal /\ d \in ControlPlanes
<1> DEFINE e == Executed(c)
           e1 == [e EXCEPT !.terminal = TRUE]
           e2 == [e1 EXCEPT !.queue = <<>>]
           d == CancelReply(e2)
<1>1. e \in ControlPlanes /\ e.gen = c.gen /\ e.attached = c.attached
    BY ExecutedFacts DEF OnlyFlightQueue, Kept
<1>2. HandleTerminal(c).cp = d
    BY DEF HandleTerminal
<1> HIDE DEF e
<1>3. e1 \in ControlPlanes /\ e1.gen = e.gen /\ e1.attached = e.attached
    BY <1>1 DEF ControlPlanes
<1> HIDE DEF e1
<1>4. e2 \in ControlPlanes /\ e2.gen = e1.gen /\ e2.attached = e1.attached /\ e2.queue = <<>>
    BY <1>3, EmptyQueue DEF ControlPlanes
<1> HIDE DEF e2
<1>5. e2.attached => e2.gen # 0
    BY <1>1, <1>3, <1>4 DEF Sound
<1>6. Sound(d) /\ d.attached = e2.attached /\ d \in ControlPlanes
    BY <1>4, <1>5, ForgetSilences
<1> HIDE DEF d
<1>7. HandleTerminal(c).cp.terminal
    BY HandleTerminalFacts
<1>8. QED
    BY <1>1, <1>2, <1>3, <1>4, <1>6, <1>7

LEMMA StoppingSilences ==
    ASSUME NEW c \in ControlPlanes, Sound(c)
    PROVE  LET d == HandleStopping(c).cp
           IN  /\ Sound(d) /\ d.attached = c.attached /\ d.stopping /\ d \in ControlPlanes
               /\ d.terminal = c.terminal /\ d.failed = c.failed
<1> DEFINE e == Executed(c)
           e1 == [e EXCEPT !.stopping = TRUE]
           e2 == [e1 EXCEPT !.queue = <<>>]
           d == CancelReply(e2)
<1>1. e \in ControlPlanes /\ e.gen = c.gen /\ e.attached = c.attached
    BY ExecutedFacts DEF OnlyFlightQueue, Kept
<1>2. HandleStopping(c).cp = d
    BY DEF HandleStopping
<1> HIDE DEF e
<1>3. e1 \in ControlPlanes /\ e1.gen = e.gen /\ e1.attached = e.attached
    BY <1>1 DEF ControlPlanes
<1> HIDE DEF e1
<1>4. e2 \in ControlPlanes /\ e2.gen = e1.gen /\ e2.attached = e1.attached /\ e2.queue = <<>>
    BY <1>3, EmptyQueue DEF ControlPlanes
<1> HIDE DEF e2
<1>5. e2.attached => e2.gen # 0
    BY <1>1, <1>3, <1>4 DEF Sound
<1>6. Sound(d) /\ d.attached = e2.attached /\ d \in ControlPlanes
    BY <1>4, <1>5, ForgetSilences
<1> HIDE DEF d
<1>7. LET s == HandleStopping(c).cp
      IN  s.stopping /\ s.terminal = c.terminal /\ s.failed = c.failed
    BY HandleStoppingFacts
<1>8. QED
    BY <1>1, <1>2, <1>3, <1>4, <1>6, <1>7

LEMMA UnknownSilences ==
    ASSUME NEW c \in ControlPlanes, Sound(c)
    PROVE  LET d == HandleStateUnknown(c).cp
           IN  Sound(d) /\ d.attached = c.attached /\ d.failed /\ d \in ControlPlanes
<1> DEFINE e == Executed(c)
           e1 == [e EXCEPT !.failed = TRUE]
           e2 == [e1 EXCEPT !.queue = <<>>]
           d == CancelReply(e2)
<1>1. /\ e \in ControlPlanes /\ e.gen = c.gen /\ e.attached = c.attached /\ e.failed = c.failed
      /\ Sound(e)
    BY ExecutedFacts, ExecutedOwes DEF OnlyFlightQueue, Kept
<1>2. HandleStateUnknown(c).cp = IF c.failed THEN e ELSE d
    BY DEF HandleStateUnknown
<1> HIDE DEF e
<1>3. e1 \in ControlPlanes /\ e1.gen = e.gen /\ e1.attached = e.attached /\ e1.failed
    BY <1>1 DEF ControlPlanes
<1> HIDE DEF e1
<1>4. /\ e2 \in ControlPlanes /\ e2.gen = e1.gen /\ e2.attached = e1.attached /\ e2.queue = <<>>
      /\ e2.failed
    BY <1>3, EmptyQueue DEF ControlPlanes
<1> HIDE DEF e2
<1>5. e2.attached => e2.gen # 0
    BY <1>1, <1>3, <1>4 DEF Sound
<1>6. Sound(d) /\ d.attached = e2.attached /\ d \in ControlPlanes /\ d.failed
    BY <1>4, <1>5, ForgetSilences, Cancel DEF OnlyFlightQueue, Kept
<1> HIDE DEF d
<1>7. QED
    BY <1>1, <1>2, <1>3, <1>4, <1>6

LEMMA DrainNothing ==
    ASSUME NEW s, s.cp \in ControlPlanes, s = [cp |-> s.cp, acts |-> s.acts], s.cp.queue = <<>>
    PROVE  DrainQueue(s) = s
<1> DEFINE b0 == [s EXCEPT !.cp.queue = <<>>]
<1>1. DrainQueue(s) = DQ!Fold(b0, s.cp.queue)
    <2> HIDE DEF b0
    <2>1. QED
        BY ONLY DEF DrainQueue, DrainNext, FoldLeft, MapThenFoldSet, DQ!Fold, DQ!Largest,
                        Max, b0
<1>2. DQ!Fold(b0, <<>>) = b0
    BY DQ!FoldNothing
<1>3. b0 = s
    <2> DEFINE c == [s.cp EXCEPT !.queue = <<>>]
    <2>1. c = s.cp
        BY DEF ControlPlanes
    <2>2. b0 = [cp |-> c, acts |-> s.acts]
        BY DEF ControlPlanes
    <2> HIDE DEF c, b0
    <2>3. QED
        BY <2>1, <2>2
<1>4. QED
    BY <1>1, <1>2, <1>3

(* The result of a change when nobody may be told. *)
LEMMA ResultIsSilent ==
    ASSUME NEW c \in ControlPlanes, Sound(c), ~c.attached \/ c.terminal \/ c.failed,
           NEW result \in {"applied", "restored"}, NEW change \in Changes,
           c.inflight.change = change
    PROVE  LET s == HandleResult(c, result, change)
           IN  /\ s.acts = <<>> /\ Sound(s.cp) /\ s.cp \in ControlPlanes
               /\ s.cp.attached = c.attached /\ Same(c, s.cp)
<1> DEFINE e == Executed(c)
           d == Landed(c, result, change)
           b == Emptied(d)
           s == HandleResult(c, result, change)
           answer == ResultAnswer(c, result, change)
           reply == [cp |-> d, acts |-> answer]
<1>1. /\ e.inflight.change = change /\ Same(c, e) /\ e.inflight.reply = c.inflight.reply
      /\ e.attached = c.attached /\ e.gen = c.gen
    BY ExecutedFacts DEF OnlyFlightQueue, Kept
<1>2. Settled(d) /\ d.queue = c.queue /\ d.attached = c.attached /\ d.gen = c.gen /\ Same(c, d)
    BY LandedFacts
<1>3. s = IF e.terminal \/ e.failed THEN reply ELSE DrainQueue(reply)
    BY <1>1 DEF HandleResult, Landed, ResultAnswer, ResultText
<1>4. c.queue = <<>> /\ c.inflight.reply = 0 /\ (c.attached => c.gen # 0)
    BY DEF Sound
<1>5. answer = <<>>
    <2>1. ~Answerable(e)
        BY <1>1, <1>4 DEF Answerable, Same
    <2>2. QED
        BY <2>1 DEF ResultAnswer
<1>6. /\ b \in ControlPlanes /\ b.queue = <<>> /\ b.attached = c.attached /\ Same(c, b) /\ Sound(b)
    BY ONLY LandedIsSound, c \in ControlPlanes, Sound(c), change \in Changes DEF b, d
<1>7. b = d
    <2> HIDE DEF d
    <2>1. QED
        BY <1>2, <1>4 DEF Emptied, Settled, ControlPlanes
<1> HIDE DEF e, d, b, s, answer
<1>8. reply.cp = d /\ reply.acts = <<>> /\ reply = [cp |-> reply.cp, acts |-> reply.acts]
    BY <1>5
<1> HIDE DEF reply
<1>9. DrainQueue(reply) = reply
    BY <1>2, <1>4, <1>8, DrainNothing DEF Settled
<1>10. s = reply
    BY <1>3, <1>9
<1>11. QED
    BY <1>6, <1>7, <1>8, <1>10 DEF s

-----------------------------------------------------------------------------
(* What a step owes depends on what is said, and to whom. *)
LEMMA SameOwes ==
    ASSUME NEW x, NEW y, NEW o, Owes(x, o), y.texts = x.texts, y.cp = x.cp, y.client = x.client
    PROVE  Owes(y, o)
BY DEF Owes, Over

LEMMA PushOwes ==
    ASSUME NEW P, NEW x \in Adapters(P), NEW o, Owes(x, o), NEW k, NEW v
    PROVE  Owes(Push(x, k, v), o)
<1> DEFINE y == Push(x, k, v)
<1>1. y = [x EXCEPT !.pending = Append(@, [kind |-> k, value |-> v])]
    BY DEF Push
<1> HIDE DEF y
<1>2. y.texts = x.texts /\ y.cp = x.cp /\ y.client = x.client
    BY <1>1 DEF Adapters
<1>3. QED
    BY <1>2, SameOwes DEF y

(* A batch that says nothing. *)
LEMMA QuietExecution ==
    ASSUME NEW P, BatchEvents \subseteq P, NEW x \in Adapters(P), NEW s,
           s.acts \in {<<>>, <<FailSession>>}, s.cp \in ControlPlanes,
           Len(s.cp.queue) <= QueueLimit
    PROVE  LET w == ExecuteActions(x, s)
           IN  w \in Adapters(P) /\ w.cp = s.cp /\ w.client = x.client /\ w.texts = x.texts
<1> DEFINE d == s.cp
           acts == s.acts
           b1 == [x EXCEPT !.cp = d]
           b == [b1 EXCEPT !.halted = FALSE]
           w == ExecuteActions(x, s)
<1>1. w = EX!Fold(b, acts)
    BY DEF ExecuteActions, FoldLeft, MapThenFoldSet, EX!Fold, EX!Largest, Max
<1>2. b1 \in Adapters(P) /\ b1.cp = d /\ b1.client = x.client /\ b1.texts = x.texts
    BY DEF Adapters
<1> HIDE DEF b1
<1>3. /\ b \in Adapters(P) /\ b.cp = d /\ b.client = x.client /\ b.texts = x.texts /\ ~b.halted
    BY <1>2 DEF Adapters
<1> HIDE DEF b, w, d
<1> DEFINE f == FailSession
           T == {z \in Adapters(P) : /\ z.cp = d /\ z.client = x.client /\ z.texts = x.texts
                                     /\ ~z.halted}
<1>4. acts \in Seq({f}) /\ \A i \in 1 .. Len(acts) : acts[i] = f
    <2>1. <<>> \in Seq({f}) /\ Len(<<>>) = 0
        OBVIOUS
    <2>2. <<f>> \in Seq({f}) /\ Len(<<f>>) = 1 /\ <<f>>[1] = f
        OBVIOUS
    <2>3. acts = <<>> \/ acts = <<f>>
        OBVIOUS
    <2> HIDE DEF acts, f
    <2>4. CASE acts = <<>>
        BY <2>1, <2>4
    <2>5. CASE acts = <<f>>
        BY <2>2, <2>5
    <2>6. QED
        BY <2>3, <2>4, <2>5
<1> HIDE DEF acts
<1>5. ASSUME NEW z \in T PROVE Execute(z, f) \in T
    <2>1. f.type = "fail_session"
        BY DEF FailSession, Action
    <2> HIDE DEF f
    <2>2. Execute(z, f) \in Adapters(P) /\ Telling(z, f, Execute(z, f))
        BY ExecuteFacts, ExecuteTells DEF f
    <2>3. QED
        BY <2>1, <2>2 DEF Telling
<1>6. ASSUME NEW i \in 1 .. Len(acts), NEW z \in T PROVE Execute(z, acts[i]) \in T
    BY <1>4, <1>5
<1>7. b \in T
    BY <1>3
<1> HIDE DEF T, f
<1>8. EX!Fold(b, acts) \in T
    BY <1>4, <1>6, <1>7, EX!FoldStaysIn
<1>9. QED
    BY <1>1, <1>8 DEF T, w, d

(* What is over stays over. *)
LEMMA QuietOwes ==
    ASSUME NEW P, BatchEvents \subseteq P, NEW x \in Adapters(P), NEW o, Owes(x, o), NEW s,
           s.acts \in {<<>>, <<FailSession>>}, s.cp \in ControlPlanes, Sound(s.cp),
           Len(s.cp.queue) <= QueueLimit, s.cp.attached = x.cp.attached,
           ~s.cp.attached \/ s.cp.terminal \/ s.cp.failed
    PROVE  Owes(ExecuteActions(x, s), o) /\ ExecuteActions(x, s) \in Adapters(P)
<1> DEFINE w == ExecuteActions(x, s)
<1>1. w \in Adapters(P) /\ w.cp = s.cp /\ w.client = x.client /\ w.texts = x.texts
    BY QuietExecution
<1> HIDE DEF w
<1>2. QED
    BY <1>1 DEF Owes, Over, w

(* The change is answered: what is still owed is answered, or owed. *)
LEMMA ReplyOwes ==
    ASSUME NEW P, BatchEvents \subseteq P, NEW z \in Adapters(P), NEW o, Owes(z, o),
           NEW result \in {"applied", "restored"}, NEW change \in Changes,
           change = z.cp.inflight.change
    PROVE  Owes(ExecuteActions(z, HandleResult(z.cp, result, change)), o)
<1> DEFINE c == z.cp
           s == HandleResult(c, result, change)
           d == Landed(c, result, change)
           p == StillOwed(c)
<1>1. c \in ControlPlanes /\ Len(c.queue) <= QueueLimit
    BY DEF Adapters
<1>2. s \in Batches(d) /\ Len(s.cp.queue) <= QueueLimit
    BY <1>1, HandleResultFacts, HandleResultShows DEF Handling
<1>3. Sound(c) /\ (c.attached <=> z.client # "none")
    BY DEF Owes
<1>4. CASE c.attached /\ ~c.terminal /\ ~c.failed
    <2>1. Balance(s, p) /\ Sound(s.cp)
        BY <1>1, <1>3, <1>4, ResultBalances
    <2>2. Reckoned(o, z.texts) = [owed |-> p, ok |-> TRUE]
        BY <1>3, <1>4 DEF Owes, Over
    <2> HIDE DEF c, s, d, p
    <2>3. s.cp \in ControlPlanes /\ InOrder(s.acts)
        BY <1>2 DEF Batches
    <2>4. Settles(s, p)
        BY <2>1, <2>3, BalanceSettles
    <2>5. Reckoned(o, z.texts) = Flat(Ledger(p))
        BY <2>2 DEF Flat, Ledger
    <2>6. Owes(ExecuteActions(z, s), o)
        BY <1>2, <1>3, <1>4, <2>1, <2>3, <2>4, <2>5, ExecutionOwes
    <2>7. QED
        BY <2>6 DEF s, c
<1>5. CASE ~c.attached \/ c.terminal \/ c.failed
    <2>1. /\ s.acts = <<>> /\ Sound(s.cp) /\ s.cp \in ControlPlanes
          /\ s.cp.attached = c.attached /\ Same(c, s.cp)
        BY <1>1, <1>3, <1>5, ResultIsSilent
    <2> HIDE DEF s
    <2>2. Owes(ExecuteActions(z, s), o)
        BY <1>2, <1>5, <2>1, QuietOwes DEF Same
    <2>3. QED
        BY <2>2 DEF s
<1>6. QED
    BY <1>4, <1>5

(* Whatever the helper has said. *)
LEMMA EventOwes ==
    ASSUME NEW P, BatchEvents \subseteq P, NEW z \in Adapters(P), NEW o, Owes(z, o),
           NEW e \in HelperEvents,
           e.kind = "activated" => ~z.hasCp /\ Bare(z),
           e.kind \in {"applied", "restored"} => e.change = z.cp.inflight.change
    PROVE  Owes(HelperEventStep(z, e), o)
<1> DEFINE w == HelperEventStep(z, e)
<1>1. z.cp \in ControlPlanes /\ Len(z.cp.queue) <= QueueLimit /\ Sound(z.cp)
    BY DEF Adapters, Owes
<1>2. CASE e.kind = "activated"
    <2> DEFINE m0 == [z EXCEPT !.cp = ControlPlaneInit]
               made == [m0 EXCEPT !.hasCp = TRUE]
               l0 == [made EXCEPT !.listening = TRUE]
               l == [l0 EXCEPT !.activated = TRUE]
               Like(y) == /\ y \in Adapters(P) /\ y.cp = z.cp /\ y.texts = z.texts
                          /\ y.client = z.client
    <2>1. w = IF z.socketFails THEN Push(made, "conversation_lost", 0)
                               ELSE Push(l, "activated", 0)
        BY <1>2 DEF HelperEventStep
    <2>2. z.cp = ControlPlaneInit
        BY <1>2 DEF Bare
    <2>3. Like(m0)
        BY <2>2 DEF Adapters
    <2> HIDE DEF m0
    <2>4. Like(made)
        BY <2>3 DEF Adapters
    <2> HIDE DEF made
    <2>5. Like(l0)
        BY <2>4 DEF Adapters
    <2> HIDE DEF l0
    <2>6. Like(l)
        BY <2>5 DEF Adapters
    <2> HIDE DEF l
    <2>7. Owes(made, o) /\ Owes(l, o)
        BY <2>4, <2>6, SameOwes
    <2>8. Owes(Push(made, "conversation_lost", 0), o) /\ Owes(Push(l, "activated", 0), o)
        BY <2>4, <2>6, <2>7, PushOwes
    <2>9. QED
        BY <2>1, <2>8
<1>3. CASE e.kind \in {"applied", "restored"}
    <2>1. w = ExecuteActions(z, HandleResult(z.cp, e.kind, e.change))
        BY <1>3 DEF HelperEventStep
    <2>2. e.change \in Changes
        BY <1>3 DEF HelperEvents, EventsOf
    <2> HIDE DEF w
    <2>3. QED
        BY <1>3, <2>1, <2>2, ReplyOwes DEF w
<1>4. CASE e.kind = "profile_state_unknown"
    <2> DEFINE s == HandleStateUnknown(z.cp)
    <2>1. w = ExecuteActions(z, s)
        BY <1>4 DEF HelperEventStep
    <2>2. /\ s.acts \in {<<>>, <<FailSession>>} /\ Len(s.cp.queue) <= QueueLimit
        BY <1>1, UnknownContinues
    <2>3. Sound(s.cp) /\ s.cp.attached = z.cp.attached /\ s.cp.failed /\ s.cp \in ControlPlanes
        BY <1>1, UnknownSilences
    <2> HIDE DEF s, w
    <2>4. QED
        BY <2>1, <2>2, <2>3, QuietOwes DEF w
<1>5. CASE e.kind \in {"workload_exited", "workload_signaled"}
    <2> DEFINE s == HandleTerminal(z.cp)
               y == ExecuteActions(z, s)
               y1 == [y EXCEPT !.finished = TRUE]
               y2 == [y1 EXCEPT !.activated = FALSE]
    <2>1. w = Push(y2, e.kind, e.value)
        BY <1>5 DEF HelperEventStep
    <2>2. s.acts = <<>> /\ Len(s.cp.queue) <= QueueLimit
        BY <1>1, TerminalContinues DEF HandleTerminal
    <2>3. Sound(s.cp) /\ s.cp.attached = z.cp.attached /\ s.cp.terminal /\ s.cp \in ControlPlanes
        BY <1>1, TerminalSilences
    <2> HIDE DEF s
    <2>4. Owes(y, o) /\ y \in Adapters(P)
        BY <2>2, <2>3, QuietOwes
    <2> HIDE DEF y
    <2>5. y1 \in Adapters(P) /\ y1.cp = y.cp /\ y1.texts = y.texts /\ y1.client = y.client
        BY <2>4 DEF Adapters
    <2> HIDE DEF y1
    <2>6. y2 \in Adapters(P) /\ y2.cp = y1.cp /\ y2.texts = y1.texts /\ y2.client = y1.client
        BY <2>5 DEF Adapters
    <2> HIDE DEF y2, w
    <2>7. Owes(y2, o)
        BY <2>4, <2>5, <2>6, SameOwes
    <2>8. QED
        BY <2>1, <2>6, <2>7, PushOwes DEF w
<1>6. CASE e.kind \notin {"activated", "applied", "restored", "profile_state_unknown",
                          "workload_exited", "workload_signaled"}
    <2>1. w = Push(z, "conversation_lost", 0) \/ w = Push(z, e.kind, e.value)
        BY <1>6 DEF HelperEventStep
    <2> HIDE DEF w
    <2>2. QED
        BY <2>1, PushOwes DEF w
<1>7. QED
    BY <1>2, <1>3, <1>4, <1>5, <1>6

-----------------------------------------------------------------------------
(* A Controller is attached: it is told so, and nothing is owed to it yet. *)
LEMMA AttachedSettles ==
    ASSUME NEW c \in ControlPlanes, Sound(c), ~c.attached
    PROVE  LET s == HandleAttached(c)
           IN  Settles(s, <<>>) /\ Sound(s.cp) /\ s.cp.attached
<1> DEFINE e == Executed(c)
           d == [e EXCEPT !.gen = @ + 1]
           d2 == [d EXCEPT !.attached = TRUE]
           s == HandleAttached(c)
           a == Send(Text("ATTACHED"))
           acts == <<a>>
<1>1. /\ e \in ControlPlanes /\ e.gen = c.gen /\ e.queue = c.queue /\ Sound(e)
      /\ e.attached = c.attached
    BY ExecutedFacts, ExecutedOwes DEF OnlyFlightQueue, Kept
<1>2. s = [cp |-> d2, acts |-> acts]
    BY DEF HandleAttached
<1> HIDE DEF e
<1>3. /\ e.gen \in Nat /\ e.inflight.reply = 0 /\ e.queue = <<>>
    BY <1>1 DEF Sound, ControlPlanes
<1>4. /\ d \in ControlPlanes /\ d.gen = e.gen + 1 /\ d.queue = e.queue /\ d.inflight = e.inflight
    BY <1>1, <1>3 DEF ControlPlanes
<1> HIDE DEF d
<1>5. /\ d2 \in ControlPlanes /\ d2.gen = e.gen + 1 /\ d2.queue = <<>> /\ d2.attached
      /\ d2.inflight.reply = 0
    BY <1>3, <1>4 DEF ControlPlanes
<1> HIDE DEF d2
<1>6. Silenced(d2) /\ d2.gen # 0
    BY <1>3, <1>5 DEF Silenced
<1>7. Sound(d2) /\ StillOwed(d2) = <<>>
    BY <1>5, <1>6, SilencedIsSound
<1>8. Send(Text("ATTACHED")).type = "send" /\ Send(Text("ATTACHED")).text = Text("ATTACHED")
    BY ActionTypes DEF Send
<1>9. acts = Append(<<>>, a) /\ <<>> \in Seq(BatchActions)
    OBVIOUS
<1>10. a \in BatchActions
    BY ActionTypes DEF BatchActions, PlainActions, Texts, Send, Text
<1>11. Seen(Ledger(<<>>), acts) = Ledger(<<>>)
    <2> HIDE DEF a
    <2>1. Seen(Ledger(<<>>), Append(<<>>, a)) = SeenNext(Seen(Ledger(<<>>), <<>>), a)
        BY <1>9, <1>10, SeenAppend
    <2>2. SeenNext(Ledger(<<>>), a) = Observe(Ledger(<<>>), Text("ATTACHED"))
        BY <1>8 DEF SeenNext, a
    <2>3. QED
        BY <1>9, <2>1, <2>2, SeenNothing, ObserveAttached
<1> HIDE DEF acts, s
<1>12. Settles(s, <<>>)
    <2>1. Ledger(<<>>).ok
        BY DEF Ledger
    <2>2. QED
        BY <1>2, <1>5, <1>7, <1>11, <2>1 DEF Settles
<1>13. QED
    BY <1>2, <1>5, <1>7, <1>12 DEF s

LEMMA NothingReckoned ==
    ASSUME NEW o
    PROVE  Reckoned(o, <<>>) = [owed |-> o, ok |-> TRUE]
           /\ Reckoned(o, <<>>) = Flat(Ledger(o))
<1>1. Reckoned(o, <<>>) = [owed |-> o, ok |-> TRUE]
    BY OB!FoldNothing DEF Reckoned
<1>2. QED
    BY <1>1 DEF Flat, Ledger

LEMMA AcceptOwes ==
    ASSUME NEW P, BatchEvents \subseteq P, NEW x \in Adapters(P), x.texts = <<>>,
           x.client = "none", ~x.cp.attached, Sound(x.cp), NEW peer \in {"open", "closed"}
    PROVE  Owes(AcceptController(x, peer), <<>>)
<1> DEFINE z == [x EXCEPT !.client = peer]
           s == HandleAttached(x.cp)
<1>1. /\ z \in Adapters(P) /\ z.cp = x.cp /\ z.client = peer /\ z.texts = <<>>
    BY DEF Adapters
<1>2. AcceptController(x, peer) = ExecuteActions(z, s)
    BY DEF AcceptController
<1>3. x.cp \in ControlPlanes /\ Len(x.cp.queue) <= QueueLimit
    BY DEF Adapters
<1>4. s \in Batches(s.cp) /\ Len(s.cp.queue) <= QueueLimit
    BY <1>3, AttachedContinues
<1>5. Settles(s, <<>>) /\ Sound(s.cp)
    BY <1>3, AttachedSettles
<1> HIDE DEF z, s
<1>6. s.cp \in ControlPlanes /\ InOrder(s.acts)
    BY <1>4 DEF Batches
<1>7. Reckoned(<<>>, z.texts) = Flat(Ledger(<<>>))
    BY <1>1, NothingReckoned
<1>8. z.client # "none"
    BY <1>1
<1>9. Owes(ExecuteActions(z, s), <<>>)
    BY <1>1, <1>4, <1>5, <1>6, <1>7, <1>8, ExecutionOwes
<1>10. QED
    BY <1>2, <1>9

(* What the Controller asks is answered, or owed. *)
LEMMA BytesOwes ==
    ASSUME NEW P, BatchEvents \subseteq P, NEW x \in Adapters(P), x.texts = <<>>,
           x.client # "none", x.cp.attached, Sound(x.cp), NEW ls \in Seq(ControllerLines),
           NEW o, o = IF Over(x) THEN <<>> ELSE StillOwed(x.cp)
    PROVE  Owes(ControllerBytes(x, ls), o \o Asked(ls))
<1> DEFINE c == x.cp
           s == HandleBytes(c, ls)
           d == Executed(c)
           p == o \o Asked(ls)
<1>1. c \in ControlPlanes /\ Len(c.queue) <= QueueLimit
    BY DEF Adapters
<1>2. ControllerBytes(x, ls) = ExecuteActions(x, s)
    BY DEF ControllerBytes
<1>3. s \in Batches(d) /\ Len(s.cp.queue) <= QueueLimit
    BY <1>1, HandleBytesFacts, HandleBytesShows
<1>4. Reckoned(p, x.texts) = Flat(Ledger(p)) /\ Reckoned(p, x.texts).ok
    BY NothingReckoned
<1>5. CASE ~c.terminal /\ ~c.failed
    <2>1. o = StillOwed(c)
        BY <1>5 DEF Over
    <2>2. Balance(s, p) /\ Sound(s.cp)
        BY <1>1, <1>5, <2>1, HandleBytesBalances
    <2> HIDE DEF c, s, d, p
    <2>3. s.cp \in ControlPlanes /\ InOrder(s.acts)
        BY <1>3 DEF Batches
    <2>4. Settles(s, p)
        BY <2>2, <2>3, BalanceSettles
    <2>5. Owes(ExecuteActions(x, s), p)
        BY <1>3, <1>4, <2>2, <2>3, <2>4, ExecutionOwes
    <2>6. QED
        BY <1>2, <2>5 DEF p
<1>6. CASE c.terminal \/ c.failed
    <2>1. s = [cp |-> d, acts |-> <<>>]
        BY <1>6 DEF HandleBytes
    <2>2. /\ d \in ControlPlanes /\ Sound(d) /\ d.attached = c.attached
          /\ d.terminal = c.terminal /\ d.failed = c.failed
        BY <1>1, ExecutedFacts, ExecutedOwes DEF OnlyFlightQueue, Kept, Same
    <2>3. Owes(x, p)
        BY <1>4, <1>6 DEF Owes, Over
    <2> HIDE DEF s, d, p
    <2>4. /\ s.acts \in {<<>>, <<FailSession>>} /\ s.cp \in ControlPlanes /\ Sound(s.cp)
          /\ s.cp.attached = x.cp.attached
          /\ s.cp.terminal \/ s.cp.failed
          /\ Len(s.cp.queue) <= QueueLimit
        BY <1>3, <1>6, <2>1, <2>2
    <2>5. Owes(ExecuteActions(x, s), p)
        BY ONLY <2>3, <2>4, x \in Adapters(P), BatchEvents \subseteq P, QuietOwes
    <2>6. QED
        BY <1>2, <2>5 DEF p
<1>7. QED
    BY <1>5, <1>6

(* The Controller is gone. *)
LEMMA GoneOwes ==
    ASSUME NEW P, NEW x \in Adapters(P), NEW o, Owes(x, o)
    PROVE  Owes(ControllerGone(x), o)
<1> DEFINE e == Executed(x.cp)
           d == DisconnectController(e)
           z1 == [x EXCEPT !.cp = d]
           z == [z1 EXCEPT !.client = "none"]
<1>1. z = [x EXCEPT !.cp = HandleDisconnected(@).cp, !.client = "none"]
    BY DEF HandleDisconnected
<1>2. e \in ControlPlanes
    BY ExecutedFacts DEF Adapters, Settled
<1> HIDE DEF e
<1>3. Sound(d) /\ ~d.attached
    BY <1>2, DisconnectSilences
<1>4. d \in ControlPlanes /\ d.queue = <<>>
    BY <1>2, Disconnected DEF OnlyFlightQueue, Kept
<1> HIDE DEF d
<1>5. z1 \in Adapters(P) /\ z1.cp = d /\ z1.texts = x.texts
    BY <1>4, EmptyQueue DEF Adapters
<1> HIDE DEF z1
<1>6. z \in Adapters(P) /\ z.cp = d /\ z.texts = x.texts /\ z.client = "none"
    BY <1>5 DEF Adapters
<1>7. ControllerGone(x) = Push(z, "controller_lost", 0)
    BY <1>1 DEF ControllerGone
<1> HIDE DEF z
<1>8. Owes(z, o)
    BY <1>3, <1>6 DEF Owes, Over
<1>9. QED
    BY <1>6, <1>7, <1>8, PushOwes

-----------------------------------------------------------------------------
(* Interrupts say nothing to the Controller: they silence the Session. *)
Hushed(x, y) ==
    /\ y.texts = x.texts /\ y.client = x.client /\ Sound(y.cp)
    /\ y.cp.attached = x.cp.attached /\ y.cp.terminal = x.cp.terminal
    /\ y.cp.failed = x.cp.failed /\ (y.cp = x.cp \/ y.cp.stopping)

LEMMA HushedTwice ==
    ASSUME NEW x, NEW y, NEW z, Hushed(x, y), Hushed(y, z)
    PROVE  Hushed(x, z)
BY DEF Hushed

LEMMA InterruptHushes ==
    ASSUME NEW P, PlainEvents \subseteq P, BatchEvents \subseteq P, NEW r \in Adapters(P),
           Sound(r.cp), NEW i
    PROVE  InterruptNext(r, i) \in Adapters(P) /\ Hushed(r, InterruptNext(r, i))
<1> DEFINE s == HandleStopping(r.cp)
           w == ExecuteActions(r, s)
           z == IF r.hasCp THEN w ELSE r
           y == Push(z, "terminal_interrupt", 0)
<1>1. [kind |-> "terminal_interrupt", value |-> 0] \in P
    BY DEF PlainEvents, Event
<1>2. r.cp \in ControlPlanes
    BY DEF Adapters
<1>3. s.acts = <<>>
    BY DEF HandleStopping
<1>4. s.acts \in {<<>>, <<FailSession>>} /\ Len(s.cp.queue) <= QueueLimit
    BY <1>2, <1>3, StoppingContinues
<1>5. /\ Sound(s.cp) /\ s.cp.attached = r.cp.attached /\ s.cp.stopping /\ s.cp \in ControlPlanes
      /\ s.cp.terminal = r.cp.terminal /\ s.cp.failed = r.cp.failed
    BY <1>2, StoppingSilences
<1>6. InterruptNext(r, i) = y
    BY DEF InterruptNext
<1> HIDE DEF s
<1>7. w \in Adapters(P) /\ w.cp = s.cp /\ w.client = r.client /\ w.texts = r.texts
    BY <1>4, <1>5, QuietExecution
<1> HIDE DEF w
<1>8. z \in Adapters(P) /\ Hushed(r, z)
    BY <1>5, <1>7 DEF Hushed
<1> HIDE DEF z
<1>9. y \in Adapters(P) /\ y.cp = z.cp /\ y.client = z.client /\ y.texts = z.texts
    BY <1>1, <1>8, PushFacts
<1> HIDE DEF y
<1>10. QED
    BY <1>6, <1>8, <1>9 DEF Hushed

LEMMA InterruptsHush ==
    ASSUME NEW P, PlainEvents \subseteq P, BatchEvents \subseteq P, NEW x \in Adapters(P),
           Sound(x.cp), NEW count \in Nat
    PROVE  TakeInterrupts(x, count) \in Adapters(P) /\ Hushed(x, TakeInterrupts(x, count))
<1> DEFINE q == [i \in 1 .. count |-> i]
           T == {r \in Adapters(P) : Hushed(x, r)}
<1>1. Hushed(x, x)
    BY DEF Hushed
<1>2. CASE x.finished
    BY <1>1, <1>2 DEF TakeInterrupts
<1>3. CASE ~x.finished
    <2>1. TakeInterrupts(x, count) = TI!Fold(x, q)
        BY <1>3 DEF TakeInterrupts, InterruptNext, FoldLeft, MapThenFoldSet, TI!Fold,
                    TI!Largest, Max
    <2>2. q \in Seq(Nat)
        OBVIOUS
    <2> HIDE DEF q
    <2>3. ASSUME NEW i \in 1 .. Len(q), NEW r \in T PROVE InterruptNext(r, q[i]) \in T
        <3> DEFINE y == InterruptNext(r, q[i])
        <3>1. Sound(r.cp)
            BY DEF Hushed
        <3>2. y \in Adapters(P) /\ Hushed(r, y)
            BY <3>1, InterruptHushes
        <3> HIDE DEF y
        <3>3. Hushed(x, y)
            BY <3>2, HushedTwice
        <3>4. QED
            BY <3>2, <3>3 DEF y
    <2>4. x \in T
        BY <1>1
    <2> HIDE DEF T
    <2>5. TI!Fold(x, q) \in T
        BY <2>2, <2>3, <2>4, TI!FoldStaysIn
    <2>6. QED
        BY <2>1, <2>5 DEF T
<1>4. QED
    BY <1>2, <1>3

-----------------------------------------------------------------------------
(* The inductive invariant: what the Controller is owed. *)
Debt(x) == IF Over(x) THEN <<>> ELSE StillOwed(x.cp)

OwedInv ==
    /\ ~misreplied /\ ad.texts = <<>> /\ Sound(ad.cp)
    /\ lc # "done" => (ad.cp.attached <=> ad.client # "none")
    /\ owed = Debt(ad)
    /\ lc \in States \cup {"begin"} /\ "listener" \in ready => waiting # "none"

LEMMA NowTexts ==
    ASSUME NEW P, ad \in Adapters(P), NEW fails \in BOOLEAN
    PROVE  Now(fails).texts = ad.texts
<1> DEFINE y1 == [ad EXCEPT !.helperOpen = helperOpen]
           y == [y1 EXCEPT !.socketFails = fails]
<1>1. Now(fails) = y
    BY DEF Now
<1>2. /\ y1.texts = ad.texts
      /\ y1 = [f \in DOMAIN ad |-> IF f = "helperOpen" THEN helperOpen ELSE ad[f]]
      /\ DOMAIN y1 = DOMAIN ad
    BY DEF Adapters
<1> HIDE DEF y1
<1>3. y.texts = y1.texts
    BY <1>2 DEF Adapters
<1>4. QED
    BY <1>1, <1>2, <1>3

LEMMA NowOwes ==
    ASSUME NEW P, ad \in Adapters(P), OwedInv, lc # "done", NEW fails \in BOOLEAN
    PROVE  LET x == Now(fails)
           IN  /\ Owes(x, owed) /\ x.texts = <<>> /\ x.cp = ad.cp /\ x.client = ad.client
               /\ owed = Debt(x)
<1> DEFINE x == Now(fails)
<1>1. x.texts = <<>> /\ x.cp = ad.cp /\ x.client = ad.client
    BY NowTexts, NowFields DEF OwedInv, SameFields
<1> HIDE DEF x
<1>2. Owes(x, owed) /\ owed = Debt(x)
    <2>1. Reckoned(owed, x.texts) = [owed |-> owed, ok |-> TRUE]
        BY <1>1, NothingReckoned
    <2>2. owed = Debt(x)
        BY <1>1 DEF OwedInv, Debt, Over
    <2>3. Sound(x.cp) /\ (x.cp.attached <=> x.client # "none")
        BY <1>1 DEF OwedInv
    <2>4. ~Over(x) => owed = StillOwed(x.cp)
        BY <2>2 DEF Debt
    <2>5. Reckoned(owed, x.texts).ok
        BY <2>1
    <2>6. QED
        BY <2>1, <2>2, <2>3, <2>4, <2>5 DEF Owes
<1>3. QED
    BY <1>1, <1>2 DEF x

LEMMA InstallOwes ==
    ASSUME NEW P, NEW y \in Adapters(P), NEW asked, Install(y, asked), OwedInv,
           Owes(y, owed \o asked),
           lc' \in States \cup {"begin"} /\ "listener" \in ready' => waiting' # "none"
    PROVE  OwedInv'
<1> DEFINE o == owed \o asked
           r == Reckoned(o, y.texts)
<1>1. /\ owed' = IF Over(y) THEN <<>> ELSE r.owed
      /\ misreplied' = (misreplied \/ ~r.ok)
    <2> DEFINE seen == FoldLeft(Observe, [owed |-> owed \o asked, ok |-> TRUE], y.texts)
    <2>1. seen = r
        BY DEF Reckoned, FoldLeft, MapThenFoldSet, OB!Fold, OB!Largest, Max
    <2>2. /\ owed' = IF y.client = "none" \/ y.cp.terminal \/ y.cp.failed THEN <<>> ELSE seen.owed
          /\ misreplied' = (misreplied \/ ~seen.ok)
        BY DEF Install
    <2> HIDE DEF seen, r
    <2>3. QED
        BY <2>1, <2>2 DEF Over
<1>2. r.ok /\ (~Over(y) => r = [owed |-> StillOwed(y.cp), ok |-> TRUE])
      /\ Sound(y.cp) /\ (y.cp.attached <=> y.client # "none")
    BY DEF Owes
<1> HIDE DEF r
<1>3. ~misreplied' /\ owed' = Debt(y)
    <2>1. ~misreplied'
        BY <1>1, <1>2 DEF OwedInv
    <2>2. CASE Over(y)
        BY <1>1, <2>1, <2>2 DEF Debt
    <2>3. CASE ~Over(y)
        BY <1>1, <1>2, <2>1, <2>3 DEF Debt
    <2>4. QED
        BY <2>2, <2>3
<1>4. ad'.cp = y.cp /\ ad'.client = y.client
    BY InstallFields DEF SameFields
<1>5. ad'.texts = <<>>
    <2> DEFINE y1 == [y EXCEPT !.outbox = <<>>]
               y2 == [y1 EXCEPT !.texts = <<>>]
               y3 == [y2 EXCEPT !.halted = FALSE]
               y4 == [y3 EXCEPT !.helperOpen = TRUE]
               y5 == [y4 EXCEPT !.socketFails = FALSE]
    <2>1. ad' = y5
        BY DEF Install
    <2>2. "texts" \in DOMAIN y /\ DOMAIN y1 = DOMAIN y
        BY DEF Adapters
    <2> HIDE DEF y1
    <2>3. DOMAIN y2 = DOMAIN y /\ y2.texts = <<>>
        BY <2>2
    <2> HIDE DEF y2
    <2>4. DOMAIN y3 = DOMAIN y /\ y3.texts = <<>>
        BY <2>2, <2>3
    <2> HIDE DEF y3
    <2>5. DOMAIN y4 = DOMAIN y /\ y4.texts = <<>>
        BY <2>2, <2>4
    <2> HIDE DEF y4
    <2>6. y5.texts = <<>>
        BY <2>2, <2>5
    <2>7. QED
        BY <2>1, <2>6
<1>6. Debt(ad') = Debt(y)
    BY <1>4 DEF Debt, Over
<1>7. QED
    BY <1>2, <1>3, <1>4, <1>5, <1>6 DEF OwedInv

-----------------------------------------------------------------------------
(* A read of the helper's frames leaves the balance even. *)
LEMMA OwesCarries ==
    ASSUME NEW P, BatchEvents \subseteq P, NEW o
    PROVE  Carries(P, {z \in Adapters(P) : Owes(z, o)})
<1> DEFINE O == {z \in Adapters(P) : Owes(z, o)}
<1>1. ASSUME NEW z \in O, NEW w \in Adapters(P),
             w.cp = z.cp, w.client = z.client, w.texts = z.texts
      PROVE  w \in O
    BY <1>1, SameOwes
<1>2. ASSUME NEW z \in O, NEW e \in HelperEvents, HelperEventStep(z, e) \in Adapters(P),
             e.kind = "activated" => ~z.hasCp /\ Bare(z),
             e.kind \in {"applied", "restored"} => e.change = z.cp.inflight.change
      PROVE  HelperEventStep(z, e) \in O
    BY <1>2, EventOwes
<1>3. O \subseteq Adapters(P)
    OBVIOUS
<1> HIDE DEF O
<1>4. Carries(P, O)
    BY <1>1, <1>2, <1>3 DEF Carries
<1>5. QED
    BY <1>4 DEF O

LEMMA ReadHelperOwes ==
    ASSUME SessionInv, ChangeInvariant, OwedInv, ReadHelper
    PROVE  OwedInv'
<1> DEFINE P == TrueEvents
           O == {z \in Adapters(P) : Owes(z, owed)}
<1>1. HelperInv /\ AdapterInv /\ ad \in Adapters(P)
    BY DEF SessionInv, AdapterInv, GoodAndLate, GoodAdapters
<1>2. BatchEvents \subseteq P
    BY TrueSetting, SettingFacts DEF Setting
<1>3. /\ "helper" \in ready /\ lc \in States /\ ready' = ready \ {"helper"}
      /\ UNCHANGED <<lc, waiting>>
    BY DEF ReadHelper, Turn, Handled, lcVars
<1>4. PICK fails \in BOOLEAN : Install(ReadHelperEvents(Now(fails), frames), <<>>)
    BY DEF ReadHelper
<1> DEFINE x == Now(fails)
           y == ReadHelperEvents(x, frames)
<1>5. x \in Adapters(P)
    BY <1>1, NowKeeps DEF GoodAndLate, GoodAdapters
<1> HIDE DEF P
<1>6. Carries(P, O)
    BY <1>2, OwesCarries
<1>7. lc # "done"
    BY <1>3 DEF States
<1>8. x \in O
    BY <1>1, <1>5, <1>7, NowOwes
<1>9. owed \o <<>> = owed
    BY <1>1, OwedFacts, NothingBehind DEF OwedInv, Debt, Adapters
<1>10. y \in Adapters(P) /\ y \in O
    <2> HIDE DEF O
    <2>1. QED
        BY <1>3, <1>6, <1>8, WhatIsHeard DEF P
<1> HIDE DEF x, y
<1>11. Owes(y, owed \o <<>>)
    BY <1>9, <1>10
<1>12. lc' \in States \cup {"begin"} /\ "listener" \in ready' => waiting' # "none"
    BY <1>3 DEF OwedInv
<1>13. Install(y, <<>>)
    BY <1>4 DEF x, y
<1>14. QED
    BY <1>10, <1>11, <1>12, <1>13, InstallOwes

-----------------------------------------------------------------------------
(* Nothing is said, and nothing changes for who is attached. *)
LEMMA OwedStays ==
    ASSUME OwedInv, owed' = owed, misreplied' = misreplied, ad'.texts = ad.texts, ad'.cp = ad.cp,
           ad'.client = "none" <=> ad.client = "none", lc' # "done" => lc # "done",
           lc' \in States \cup {"begin"} /\ "listener" \in ready' => waiting' # "none"
    PROVE  OwedInv'
<1>1. Debt(ad') = Debt(ad)
    BY DEF Debt, Over
<1>2. QED
    BY <1>1 DEF OwedInv

LEMMA QuietSteps ==
    ASSUME SessionInv, ChangeInvariant, OwedInv,
           \/ Poll \/ SkipClient \/ Connect \/ SendLine \/ PressCtrlC \/ SupervisorDies
           \/ CloseHelperSocket \/ KillLauncher \/ UNCHANGED vars
           \/ CloseController \/ Reap \/ FinalizeSession \/ HelperError
           \/ HandleEvent \/ Expire \/ BeginSession
           \/ HelperProcessStep \/ WorkloadDies \/ TerminateLauncher \/ HelperCrashes
           \/ (WorkloadEnds /\ OthersUnchanged)
    PROVE  OwedInv'
<1> DEFINE P == TrueEvents
<1>1. ad \in Adapters(P)
    BY DEF SessionInv, AdapterInv, GoodAndLate, GoodAdapters
<1>2. BatchEvents \subseteq P
    BY TrueSetting, SettingFacts DEF Setting
<1> HIDE DEF P
<1>3. lc \in States \cup {"begin"} /\ "listener" \in ready => waiting # "none"
    BY DEF OwedInv
<1> USE DEF historyVars
<1>4. CASE Poll
    <2>1. "listener" \in Revents => waiting # "none"
        BY DEF Revents
    <2>2. ready' = Revents /\ UNCHANGED <<lc, waiting, ad, owed, misreplied>>
        BY <1>4 DEF Poll, lcVars, worldVars
    <2>3. QED
        BY <2>1, <2>2, OwedStays
<1>5. CASE SkipClient
    <2>1. ready' \subseteq ready /\ UNCHANGED <<lc, waiting, ad, owed, misreplied>>
        BY <1>5 DEF SkipClient, Handled, lcVars, worldVars
    <2>2. QED
        BY <1>3, <2>1, OwedStays
<1>6. CASE \/ SendLine \/ PressCtrlC \/ SupervisorDies \/ UNCHANGED vars
           \/ HelperProcessStep \/ WorkloadDies \/ HelperCrashes
           \/ (WorkloadEnds /\ OthersUnchanged)
    <2>1. UNCHANGED <<ready, lc, waiting, ad, owed, misreplied>>
        BY <1>6 DEF SendLine, PressCtrlC, SupervisorDies, vars, HelperProcessStep, WorkloadDies,
                    HelperCrashes, OthersUnchanged, SupervisorUnchanged, lcVars, supVars, worldVars
    <2>2. QED
        BY <1>3, <2>1, OwedStays
<1>7. CASE Connect
    <2>1. UNCHANGED <<ready, lc, ad, owed, misreplied>> /\ waiting' = "open"
        BY <1>7 DEF Connect, SupervisorUnchanged, lcVars, supVars
    <2>2. QED
        BY <2>1, OwedStays
<1>8. CASE CloseHelperSocket \/ KillLauncher \/ TerminateLauncher
    <2>1. UNCHANGED <<ready, lc, waiting, ad, owed, misreplied>>
        BY <1>8 DEF CloseHelperSocket, KillLauncher, TerminateLauncher, lcVars, worldVars
    <2>2. QED
        BY <1>3, <2>1, OwedStays
<1>9. CASE Reap
    <2>1. UNCHANGED <<ready, waiting, ad, owed, misreplied>> /\ lc = "reap_launcher"
          /\ lc' = "finalize"
        BY <1>9 DEF Reap, ReapLauncher, supVars, worldVars
    <2>2. QED
        BY <2>1, OwedStays DEF States
<1>10. CASE CloseController
    <2>1. /\ UNCHANGED <<ready, lc, owed, misreplied>>
          /\ \/ waiting' = "closed" /\ ad' = ad
             \/ waiting' = waiting /\ ad.client = "open" /\ ad' = [ad EXCEPT !.client = "closed"]
        BY <1>10 DEF CloseController, lcVars
    <2>2. CASE waiting' = "closed" /\ ad' = ad
        BY <2>1, <2>2, OwedStays
    <2>3. CASE waiting' = waiting /\ ad.client = "open" /\ ad' = [ad EXCEPT !.client = "closed"]
        <3>1. ad'.cp = ad.cp /\ ad'.texts = ad.texts /\ ad'.client = "closed"
            BY <1>1, <2>3 DEF Adapters
        <3>2. QED
            BY <1>3, <2>1, <2>3, <3>1, OwedStays
    <2>4. QED
        BY <2>1, <2>2, <2>3
<1>11. CASE FinalizeSession
    <2>1. /\ UNCHANGED <<ready, owed, misreplied>> /\ lc = "finalize" /\ lc' = "publish_outcome"
          /\ ad' = [ad EXCEPT !.listening = FALSE]
        BY <1>11 DEF FinalizeSession, Finalize
    <2>2. ad'.cp = ad.cp /\ ad'.texts = ad.texts /\ ad'.client = ad.client
        BY <1>1, <2>1 DEF Adapters
    <2>3. QED
        BY <2>1, <2>2, OwedStays DEF States
<1>12. CASE HelperError
    <2>1. /\ UNCHANGED <<lc, waiting, owed, misreplied>> /\ ready' = ready \ {"helper_err"}
          /\ ad' = Push(ad, "conversation_lost", 0)
        BY <1>12 DEF HelperError, Handled, lcVars, worldVars
    <2>2. [kind |-> "conversation_lost", value |-> 0] \in P
        BY <1>2 DEF BatchEvents, Event
    <2>3. ad'.cp = ad.cp /\ ad'.texts = ad.texts /\ ad'.client = ad.client
        BY <1>1, <2>1, <2>2, PushFacts
    <2>4. QED
        BY <1>3, <2>1, <2>3, OwedStays
<1>13. CASE HandleEvent \/ Expire
    <2>1. /\ UNCHANGED <<ready, waiting, owed, misreplied>> /\ ready = {} /\ lc \in States
          /\ ad' = ad \/ ad' = [ad EXCEPT !.pending = Tail(@)]
        BY <1>13 DEF HandleEvent, Expire, Lifecycle, Waiting, worldVars
    <2>2. ad'.cp = ad.cp /\ ad'.texts = ad.texts /\ ad'.client = ad.client
        BY <1>1, <2>1 DEF Adapters
    <2>3. QED
        BY <2>1, <2>2, OwedStays DEF States
<1>14. CASE BeginSession
    <2>1. UNCHANGED <<ready, waiting, owed, misreplied>> /\ lc = "begin"
        BY <1>14 DEF BeginSession, worldVars
    <2>2. PICK c : ad' = [ad EXCEPT !.conv = c]
        BY <1>14 DEF BeginSession
    <2>3. ad'.cp = ad.cp /\ ad'.texts = ad.texts /\ ad'.client = ad.client
        BY <1>1, <2>2 DEF Adapters
    <2>4. QED
        BY <1>3, <2>1, <2>3, OwedStays
<1>15. QED
    BY <1>4, <1>5, <1>6, <1>7, <1>8, <1>9, <1>10, <1>11, <1>12, <1>13, <1>14

LEMMA PublishOwes ==
    ASSUME SessionInv, OwedInv, Publish
    PROVE  OwedInv'
<1> DEFINE P == TrueEvents
<1>1. ad \in Adapters(P)
    BY DEF SessionInv, AdapterInv, GoodAndLate, GoodAdapters
<1> HIDE DEF P
<1>2. lc' = "done" /\ ad' = [ad EXCEPT !.client = "none"] /\ owed' = <<>>
      /\ misreplied' = misreplied
    BY DEF Publish, PublishOutcome
<1>3. ad'.cp = ad.cp /\ ad'.texts = ad.texts /\ ad'.client = "none"
    BY <1>1, <1>2 DEF Adapters
<1>4. QED
    BY <1>2, <1>3 DEF OwedInv, Debt, Over, States

-----------------------------------------------------------------------------
(* The steps that talk to the Controller. *)
LEMMA AcceptIsOwed ==
    ASSUME SessionInv, OwedInv, Accept
    PROVE  OwedInv'
<1> DEFINE P == TrueEvents
           x == Now(FALSE)
           y == AcceptController(x, waiting)
<1>1. HelperInv /\ AdapterInv /\ WorldInv /\ ad \in Adapters(P)
    BY DEF SessionInv, AdapterInv, GoodAndLate, GoodAdapters
<1>2. BatchEvents \subseteq P /\ Setting(P, Has("profile_state"), UnderWay)
    BY TrueSetting, SettingFacts DEF Setting
<1>3. x \in GoodAndLate(P, Has("profile_state"), UnderWay) /\ x \in Adapters(P)
    BY <1>1, NowKeeps DEF GoodAndLate, GoodAdapters
<1>4. /\ lc \in States /\ "listener" \in ready /\ ready' = ready \ {"listener"} /\ lc' = lc
      /\ \/ Install(y, <<>>)
         \/ ad' = Push(ad, "conversation_lost", 0) /\ UNCHANGED <<owed, misreplied>>
         \/ UNCHANGED <<ad, owed, misreplied>>
    BY DEF Accept, Handled, Turn, lcVars
<1> HIDE DEF P, y
<1>5. lc # "done" /\ waiting \in {"open", "closed"}
    BY <1>1, <1>4 DEF OwedInv, WorldInv, States
<1>6. lc' \in States \cup {"begin"} /\ "listener" \in ready' => waiting' # "none"
    BY <1>4
<1>7. CASE Install(y, <<>>)
    <2>1. /\ Owes(x, owed) /\ x.texts = <<>> /\ x.cp = ad.cp /\ x.client = ad.client
          /\ owed = Debt(x)
        BY <1>1, <1>5, NowOwes
    <2>2. Sound(x.cp) /\ (x.cp.attached <=> x.client # "none")
        BY <2>1 DEF Owes
    <2> HIDE DEF x
    <2>3. owed \o <<>> = owed
        BY <1>1, OwedFacts, NothingBehind DEF OwedInv, Debt, Adapters
    <2>4. y \in Adapters(P) /\ Owes(y, owed)
        <3>1. y \in Adapters(P)
            <4>1. waiting \in {"none", "open", "closed"}
                BY <1>5
            <4>2. y \in GoodAndLate(P, Has("profile_state"), UnderWay)
                BY <1>2, <1>3, <4>1, AcceptKeeps DEF y
            <4>3. QED
                BY <4>2 DEF GoodAndLate, GoodAdapters
        <3>2. CASE x.client # "none"
            BY <2>1, <3>1, <3>2 DEF y, AcceptController
        <3>3. CASE x.client = "none"
            <4>1. owed = <<>>
                BY <2>1, <3>3 DEF Debt, Over
            <4>2. Owes(AcceptController(x, waiting), <<>>)
                BY <1>2, <1>3, <1>5, <2>1, <2>2, <3>3, AcceptOwes
            <4>3. QED
                BY <3>1, <4>1, <4>2 DEF y
        <3>4. QED
            BY <3>1, <3>2, <3>3
    <2>5. QED
        BY <1>6, <1>7, <2>3, <2>4, InstallOwes
<1>8. CASE ad' = Push(ad, "conversation_lost", 0) /\ UNCHANGED <<owed, misreplied>>
    <2>1. [kind |-> "conversation_lost", value |-> 0] \in P
        BY <1>2 DEF BatchEvents, Event
    <2>2. ad'.cp = ad.cp /\ ad'.texts = ad.texts /\ ad'.client = ad.client
        BY <1>1, <1>8, <2>1, PushFacts
    <2>3. QED
        BY <1>4, <1>6, <1>8, <2>2, OwedStays
<1>9. CASE UNCHANGED <<ad, owed, misreplied>>
    BY <1>4, <1>6, <1>9, OwedStays
<1>10. QED
    BY <1>4, <1>7, <1>8, <1>9

LEMMA ReadClientOwes ==
    ASSUME SessionInv, ChangeInvariant, OwedInv, ReadClient \/ ReadClientEnd
    PROVE  OwedInv'
<1> DEFINE P == TrueEvents
           x == Now(FALSE)
<1>1. HelperInv /\ AdapterInv /\ WorldInv /\ ad \in Adapters(P)
    BY DEF SessionInv, AdapterInv, GoodAndLate, GoodAdapters
<1>2. BatchEvents \subseteq P /\ Setting(P, Has("profile_state"), UnderWay)
    BY TrueSetting, SettingFacts DEF Setting
<1>3. x \in GoodAndLate(P, Has("profile_state"), UnderWay) /\ x \in Adapters(P)
    BY <1>1, NowKeeps DEF GoodAndLate, GoodAdapters
<1>4. /\ lc \in States /\ lc' = lc /\ waiting' = waiting /\ ready' \subseteq ready
      /\ ad.client # "none"
    BY DEF ReadClient, ReadClientEnd, Handled, Turn, ClientIgnored, lcVars
<1> HIDE DEF P
<1>5. lc # "done" /\ (lc' \in States \cup {"begin"} /\ "listener" \in ready' => waiting' # "none")
    BY <1>4 DEF OwedInv, States
<1>6. /\ Owes(x, owed) /\ x.texts = <<>> /\ x.cp = ad.cp /\ x.client = ad.client
      /\ owed = Debt(x)
    BY <1>1, <1>5, NowOwes
<1>7. Sound(x.cp) /\ x.cp.attached /\ x.client # "none" /\ x.hasCp
    <2>1. Sound(x.cp) /\ x.cp.attached /\ x.client # "none"
        BY <1>4, <1>6 DEF Owes
    <2>2. x.hasCp
        BY <1>1, <1>4, NowFields DEF SameFields, ChangeInvariant, Linked
    <2>3. QED
        BY <2>1, <2>2
<1>8. CASE ReadClient
    <2> DEFINE y == ControllerBytes(x, lines)
    <2>1. Install(y, Asked(lines))
        BY <1>8 DEF ReadClient
    <2>2. lines \in Seq(ControllerLines)
        BY <1>1, LinesAssumption, SeqGrows DEF WorldInv
    <2> HIDE DEF x
    <2>3. y \in Adapters(P)
        BY <1>2, <1>3, <1>7, <2>2, BytesKeep DEF GoodAndLate, GoodAdapters
    <2>4. Owes(y, owed \o Asked(lines))
        BY <1>2, <1>3, <1>6, <1>7, <2>2, BytesOwes DEF Debt
    <2> HIDE DEF y
    <2>5. QED
        BY <1>5, <2>1, <2>3, <2>4, InstallOwes
<1>9. CASE ReadClientEnd
    <2> DEFINE y == ControllerGone(x)
    <2>1. Install(y, <<>>)
        BY <1>9 DEF ReadClientEnd
    <2>2. owed \o <<>> = owed
        BY <1>1, OwedFacts, NothingBehind DEF OwedInv, Debt, Adapters
    <2> HIDE DEF x
    <2>3. y \in Adapters(P)
        BY <1>2, <1>3, <1>7, GoneKeeps DEF GoodAndLate, GoodAdapters
    <2>4. Owes(y, owed)
        BY <1>3, <1>6, GoneOwes
    <2> HIDE DEF y
    <2>5. QED
        BY <1>5, <2>1, <2>2, <2>3, <2>4, InstallOwes
<1>10. QED
    BY <1>8, <1>9

LEMMA ReadSignalsOwes ==
    ASSUME SessionInv, OwedInv, ReadSignals
    PROVE  OwedInv'
<1> DEFINE P == TrueEvents
           x == Now(FALSE)
           y == TakeInterrupts(x, interrupts)
<1>1. HelperInv /\ AdapterInv /\ WorldInv /\ ad \in Adapters(P)
    BY DEF SessionInv, AdapterInv, GoodAndLate, GoodAdapters
<1>2. BatchEvents \subseteq P /\ PlainEvents \subseteq P
    BY TrueSetting, SettingFacts DEF Setting
<1>3. x \in Adapters(P)
    BY <1>1, NowKeeps DEF GoodAndLate, GoodAdapters
<1>4. /\ lc \in States /\ lc' = lc /\ waiting' = waiting /\ ready' \subseteq ready
      /\ ad' = [y EXCEPT !.helperOpen = TRUE] /\ misreplied' = misreplied
      /\ owed' = IF y.cp.stopping THEN <<>> ELSE owed
    BY DEF ReadSignals, Handled, Turn, lcVars
<1>5. lc # "done" /\ (lc' \in States \cup {"begin"} /\ "listener" \in ready' => waiting' # "none")
    BY <1>4 DEF OwedInv, States
<1>6. interrupts \in Nat
    BY <1>1 DEF WorldInv
<1> HIDE DEF P
<1>7. /\ Owes(x, owed) /\ x.texts = <<>> /\ x.cp = ad.cp /\ x.client = ad.client
      /\ owed = Debt(x)
    BY <1>1, <1>5, NowOwes
<1>8. Sound(x.cp) /\ (x.cp.attached <=> x.client # "none")
    BY <1>7 DEF Owes
<1> HIDE DEF x
<1>9. y \in Adapters(P) /\ Hushed(x, y)
    BY <1>2, <1>3, <1>6, <1>8, InterruptsHush
<1> HIDE DEF y
<1>10. ad'.cp = y.cp /\ ad'.client = y.client /\ ad'.texts = y.texts
    BY <1>4, <1>9 DEF Adapters
<1>11. owed' = Debt(ad')
    <2>1. Over(ad') <=> Over(x)
        BY <1>9, <1>10 DEF Over, Hushed
    <2>2. CASE Over(x)
        <3>1. owed = <<>>
            BY <1>7, <2>2 DEF Debt
        <3>2. QED
            BY <1>4, <2>1, <2>2, <3>1 DEF Debt
    <2>3. CASE ~Over(x) /\ y.cp.stopping
        <3>1. y.cp \in ControlPlanes /\ Sound(y.cp) /\ y.cp.attached
            BY <1>8, <1>9, <2>3 DEF Adapters, Hushed, Over
        <3>2. StillOwed(y.cp) = <<>>
            BY <2>3, <3>1, StoppingIsSilent
        <3>3. QED
            BY <1>4, <1>10, <2>1, <2>3, <3>2 DEF Debt
    <2>4. CASE ~Over(x) /\ ~y.cp.stopping
        <3>1. y.cp = x.cp
            BY <1>9, <2>4 DEF Hushed
        <3>2. QED
            BY <1>4, <1>7, <1>10, <2>1, <2>4, <3>1 DEF Debt
    <2>5. QED
        BY <2>2, <2>3, <2>4
<1>12. QED
    BY <1>4, <1>5, <1>7, <1>8, <1>9, <1>10, <1>11 DEF OwedInv, Hushed

-----------------------------------------------------------------------------
LEMMA OwedInit == SessionInit => OwedInv
<1> SUFFICES ASSUME SessionInit PROVE OwedInv
    OBVIOUS
<1>1. /\ ad = AdapterInit /\ ready = {} /\ owed = <<>> /\ misreplied = FALSE
    BY DEF SessionInit
<1>2. ad.cp = ControlPlaneInit /\ ad.client = "none" /\ ad.texts = <<>>
    BY <1>1 DEF AdapterInit
<1>3. ControlPlaneInit \in ControlPlanes /\ Silenced(ControlPlaneInit)
      /\ ~ControlPlaneInit.attached
    <2>1. ControlPlaneInit \in ControlPlanes
        BY ActionTypes, EmptyQueue DEF ControlPlaneInit, ControlPlanes, Flights
    <2>2. QED
        BY <2>1 DEF ControlPlaneInit, Silenced, NoFlight
<1>4. Sound(ControlPlaneInit)
    BY <1>3, SilencedIsSound
<1>5. QED
    BY <1>1, <1>2, <1>3, <1>4 DEF OwedInv, Debt, Over

LEMMA OwedStep ==
    SessionInv /\ ChangeInvariant /\ OwedInv /\ [SessionNext]_vars => OwedInv'
<1> SUFFICES ASSUME SessionInv, ChangeInvariant, OwedInv, [SessionNext]_vars PROVE OwedInv'
    OBVIOUS
<1>1. CASE ReadHelper
    BY <1>1, ReadHelperOwes
<1>2. CASE Accept
    BY <1>2, AcceptIsOwed
<1>3. CASE ReadClient \/ ReadClientEnd
    BY <1>3, ReadClientOwes
<1>4. CASE ReadSignals
    BY <1>4, ReadSignalsOwes
<1>5. CASE Publish
    BY <1>5, PublishOwes
<1>6. CASE \/ Poll \/ SkipClient \/ Connect \/ SendLine \/ PressCtrlC \/ SupervisorDies
           \/ CloseHelperSocket \/ KillLauncher \/ UNCHANGED vars
           \/ CloseController \/ Reap \/ FinalizeSession \/ HelperError
           \/ HandleEvent \/ Expire \/ BeginSession
           \/ HelperProcessStep \/ WorkloadDies \/ TerminateLauncher \/ HelperCrashes
           \/ (WorkloadEnds /\ OthersUnchanged)
    BY <1>6, QuietSteps
<1>7. QED
    BY <1>1, <1>2, <1>3, <1>4, <1>5, <1>6 DEF SessionNext, SupervisorStep, World

LEMMA OwedIsTracked == SessionSpec => []OwedInv
<1>1. SessionInit => SessionInv /\ ChangeInvariant /\ OwedInv
    BY SessionInit1, ChangeInit, OwedInit
<1>2. SessionInv /\ ChangeInvariant /\ OwedInv /\ [SessionNext]_vars =>
         (SessionInv /\ ChangeInvariant /\ OwedInv)'
    BY SessionStep1, ChangeStep, OwedStep
<1>3. QED
    BY <1>1, <1>2, PTL DEF SessionSpec

(* Every text a Controller gets answers the oldest of its lines that is to  *)
(* be answered next: for any lines, Controllers, stops and completions no   *)
(* answer is out of order, and none is for an earlier connection.           *)
THEOREM AnswersComeInOrder == SessionSpec => []RepliesInOrder
<1>1. OwedInv => RepliesInOrder
    BY DEF OwedInv, RepliesInOrder
<1>2. QED
    BY <1>1, OwedIsTracked, PTL

(* No command is forgotten: what the attached Controller is still owed is   *)
(* its own change in flight and the queue, in that order, and the control   *)
(* plane agrees with the adapter on who is attached, whatever reads, write  *)
(* failures, disconnects and stops come between.                            *)
THEOREM EveryCommandIsKept == SessionSpec => []NoCommandIsLost
<1>1. OwedInv => NoCommandIsLost
    <2> SUFFICES ASSUME OwedInv, ad.hasCp, lc # "done"
                 PROVE  /\ ad.cp.attached <=> ad.client # "none"
                        /\ ad.cp.attached /\ ~ad.cp.terminal /\ ~ad.cp.failed =>
                              owed = StillOwed(ad.cp)
        BY DEF NoCommandIsLost, StillOwed, Own, Cmds
    <2>1. ad.cp.attached <=> ad.client # "none"
        BY DEF OwedInv
    <2>2. QED
        BY <2>1 DEF OwedInv, Debt, Over
<1>2. QED
    BY <1>1, OwedIsTracked, PTL

=============================================================================
