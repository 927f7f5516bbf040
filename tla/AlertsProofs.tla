---------------------------- MODULE AlertsProofs ----------------------------
(***************************************************************************)
(* What holds of priority alerts and of the windows' tables for any number *)
(* of windows, alerts and scenes.                                          *)
(***************************************************************************)
EXTENDS Alerts, Extrema, SequenceTheorems

-----------------------------------------------------------------------------
(* Lists of anything.  t goes on where s ends, or is s without one element. *)

IsList(s) == \E S : s \in Seq(S)

Continues(s, t) ==
  /\ IsList(t) /\ Len(t) >= Len(s)
  /\ \A i \in DOMAIN s : i \in DOMAIN t /\ t[i] = s[i]

Without(s, i, t) ==
  /\ IsList(t) /\ Len(t) = Len(s) - 1
  /\ \A j \in DOMAIN t : t[j] = s[IF j < i THEN j ELSE j + 1]

LEMMA Listed ==
  ASSUME NEW s, IsList(s)
  PROVE  /\ Len(s) \in Nat /\ DOMAIN s = 1..Len(s)
         /\ \A i \in DOMAIN s : i \in Nat /\ i >= 1 /\ i <= Len(s)
BY DEF IsList

LEMMA EmptyList == IsList(<<>>) /\ Len(<<>>) = 0 /\ DOMAIN <<>> = {}
BY DEF IsList

LEMMA Single ==
  ASSUME NEW e
  PROVE  IsList(<<e>>) /\ Len(<<e>>) = 1 /\ DOMAIN <<e>> = {1} /\ <<e>>[1] = e
<1>1. <<e>> \in Seq({e}) /\ Len(<<e>>) = 1 /\ <<e>>[1] = e
  OBVIOUS
<1>2. IsList(<<e>>)
  BY <1>1 DEF IsList
<1> QED BY <1>1, <1>2, Listed

LEMMA Continued == ASSUME NEW s, IsList(s) PROVE Continues(s, s)
BY Listed DEF Continues

LEMMA Appended ==
  ASSUME NEW s, IsList(s), NEW e
  PROVE  /\ Continues(s, Append(s, e)) /\ Len(Append(s, e)) = Len(s) + 1
         /\ Append(s, e)[Len(s) + 1] = e
<1>1. PICK S : s \in Seq(S)
  BY DEF IsList
<1>2. s \in Seq(S \cup {e}) /\ e \in S \cup {e}
  BY <1>1, SeqMonotonic
<1>3. /\ Append(s, e) \in Seq(S \cup {e}) /\ Len(Append(s, e)) = Len(s) + 1
      /\ \A i \in 1..Len(s) : Append(s, e)[i] = s[i]
      /\ Append(s, e)[Len(s) + 1] = e
  BY <1>2
<1>4. IsList(Append(s, e))
  BY <1>3 DEF IsList
<1> QED BY <1>3, <1>4, Listed DEF Continues

LEMMA Joined ==
  ASSUME NEW s, IsList(s), NEW u, IsList(u)
  PROVE  /\ Continues(s, s \o u) /\ Len(s \o u) = Len(s) + Len(u)
         /\ \A j \in DOMAIN u : Len(s) + j \in DOMAIN (s \o u) /\ (s \o u)[Len(s) + j] = u[j]
         /\ \A j \in DOMAIN (s \o u) : j \notin DOMAIN s =>
              j - Len(s) \in DOMAIN u /\ (s \o u)[j] = u[j - Len(s)]
<1>1. PICK S : s \in Seq(S)
  BY DEF IsList
<1>2. PICK U : u \in Seq(U)
  BY DEF IsList
<1>3. s \in Seq(S \cup U) /\ u \in Seq(S \cup U)
  BY <1>1, <1>2, SeqMonotonic
<1>4. /\ s \o u \in Seq(S \cup U) /\ Len(s \o u) = Len(s) + Len(u)
      /\ \A i \in 1 .. Len(s) + Len(u) :
           (s \o u)[i] = IF i <= Len(s) THEN s[i] ELSE u[i - Len(s)]
  BY <1>3, ConcatProperties
<1>5. IsList(s \o u)
  BY <1>4 DEF IsList
<1> HIDE <1>1, <1>2, <1>3
<1>6. /\ Len(s) \in Nat /\ DOMAIN s = 1..Len(s) /\ Len(u) \in Nat /\ DOMAIN u = 1..Len(u)
      /\ DOMAIN (s \o u) = 1..Len(s \o u)
  BY <1>5, Listed
<1> QED BY <1>4, <1>5, <1>6 DEF Continues

LEMMA Removed ==
  ASSUME NEW s, IsList(s), NEW i \in DOMAIN s
  PROVE  Without(s, i, RemoveAt(s, i))
<1>1. PICK S : s \in Seq(S)
  BY DEF IsList
<1>2. Len(s) \in Nat /\ i \in 1..Len(s) /\ \A j \in 1..Len(s) : s[j] \in S
  BY <1>1
<1> DEFINE a == SubSeq(s, 1, i - 1)
           b == SubSeq(s, i + 1, Len(s))
<1>3. /\ a \in Seq(S) /\ Len(a) = i - 1 /\ \A j \in 1 .. i - 1 : a[j] = s[j]
  <2>1. /\ a \in Seq(S) /\ Len(a) = IF 1 <= i - 1 THEN (i - 1) - 1 + 1 ELSE 0
        /\ \A j \in 1 .. (i - 1) - 1 + 1 : a[j] = s[1 + j - 1]
    BY <1>2, SubSeqProperties
  <2> QED BY <2>1, <1>2
<1>4. /\ b \in Seq(S) /\ Len(b) = Len(s) - i /\ \A j \in 1 .. Len(s) - i : b[j] = s[i + j]
  <2>1. /\ b \in Seq(S) /\ Len(b) = IF i + 1 <= Len(s) THEN Len(s) - (i + 1) + 1 ELSE 0
        /\ \A j \in 1 .. Len(s) - (i + 1) + 1 : b[j] = s[i + 1 + j - 1]
    BY <1>2, SubSeqProperties
  <2> QED BY <2>1, <1>2
<1>5. RemoveAt(s, i) = a \o b
  BY DEF RemoveAt
<1> HIDE DEF a, b
<1>6. /\ a \o b \in Seq(S) /\ Len(a \o b) = Len(s) - 1
      /\ \A j \in 1 .. Len(s) - 1 : (a \o b)[j] = IF j <= i - 1 THEN a[j] ELSE b[j - (i - 1)]
  <2>1. /\ a \o b \in Seq(S) /\ Len(a \o b) = Len(a) + Len(b)
        /\ \A j \in 1 .. Len(a) + Len(b) : (a \o b)[j] = IF j <= Len(a) THEN a[j] ELSE b[j - Len(a)]
    BY <1>3, <1>4, ConcatProperties
  <2>2. Len(a) + Len(b) = Len(s) - 1 /\ Len(a) = i - 1
    BY <1>3, <1>4, <1>2
  <2> QED BY <2>1, <2>2
<1>7. \A j \in 1 .. Len(s) - 1 : (a \o b)[j] = s[IF j < i THEN j ELSE j + 1]
  <2> TAKE j \in 1 .. Len(s) - 1
  <2>1. CASE j < i
    BY <2>1, <1>2, <1>3, <1>6
  <2>2. CASE j >= i
    <3>1. j - (i - 1) \in 1 .. Len(s) - i /\ i + (j - (i - 1)) = j + 1 /\ ~(j <= i - 1) /\ ~(j < i)
      BY <2>2, <1>2
    <3>2. b[j - (i - 1)] = s[i + (j - (i - 1))]
      BY <3>1, <1>4
    <3> QED BY <3>1, <3>2, <1>6
  <2>3. j < i \/ j >= i
    BY <1>2
  <2> QED BY <2>1, <2>2, <2>3
<1>8. IsList(a \o b)
  BY <1>6 DEF IsList
<1>9. DOMAIN (a \o b) = 1 .. Len(s) - 1
  BY <1>6, <1>8, Listed
<1>10. Without(s, i, a \o b)
  BY <1>6, <1>7, <1>8, <1>9 DEF Without
<1> QED BY <1>5, <1>10

\* Where the elements of s are in t, and those of t in s.
LEMMA Remaining ==
  ASSUME NEW s, IsList(s), NEW i \in DOMAIN s, NEW t, Without(s, i, t)
  PROVE  /\ \A j \in DOMAIN t : /\ j \in Nat /\ j >= 1
                                /\ j < i => j \in DOMAIN s /\ t[j] = s[j]
                                /\ j >= i => j + 1 \in DOMAIN s /\ t[j] = s[j + 1]
         /\ \A j \in DOMAIN s : /\ j \in Nat /\ j >= 1
                                /\ j < i => j \in DOMAIN t /\ t[j] = s[j]
                                /\ j > i => j - 1 \in DOMAIN t /\ t[j - 1] = s[j]
<1>0. Len(s) \in Nat /\ DOMAIN s = 1..Len(s) /\ i \in 1..Len(s) /\ DOMAIN t = 1..Len(t)
  BY Listed DEF Without
<1>1. /\ Len(s) \in Nat /\ DOMAIN s = 1..Len(s) /\ i \in 1..Len(s)
      /\ DOMAIN t = 1..(Len(s) - 1)
      /\ \A j \in 1..(Len(s) - 1) : t[j] = s[IF j < i THEN j ELSE j + 1]
  <2>1. Len(t) = Len(s) - 1 /\ \A j \in DOMAIN t : t[j] = s[IF j < i THEN j ELSE j + 1]
    BY DEF Without
  <2>2. DOMAIN t = 1..(Len(s) - 1)
    BY <1>0, <2>1
  <2> QED BY <1>0, <2>1, <2>2
<1>2. \A j \in 1..(Len(s) - 1) : j < i => t[j] = s[j]
  BY <1>1
<1>3. \A j \in 1..(Len(s) - 1) : j >= i => t[j] = s[j + 1]
  BY <1>1
<1>4. ASSUME NEW j \in 1..Len(s), j > i
      PROVE  j - 1 \in 1..(Len(s) - 1) /\ t[j - 1] = s[j]
  <2>1. j - 1 \in 1..(Len(s) - 1) /\ j - 1 >= i /\ (j - 1) + 1 = j
    BY <1>4, <1>1
  <2> QED BY <2>1, <1>3
<1> QED BY <1>1, <1>2, <1>3, <1>4

LEMMA Changed1 ==
  ASSUME NEW s, IsList(s), NEW i \in DOMAIN s, NEW e
  PROVE  /\ IsList([s EXCEPT ![i] = e]) /\ Len([s EXCEPT ![i] = e]) = Len(s)
         /\ DOMAIN [s EXCEPT ![i] = e] = DOMAIN s
         /\ \A j \in DOMAIN s : [s EXCEPT ![i] = e][j] = IF j = i THEN e ELSE s[j]
<1>1. PICK S : s \in Seq(S)
  BY DEF IsList
<1>2. s \in Seq(S \cup {e}) /\ e \in S \cup {e}
  BY <1>1, SeqMonotonic
<1>3. [s EXCEPT ![i] = e] \in Seq(S \cup {e})
  BY <1>2, ExceptSeq
<1> QED BY <1>1, <1>3 DEF IsList

LEMMA Rest ==
  ASSUME NEW s, IsList(s), s # <<>>
  PROVE  /\ 1 \in DOMAIN s /\ Head(s) = s[1] /\ IsList(Tail(s)) /\ Len(Tail(s)) = Len(s) - 1
         /\ \A j \in DOMAIN Tail(s) : j + 1 \in DOMAIN s /\ Tail(s)[j] = s[j + 1]
<1>1. PICK S : s \in Seq(S)
  BY DEF IsList
<1>2. Tail(s) \in Seq(S)
  BY <1>1
<1> QED BY <1>1, <1>2 DEF IsList

LEMMA OfList ==
  ASSUME NEW n \in Nat, NEW f, f = [i \in 1..n |-> f[i]]
  PROVE  IsList(f) /\ Len(f) = n
<1>1. f \in [1..n -> {f[i] : i \in 1..n}]
  OBVIOUS
<1>2. f \in Seq({f[i] : i \in 1..n}) /\ DOMAIN f = 1..n
  BY <1>1
<1>3. Len(f) = n
  BY <1>2
<1> QED BY <1>2, <1>3 DEF IsList

-----------------------------------------------------------------------------
(* The constant tables. *)

ReadRequests == {"snapshot", "settings", "analytics", "timeline", "disciplines", "projects",
                 "tasks", "users", "proposals", "date_changes", "logs", "alerts"}

\* Every panel asks for reads, and for those that it has scopes for.
LEMMA PanelsAsk ==
  ASSUME NEW p \in Panels \cup {Nobody}
  PROVE  /\ IsList(Asked[p]) /\ DOMAIN Scopes[p] = Range(Asked[p])
         /\ Range(Asked[p]) \subseteq ReadRequests \cap Shown(p)
         /\ "snapshot" \in Range(Asked[p]) <=> p = "head"
         /\ "alerts" \in Range(Asked[p]) <=> p = "coo"
<1>1. p \in {"admin", "super", "coo", "head", "nobody"}
  BY DEF Panels, Nobody
<1>2. CASE p = "admin"
  <2>1. Asked[p] = <<"disciplines", "projects", "tasks", "timeline", "users", "proposals",
                     "date_changes", "analytics">> /\ Scopes[p] = AdminScopes
    BY <1>2 DEF Asked, Scopes
  <2>2. Asked[p] \in Seq(ReadRequests) /\ DOMAIN Asked[p] = 1..8
    BY <2>1 DEF ReadRequests
  <2>3. Range(Asked[p]) = {"disciplines", "projects", "tasks", "timeline", "users", "proposals",
                     "date_changes", "analytics"}
    BY <2>1, <2>2 DEF Range
  <2>4. DOMAIN Scopes[p] = Range(Asked[p])
    BY <2>1, <2>3 DEF AdminScopes
  <2> QED BY <1>2, <2>2, <2>3, <2>4 DEF IsList, Shown, ReadRequests
<1>3. CASE p = "super"
  <2>1. Asked[p] = <<"users", "disciplines", "settings">> /\ Scopes[p] = SuperScopes
    BY <1>3 DEF Asked, Scopes
  <2>2. Asked[p] \in Seq(ReadRequests) /\ DOMAIN Asked[p] = 1..3
    BY <2>1 DEF ReadRequests
  <2>3. Range(Asked[p]) = {"users", "disciplines", "settings"}
    BY <2>1, <2>2 DEF Range
  <2>4. DOMAIN Scopes[p] = Range(Asked[p])
    BY <2>1, <2>3 DEF SuperScopes
  <2> QED BY <1>3, <2>2, <2>3, <2>4 DEF IsList, Shown, ReadRequests
<1>4. CASE p = "coo"
  <2>1. Asked[p] = <<"users", "projects", "disciplines", "logs", "alerts">> /\ Scopes[p] = CooScopes
    BY <1>4 DEF Asked, Scopes
  <2>2. Asked[p] \in Seq(ReadRequests) /\ DOMAIN Asked[p] = 1..5
    BY <2>1 DEF ReadRequests
  <2>3. Range(Asked[p]) = {"users", "projects", "disciplines", "logs", "alerts"}
    BY <2>1, <2>2 DEF Range
  <2>4. DOMAIN Scopes[p] = Range(Asked[p])
    BY <2>1, <2>3 DEF CooScopes
  <2> QED BY <1>4, <2>2, <2>3, <2>4 DEF IsList, Shown, ReadRequests
<1>5. CASE p = "head"
  <2>1. Asked[p] = <<"snapshot", "proposals", "date_changes">> /\ Scopes[p] = HeadScopes
    BY <1>5 DEF Asked, Scopes
  <2>2. Asked[p] \in Seq(ReadRequests) /\ DOMAIN Asked[p] = 1..3
    BY <2>1 DEF ReadRequests
  <2>3. Range(Asked[p]) = {"snapshot", "proposals", "date_changes"}
    BY <2>1, <2>2 DEF Range
  <2>4. DOMAIN Scopes[p] = Range(Asked[p])
    BY <2>1, <2>3 DEF HeadScopes
  <2> QED BY <1>5, <2>2, <2>3, <2>4 DEF IsList, Shown, ReadRequests
<1>6. CASE p = "nobody"
  <2>1. Asked[p] = <<>> /\ Scopes[p] = <<>>
    BY <1>6 DEF Asked, Scopes
  <2>2. IsList(Asked[p]) /\ Range(Asked[p]) = {} /\ DOMAIN Scopes[p] = {}
    BY <2>1, EmptyList DEF Range
  <2> QED BY <1>6, <2>2
<1> QED BY <1>1, <1>2, <1>3, <1>4, <1>5, <1>6

\* What follows a reply is one more read, of a request that the panel makes itself.
LEMMA AfterAReply ==
  ASSUME NEW p, NEW r
  PROVE  /\ IsList(Then(p, r))
         /\ Then(p, r) = <<>> \/ (Then(p, r) = <<"timeline">> /\ r \in Range(Asked[p]))
<1>1. CASE p = "admin" /\ r \in DOMAIN AdminThen
  <2>1. r = "projects" /\ Then(p, r) = <<"timeline">>
    BY <1>1 DEF Then, AdminThen
  <2>2. r = Asked[p][2] /\ 2 \in DOMAIN Asked[p]
    BY <1>1, <2>1 DEF Asked
  <2> QED BY <2>1, <2>2, Single DEF Range
<1>2. CASE p = "head" /\ r \in DOMAIN HeadThen
  <2>1. r = "snapshot" /\ Then(p, r) = <<"timeline">>
    BY <1>2 DEF Then, HeadThen
  <2>2. r = Asked[p][1] /\ 1 \in DOMAIN Asked[p]
    BY <1>2, <2>1 DEF Asked
  <2> QED BY <2>1, <2>2, Single DEF Range
<1>3. CASE ~(p = "admin" /\ r \in DOMAIN AdminThen) /\ ~(p = "head" /\ r \in DOMAIN HeadThen)
  <2>1. Then(p, r) = <<>>
    BY <1>3 DEF Then
  <2> QED BY <2>1, EmptyList
<1> QED BY <1>1, <1>2, <1>3

LEMMA PanelsShow ==
  ASSUME NEW p \in Panels \cup {Nobody}
  PROVE  /\ Shown(p) \subseteq ReadRequests
         /\ "snapshot" \in Shown(p) => p = "head"
         /\ "alerts" \in Shown(p) => p = "coo"
         /\ \A r : Range(Then(p, r)) \subseteq Shown(p) \cap ReadRequests
<1>1. \A r : Range(Then(p, r)) \subseteq {"timeline"} /\ (Range(Then(p, r)) = {} \/ r \in Range(Asked[p]))
  <2> TAKE r
  <2>1. Range(<<"timeline">>) = {"timeline"} /\ Range(<<>>) = {}
    BY Single, EmptyList DEF Range
  <2> QED BY <2>1, AfterAReply
<1>2. \A r : Range(Then(p, r)) \subseteq Shown(p)
  BY <1>1 DEF Shown
<1>3. \A r \in Shown(p) : r \in Range(Asked[p]) \/ r = "timeline"
  BY <1>1 DEF Shown
<1> QED BY <1>1, <1>2, <1>3, PanelsAsk DEF ReadRequests

\* The reads of a request: the alerts are read last, and only for the snapshot and the tracker.
LEMMA WhatIsRead ==
  ASSUME NEW r \in ReadRequests
  PROVE  /\ IsList(Reads(r)) /\ Len(Reads(r)) >= 1
         /\ Live(r) \subseteq Tables
         /\ \A t \in Live(r) : \E j \in DOMAIN Reads(r) : t \in Reads(r)[j]
         /\ \A j \in DOMAIN Reads(r) : Reads(r)[j] \subseteq Tables \cup {"alerts"}
         /\ \A j \in DOMAIN Reads(r) : "alerts" \in Reads(r)[j] <=>
              r \in {"snapshot", "alerts"} /\ j = Len(Reads(r))
<1>1. \A t : t \in Live(r) => t # "alerts" /\ \E j \in DOMAIN Reads(r) : t \in Reads(r)[j]
  BY DEF Live, Range
<1> SUFFICES /\ IsList(Reads(r)) /\ Len(Reads(r)) >= 1
             /\ \A j \in DOMAIN Reads(r) : Reads(r)[j] \subseteq Tables \cup {"alerts"}
             /\ \A j \in DOMAIN Reads(r) : "alerts" \in Reads(r)[j] <=>
                  r \in {"snapshot", "alerts"} /\ j = Len(Reads(r))
  BY <1>1
<1>2. CASE r = "snapshot"
  <2>1. Reads(r) = <<{"projects"}, {"disciplines"}, {"projects"}, {"tasks", "entries"}, {"alerts"}>>
    BY <1>2 DEF Reads, SnapshotReads
  <2>2. Reads(r) \in Seq(SUBSET (Tables \cup {"alerts"})) /\ Len(Reads(r)) = 5
    BY <2>1 DEF Tables
  <2>3. /\ Reads(r)[1] = {"projects"} /\ Reads(r)[2] = {"disciplines"} /\ Reads(r)[3] = {"projects"}
        /\ Reads(r)[4] = {"tasks", "entries"} /\ Reads(r)[5] = {"alerts"}
    BY <2>1
  <2>4. IsList(Reads(r)) /\ DOMAIN Reads(r) = {1, 2, 3, 4, 5}
    <3>1. IsList(Reads(r))
      BY <2>2 DEF IsList
    <3> QED BY <2>2, <3>1, Listed
  <2>5. \A j \in DOMAIN Reads(r) : Reads(r)[j] \subseteq Tables \cup {"alerts"}
    BY <2>3, <2>4 DEF Tables
  <2>6. \A j \in DOMAIN Reads(r) : "alerts" \in Reads(r)[j] <=> j = 5
    BY <2>3, <2>4
  <2>7. r \in {"snapshot", "alerts"} /\ Len(Reads(r)) = 5
    BY <1>2, <2>2
  <2> HIDE <1>2
  <2> QED BY <2>4, <2>5, <2>6, <2>7
<1>3. CASE r = "settings"
  <2>1. Reads(r) = <<{"settings"}, {"users"}>>
    BY <1>3 DEF Reads, SettingsReads
  <2>2. Reads(r) \in Seq(SUBSET (Tables \cup {"alerts"})) /\ Len(Reads(r)) = 2
    BY <2>1 DEF Tables
  <2> QED BY <1>3, <2>1, <2>2 DEF IsList
<1>4. CASE r \notin {"snapshot", "settings"}
  <2>1. PICK s \in SUBSET (Tables \cup {"alerts"}) :
          Reads(r) = <<s>> /\ ("alerts" \in s <=> r = "alerts")
    <3>1. CASE r = "analytics"
      BY <3>1 DEF Reads, AnalyticsReads, Tables
    <3>2. CASE r = "timeline"
      BY <3>2 DEF Reads, Tables
    <3>3. CASE r \notin {"analytics", "timeline"}
      <4>1. Reads(r) = <<{r}>>
        BY <1>4, <3>3 DEF Reads
      <4> QED BY <4>1, <3>3, <1>4 DEF ReadRequests, Tables
    <3> QED BY <3>1, <3>2, <3>3
  <2> QED BY <1>4, <2>1, Single
<1> QED BY <1>2, <1>3, <1>4

\* Who plays a scene: its panels, and what each listens to.
LEMMA ScenePanels ==
  ASSUME scene \in Scenes
  PROVE  /\ scene.panel \in [Windows -> Panels \cup {Nobody}]
         /\ \A w \in Windows : Panel(w) \in Panels \cup {Nobody}
         /\ scene.most \in Nat /\ scene.faults \in Nat /\ scene.loaded \in BOOLEAN
         /\ scene.kinds \subseteq Kinds
BY DeskConstants DEF Panel

-----------------------------------------------------------------------------
(* The requests that windows make. *)

\* A read is at its k-th database call and has got what the earlier ones read.
AtCall(a, k) ==
  /\ k \in DOMAIN Reads(a.request)
  /\ a.left = SubSeq(Reads(a.request), k, Len(Reads(a.request)))
  /\ DOMAIN a.got = UNION {Reads(a.request)[j] : j \in 1 .. k - 1}

IsRead(a, p) ==
  /\ a.request \in ReadRequests \cap Shown(p)
  /\ \E k \in DOMAIN Reads(a.request) : AtCall(a, k)
  /\ \A t \in Tables \cap DOMAIN a.got : a.got[t] \in Nat

\* A list of reads that have not begun, of requests of R.
FreshReads(u, R) ==
  IsList(u) /\ \A i \in DOMAIN u : \E r \in R : u[i] = Ask(r)

LEMMA FreshRead ==
  ASSUME NEW p, NEW r \in ReadRequests \cap Shown(p)
  PROVE  /\ IsRead(Ask(r), p) /\ Ask(r).request = r /\ Ask(r).got = <<>>
         /\ DOMAIN Ask(r).got = {}
<1>1. IsList(Reads(r)) /\ Len(Reads(r)) >= 1 /\ DOMAIN Reads(r) = 1..Len(Reads(r)) /\ Len(Reads(r)) \in Nat
  BY WhatIsRead, Listed
<1>2. Ask(r).request = r /\ Ask(r).left = Reads(r) /\ Ask(r).got = <<>>
  BY DEF Ask, Asking
<1>3. PICK S : Reads(r) \in Seq(S)
  BY <1>1 DEF IsList
<1>4. SubSeq(Reads(r), 1, Len(Reads(r))) = Reads(r)
  BY <1>3, SubSeqFull
<1>5. UNION {Reads(r)[j] : j \in 1 .. 1 - 1} = {}
  OBVIOUS
<1>6. AtCall(Ask(r), 1)
  BY <1>1, <1>2, <1>4, <1>5, EmptyList DEF AtCall
<1> QED BY <1>1, <1>2, <1>6, EmptyList DEF IsRead

LEMMA AllAsked ==
  ASSUME scene \in Scenes, NEW w \in Windows
  PROVE  /\ FreshReads(All(w), Range(Asked[Panel(w)]))
         /\ \A r \in Range(Asked[Panel(w)]) : \E i \in DOMAIN All(w) : All(w)[i] = Ask(r)
<1> DEFINE list == Asked[Panel(w)]
<1>1. IsList(list) /\ DOMAIN list = 1..Len(list) /\ Len(list) \in Nat
  BY ScenePanels, PanelsAsk, Listed
<1>2. All(w) = [i \in 1..Len(list) |-> Ask(list[i])]
  BY <1>1 DEF All
<1> HIDE DEF list
<1>3. All(w) = [i \in 1..Len(list) |-> All(w)[i]]
  BY <1>2
<1>4. IsList(All(w)) /\ Len(All(w)) = Len(list)
  BY <1>1, <1>3, OfList
<1>5. \A i \in 1..Len(list) : All(w)[i] = Ask(list[i]) /\ list[i] \in Range(list)
  BY <1>1, <1>2 DEF Range
<1>6. \A r \in Range(list) : \E i \in 1..Len(list) : r = list[i]
  BY <1>1 DEF Range
<1>7. DOMAIN All(w) = 1..Len(list)
  BY <1>2
<1>8. FreshReads(All(w), Range(list))
  BY <1>4, <1>5, <1>7 DEF FreshReads
<1>9. \A r \in Range(list) : \E i \in DOMAIN All(w) : All(w)[i] = Ask(r)
  BY <1>5, <1>6, <1>7
<1> QED BY <1>8, <1>9 DEF list

LEMMA ThenAsked ==
  ASSUME NEW p, NEW r
  PROVE  LET u == [j \in DOMAIN Then(p, r) |-> Ask(Then(p, r)[j])]
         IN FreshReads(u, Range(Then(p, r)))
<1> DEFINE next == Then(p, r)
           u == [j \in DOMAIN next |-> Ask(next[j])]
<1>1. IsList(next) /\ DOMAIN next = 1..Len(next) /\ Len(next) \in Nat
  BY AfterAReply, Listed
<1>2. u = [i \in 1..Len(next) |-> u[i]]
  BY <1>1
<1>3. \A i \in DOMAIN u : u[i] = Ask(next[i]) /\ next[i] \in Range(next)
  BY DEF Range
<1> HIDE DEF next, u
<1>4. IsList(u)
  BY <1>1, <1>2, OfList
<1>5. FreshReads(u, Range(next))
  BY <1>3, <1>4 DEF FreshReads
<1> QED BY <1>5 DEF next, u

LEMMA WantedAsked ==
  ASSUME scene \in Scenes, NEW w \in Windows, NEW scopes
  PROVE  /\ FreshReads(Wanted(w, scopes), Range(Asked[Panel(w)]))
         /\ \A r \in Range(Asked[Panel(w)]) : Scopes[Panel(w)][r] \cap scopes # {} =>
              \E i \in DOMAIN Wanted(w, scopes) : Wanted(w, scopes)[i] = Ask(r)
<1> DEFINE list == Asked[Panel(w)]
           L == Len(list)
           meets(i) == Scopes[Panel(w)][list[i]] \cap scopes # {}
           Step(f, i) == IF i = 0 THEN <<>>
                         ELSE IF Scopes[Panel(w)][list[i]] \cap scopes # {}
                              THEN Append(f[i - 1], Ask(list[i])) ELSE f[i - 1]
           Solves(f, n) == f = [i \in 0 .. n |-> IF i = 0 THEN <<>>
                         ELSE IF Scopes[Panel(w)][list[i]] \cap scopes # {}
                              THEN Append(f[i - 1], Ask(list[i])) ELSE f[i - 1]]
<1>1. IsList(list) /\ DOMAIN list = 1..L /\ L \in Nat
  BY ScenePanels, PanelsAsk, Listed
<1>2. Wanted(w, scopes) = (CHOOSE f : Solves(f, L))[L]
  BY DEF Wanted
<1>3. \E f : Solves(f, L)
  <2> DEFINE wrong == {n \in 1..L : \A f : ~Solves(f, n)}
  <2>1. Solves([i \in 0 .. 0 |-> <<>>], 0)
    BY SMT
  <2> HIDE DEF Solves
  <2>2. SUFFICES ASSUME wrong # {} PROVE FALSE
    <3>1. L = 0 \/ L \in 1..L
      BY <1>1
    <3> QED BY <2>1, <3>1
  <2>3. PICK n \in wrong : \A k \in wrong : n <= k
    <3> HIDE DEF wrong
    <3>1. wrong \subseteq 1..L
      BY DEF wrong
    <3> QED BY <1>1, <2>2, <3>1, HasLeast
  <2>4. n \in 1..L /\ n - 1 \notin wrong
    <3>1. n \in 1..L
      BY <2>3
    <3>2. ~(n <= n - 1)
      BY <1>1, <3>1
    <3> HIDE DEF wrong
    <3> QED BY <2>3, <3>1, <3>2
  <2>5. PICK f : Solves(f, n - 1)
    <3>1. n - 1 = 0 \/ n - 1 \in 1..L
      BY <1>1, <2>4
    <3> QED BY <2>1, <2>4, <3>1
  <2> USE DEF Solves
  <2> DEFINE g == [i \in 0 .. n |-> IF i < n THEN f[i] ELSE Step(f, n)]
  <2>6. \A i \in 0 .. n - 1 : f[i] = Step(f, i)
    BY <2>5
  <2>7. \A i \in 0 .. n : g[i] = Step(g, i)
    <3> TAKE i \in 0 .. n
    <3>1. i > 0 => g[i - 1] = f[i - 1]
      BY <2>4
    <3>2. i < n => g[i] = f[i] /\ i \in 0 .. n - 1
      BY <2>4
    <3>3. i = n => g[i] = Step(f, i)
      BY <2>4
    <3> HIDE DEF g
    <3> QED BY <2>4, <2>6, <3>1, <3>2, <3>3
  <2>8. Solves(g, n)
    <3>1. g = [i \in 0 .. n |-> g[i]]
      OBVIOUS
    <3> HIDE DEF g
    <3> QED BY <2>7, <3>1
  <2> QED BY <2>3, <2>8
<1>4. PICK f : Wanted(w, scopes) = f[L] /\ Solves(f, L)
  <2> HIDE DEF Solves
  <2> QED BY <1>2, <1>3
<1>5. /\ f[0] = <<>>
      /\ \A i \in 1..L : f[i] = IF meets(i) THEN Append(f[i - 1], Ask(list[i])) ELSE f[i - 1]
  <2>1. 0 \in 0 .. L /\ \A i \in 1..L : i \in 0 .. L /\ i # 0
    BY <1>1
  <2>2. \A i \in 0 .. L : f[i] = Step(f, i)
    BY <1>4
  <2>3. f[0] = Step(f, 0) /\ \A i \in 1..L : f[i] = Step(f, i)
    <3> HIDE DEF Step
    <3> QED BY <2>1, <2>2
  <2> QED BY <2>1, <2>3
<1> HIDE DEF Solves, meets
<1> DEFINE Good(i) == /\ FreshReads(f[i], {list[j] : j \in 1..i})
                      /\ \A j \in 1..i : meets(j) => \E k \in DOMAIN f[i] : f[i][k] = Ask(list[j])
<1>6. Good(0)
  <2>1. f[0] = <<>> /\ \A j \in 1..0 : FALSE
    BY <1>5
  <2>2. IsList(f[0]) /\ \A j \in DOMAIN f[0] : FALSE
    BY <2>1, EmptyList
  <2> QED BY <2>1, <2>2 DEF FreshReads
<1>7. ASSUME NEW i \in 1..L, Good(i - 1) PROVE Good(i)
  <2> DEFINE s == f[i - 1]
             t == f[i]
             e == Ask(list[i])
  <2>1. /\ IsList(s) /\ \A k \in DOMAIN s : \E j \in 1 .. i - 1 : s[k] = Ask(list[j])
        /\ \A j \in 1 .. i - 1 : meets(j) => \E k \in DOMAIN s : s[k] = Ask(list[j])
    BY <1>7 DEF FreshReads
  <2>2. CASE meets(i)
    <3>1. t = Append(s, e)
      BY <1>5, <2>2
    <3>2. /\ IsList(t) /\ \A k \in DOMAIN s : k \in DOMAIN t /\ t[k] = s[k]
          /\ Len(t) = Len(s) + 1 /\ t[Len(s) + 1] = e
      BY <2>1, <3>1, Appended DEF Continues
    <3>3. DOMAIN t = DOMAIN s \cup {Len(s) + 1}
      <4>1. DOMAIN t = 1..Len(t) /\ DOMAIN s = 1..Len(s) /\ Len(s) \in Nat
        BY <2>1, <3>2, Listed
      <4> QED BY <4>1, <3>2
    <3> HIDE DEF s, t
    <3>4. \A k \in DOMAIN t : \E j \in 1..i : t[k] = Ask(list[j])
      BY <2>1, <3>2, <3>3 DEF e
    <3>5. \A j \in 1..i : meets(j) => \E k \in DOMAIN t : t[k] = Ask(list[j])
      BY <2>1, <3>2, <3>3 DEF e
    <3> QED BY <3>2, <3>4, <3>5 DEF FreshReads, t
  <2>3. CASE ~meets(i)
    <3>1. t = s
      BY <1>5, <2>3
    <3>2. \A k \in DOMAIN s : \E j \in 1..i : s[k] = Ask(list[j])
      BY <2>1
    <3>3. \A j \in 1..i : meets(j) => \E k \in DOMAIN s : s[k] = Ask(list[j])
      BY <2>1, <2>3
    <3> QED BY <2>1, <3>1, <3>2, <3>3 DEF FreshReads
  <2> QED BY <2>2, <2>3
<1>8. Good(L)
  <2> DEFINE wrong == {i \in 1..L : ~Good(i)}
  <2> HIDE DEF Good
  <2>1. SUFFICES ASSUME wrong # {} PROVE FALSE
    <3>1. L = 0 \/ L \in 1..L
      BY <1>1
    <3> QED BY <1>6, <3>1
  <2>2. PICK n \in wrong : \A k \in wrong : n <= k
    <3> HIDE DEF wrong
    <3>1. wrong \subseteq 1..L
      BY DEF wrong
    <3> QED BY <1>1, <2>1, <3>1, HasLeast
  <2>3. n \in 1..L /\ ~Good(n) /\ n - 1 \notin wrong
    <3>1. n \in 1..L /\ ~Good(n)
      BY <2>2
    <3>2. ~(n <= n - 1)
      BY <1>1, <3>1
    <3> HIDE DEF wrong
    <3> QED BY <2>2, <3>1, <3>2
  <2>4. Good(n - 1)
    <3>1. n - 1 = 0 \/ n - 1 \in 1..L
      BY <1>1, <2>3
    <3> QED BY <1>6, <2>3, <3>1
  <2> QED BY <2>3, <2>4, <1>7
<1>9. {list[j] : j \in 1..L} = Range(list)
  BY <1>1 DEF Range
<1>10. \A r \in Range(list) : \E j \in 1..L : r = list[j]
  BY <1>9
<1>11. \A r \in Range(list) : Scopes[Panel(w)][r] \cap scopes # {} =>
         \E i \in DOMAIN f[L] : f[L][i] = Ask(r)
  BY <1>8, <1>10 DEF meets
<1> QED BY <1>4, <1>8, <1>9, <1>11

\* What a database call got, and what then becomes of the request.
ReadOf(a, p, data, got) ==
  /\ a.left # <<>> /\ a.request \in ReadRequests /\ "alerts" \notin DOMAIN a.got
  /\ DOMAIN a.got \subseteq DOMAIN got
  /\ \A t \in DOMAIN got : got[t] = IF t \in DOMAIN a.got THEN a.got[t] ELSE data[t]
  /\ \A t \in Tables \cap DOMAIN got : got[t] \in Nat
  /\ Len(a.left) > 1 => IsRead(Asking(a.request, Tail(a.left), got), p)
  /\ ~(Len(a.left) > 1) =>
       /\ Live(a.request) \subseteq DOMAIN got
       /\ a.request \in {"snapshot", "alerts"} => "alerts" \in DOMAIN got

\* A read before and after its next database call: the alerts come with the last one.
LEMMA ReadGoesOn ==
  ASSUME NEW p \in Panels \cup {Nobody}, NEW a, IsRead(a, p),
         NEW data, \A t \in Tables : data[t] \in Nat
  PROVE  ReadOf(a, p, data, Filled(a.got, Head(a.left), data))
<1> DEFINE got == Filled(a.got, Head(a.left), data)
           R == Reads(a.request)
<1>1. PICK k \in DOMAIN R : AtCall(a, k)
  BY DEF IsRead
<1>2. /\ IsList(R) /\ DOMAIN R = 1..Len(R) /\ Len(R) \in Nat /\ k \in 1..Len(R)
      /\ a.request \in ReadRequests
  BY WhatIsRead, Listed DEF IsRead
<1>3. PICK S : R \in Seq(S)
  BY <1>2 DEF IsList
<1>4. /\ a.left = SubSeq(R, k, Len(R)) /\ Len(a.left) = Len(R) - k + 1 /\ a.left # <<>>
      /\ Head(a.left) = R[k] /\ Tail(a.left) = SubSeq(R, k + 1, Len(R))
  <2>1. a.left = SubSeq(R, k, Len(R)) /\ Len(R) \in k..Len(R)
    BY <1>1, <1>2 DEF AtCall
  <2>2. Head(SubSeq(R, k, Len(R))) = R[k] /\ Tail(SubSeq(R, k, Len(R))) = SubSeq(R, k + 1, Len(R))
    BY <1>2, <1>3, <2>1, HeadTailOfSubSeq
  <2>3. \A i \in k..Len(R) : R[i] \in S
    BY <1>2, <1>3
  <2>4. SubSeq(R, k, Len(R)) \in Seq(S)
        /\ Len(SubSeq(R, k, Len(R))) = IF k <= Len(R) THEN Len(R) - k + 1 ELSE 0
    BY <1>2, <2>3, SubSeqProperties
  <2>5. Len(SubSeq(R, k, Len(R))) = Len(R) - k + 1 /\ Len(SubSeq(R, k, Len(R))) >= 1
    BY <1>2, <2>4
  <2>6. SubSeq(R, k, Len(R)) # <<>>
    BY <2>5, EmptyList
  <2> HIDE DEF R
  <2> QED BY <2>1, <2>2, <2>5, <2>6
<1>5. DOMAIN a.got = UNION {R[j] : j \in 1 .. k - 1}
  BY <1>1 DEF AtCall
<1>6. /\ DOMAIN got = DOMAIN a.got \cup R[k]
      /\ \A t \in DOMAIN got : got[t] = IF t \in DOMAIN a.got THEN a.got[t] ELSE data[t]
  BY <1>4 DEF Filled
<1> HIDE DEF got
<1>7. DOMAIN got = UNION {R[j] : j \in 1 .. k}
  <2>1. \A j : j \in 1 .. k <=> j \in 1 .. k - 1 \/ j = k
    BY <1>2
  <2> QED BY <1>5, <1>6, <2>1
<1>8. "alerts" \notin DOMAIN a.got
  <2>1. \A j \in 1 .. k - 1 : j \in DOMAIN R /\ j # Len(R)
    BY <1>2
  <2> QED BY <1>2, <1>5, <2>1, WhatIsRead
<1>9. \A t \in Tables \cap DOMAIN got : got[t] \in Nat
  BY <1>6 DEF IsRead
<1>10. ASSUME Len(a.left) > 1 PROVE IsRead(Asking(a.request, Tail(a.left), got), p)
  <2> DEFINE b == Asking(a.request, Tail(a.left), got)
  <2>1. b.request = a.request /\ b.left = SubSeq(R, k + 1, Len(R)) /\ b.got = got
    BY <1>4 DEF Asking
  <2>2. k + 1 \in DOMAIN R /\ (k + 1) - 1 = k
    BY <1>2, <1>4, <1>10
  <2> HIDE DEF b
  <2>3. AtCall(b, k + 1)
    BY <1>7, <2>1, <2>2 DEF AtCall
  <2> QED BY <1>9, <2>1, <2>2, <2>3 DEF IsRead, b
<1>11. ASSUME ~(Len(a.left) > 1)
       PROVE  /\ Live(a.request) \subseteq DOMAIN got
              /\ a.request \in {"snapshot", "alerts"} => "alerts" \in DOMAIN got
  <2>1. k = Len(R)
    BY <1>2, <1>4, <1>11
  <2>2. \A j \in DOMAIN R : R[j] \subseteq DOMAIN got
    BY <1>2, <1>7, <2>1
  <2>3. a.request \in {"snapshot", "alerts"} => "alerts" \in R[k]
    BY <1>2, <2>1, WhatIsRead
  <2>4. \A t \in Live(a.request) : \E j \in DOMAIN R : t \in R[j]
    BY <1>2, WhatIsRead
  <2> QED BY <1>2, <2>2, <2>3, <2>4
<1>12. ReadOf(a, p, data, got)
  BY <1>2, <1>4, <1>6, <1>8, <1>9, <1>10, <1>11 DEF ReadOf
<1> QED BY <1>12 DEF got

-----------------------------------------------------------------------------
(* What is on the connections, in the handlers and in the windows. *)

Rows == [Alerts -> Statuses \cup {None}]

IsAsk(a, p) ==
  \/ IsRead(a, p)
  \/ a.request \in HeadsOwn /\ a.left = <<>> /\ p = "head"
  \/ a.request = "notify" /\ a.left = <<>> /\ a.alert \in Alerts /\ p = "coo"
  \/ a.request = "respond" /\ a.left = <<>> /\ a.alert \in Alerts

IsReply(m, p) ==
  /\ m.request \in ReadRequests \cap Shown(p)
  /\ \A t \in Live(m.request) : m.data[t] \in Nat
  /\ m.request \in {"snapshot", "alerts"} => m.data["alerts"] \in Rows

IsMessage(m, p) ==
  \/ m.msg \in {"changed", "failed", "synced", "resumed"}
  \/ m.msg = "reply" /\ IsReply(m, p)
  \/ m.msg = "alert" /\ m.alert \in Alerts
  \/ m.msg = "sent" /\ m.alert \in Alerts /\ p = "coo"
  \/ m.msg = "ack" /\ m.alert \in Alerts /\ m.ok \in BOOLEAN
  \/ m.msg = "answered" /\ m.alert \in Alerts /\ m.status \in Answers

IsItem(item) ==
  \/ item.message.msg = "changed" /\ item.window = Nobody
  \/ item.message.msg = "synced" /\ item.panels = {}

AsksOK(s, p) == IsList(s) /\ \A i \in DOMAIN s : IsAsk(s[i], p)
WireOK(s, p) == IsList(s) /\ \A i \in DOMAIN s : IsMessage(s[i], p)
ItemsOK(s) == IsList(s) /\ \A j \in DOMAIN s : IsItem(s[j])

\* Events that a window gets before its session is resumed.
Early == {"resumed", "changed", "alert", "answered"}

AsksTyped == DOMAIN asks = Windows /\ \A w \in Windows : AsksOK(asks[w], Panel(w))
WireTyped == DOMAIN wire = Windows /\ \A w \in Windows : WireOK(wire[w], Panel(w))
HandlersTyped == IsList(handlers) /\ \A i \in DOMAIN handlers : ItemsOK(handlers[i])

\* A table's version counts some of the changes.
Numbers ==
  /\ version \in [Tables -> 0..scene.most] /\ \A t \in Tables : version[t] <= changes
  /\ changes \in 0..scene.most /\ faults \in 0..scene.faults

Connections == {"down", "opening", "resuming", "up"}

InTheWindows ==
  /\ DOMAIN dirty = Windows /\ DOMAIN warned = Windows
  /\ DOMAIN view = Windows /\ \A w \in Windows : DOMAIN view[w] = Shown(Panel(w))

AboutAlerts ==
  /\ alert \in [Alerts -> Statuses \cup {None}]
  /\ open \in [Windows -> SUBSET Alerts]
  /\ box \in [Windows -> [Alerts -> Answers \cup {None, "FAILED"}]]
  /\ tracker \in [Windows -> [Alerts -> Statuses \cup {None}]]
  /\ said \in [Windows -> [Alerts -> Answers \cup {None}]]
  /\ overtaken \in [Windows -> SUBSET Alerts]

\* Only a window that is connected and open has requests, and replies to them.
Idle ==
  /\ \A w \in Windows : conn[w] # "up" =>
       asks[w] = <<>> /\ \A i \in DOMAIN wire[w] : wire[w][i].msg \in Early
  /\ \A w \in Windows : conn[w] = "down" => wire[w] = <<>>
  /\ \A i \in DOMAIN handlers : \A j \in DOMAIN handlers[i] :
       handlers[i][j].window \in Windows => conn[handlers[i][j].window] = "up"

Desk ==
  /\ scene \in Scenes /\ Numbers /\ conn \in [Windows -> Connections]
  /\ AsksTyped /\ WireTyped /\ HandlersTyped /\ Idle
  /\ InTheWindows /\ AboutAlerts

LEMMA DeskTypes == Desk => AlertsTypeOK
<1> SUFFICES ASSUME Desk PROVE AlertsTypeOK
  OBVIOUS
<1>1. \A w \in Windows : conn[w] = "down" => wire[w] = <<>> /\ asks[w] = <<>>
  BY DEF Desk, Idle
<1> QED BY <1>1 DEF Desk, Numbers, Connections, AboutAlerts, AlertsTypeOK

\* The event or the confirmation of an answer adds its alert to those overtaken.
LEMMA HeardOvertaken ==
  ASSUME Desk, NEW w \in Windows, NEW i \in DOMAIN wire[w], wire[w][i].alert \in Alerts,
         overtaken' = Overtaking(w, i)
  PROVE  /\ overtaken' \in [Windows -> SUBSET Alerts]
         /\ \A v \in Windows : overtaken[v] \subseteq overtaken'[v]
         /\ (\E j \in 1..(i - 1) : ShowsPending(wire[w][j], wire[w][i].alert)) =>
              wire[w][i].alert \in overtaken'[w]
<1>1. PICK n \in Alerts : n = wire[w][i].alert
  OBVIOUS
<1>2. overtaken \in [Windows -> SUBSET Alerts]
  BY DEF Desk, AboutAlerts
<1>3. CASE \E j \in 1..(i - 1) : ShowsPending(wire[w][j], n)
  <2>1. overtaken' = [overtaken EXCEPT ![w] = @ \cup {n}]
    BY <1>1, <1>3 DEF Overtaking
  <2> QED BY <1>1, <1>2, <2>1
<1>4. CASE ~\E j \in 1..(i - 1) : ShowsPending(wire[w][j], n)
  <2>1. overtaken' = overtaken
    BY <1>1, <1>4 DEF Overtaking
  <2> QED BY <1>1, <1>2, <1>4, <2>1
<1> QED BY <1>3, <1>4

\* Showing a reply leaves those that it shows as pending, or that a message will.
LEMMA ShownOvertaken ==
  ASSUME Desk, NEW w \in Windows, NEW m, Shows(w, m)
  PROVE  /\ overtaken' \in [Windows -> SUBSET Alerts]
         /\ \A v \in Windows \ {w} : overtaken'[v] = overtaken[v]
         /\ \A n \in overtaken[w] :
              \/ n \in overtaken'[w]
              \/ /\ n \notin open'[w] /\ tracker'[w][n] # "PENDING"
                 /\ \A j \in DOMAIN wire'[w] : ~ShowsPending(wire'[w][j], n)
         /\ \/ m.msg = "reply" /\ m.request \in {"snapshot", "alerts"}
            \/ UNCHANGED overtaken
<1> DEFINE kept == {n \in overtaken[w] :
                      \/ n \in open'[w] \/ tracker'[w][n] = "PENDING"
                      \/ \E j \in DOMAIN wire'[w] : ShowsPending(wire'[w][j], n)}
<1>1. overtaken \in [Windows -> SUBSET Alerts]
  BY DEF Desk, AboutAlerts
<1>2. \/ /\ m.msg = "reply" /\ m.request \in {"snapshot", "alerts"}
         /\ overtaken' = [overtaken EXCEPT ![w] = kept]
      \/ UNCHANGED overtaken
  BY DEF Shows
<1>3. /\ kept \subseteq overtaken[w]
      /\ \A n \in overtaken[w] :
           \/ n \in kept
           \/ /\ n \notin open'[w] /\ tracker'[w][n] # "PENDING"
              /\ \A j \in DOMAIN wire'[w] : ~ShowsPending(wire'[w][j], n)
  OBVIOUS
<1> HIDE DEF kept
<1> QED BY <1>1, <1>2, <1>3

LEMMA AsksOKs ==
  ASSUME NEW s, NEW p, AsksOK(s, p)
  PROVE  /\ \A u : AsksOK(u, p) => AsksOK(s \o u, p)
         /\ \A i \in DOMAIN s : \A t : Without(s, i, t) => AsksOK(t, p)
         /\ \A i \in DOMAIN s : \A a : IsAsk(a, p) => AsksOK([s EXCEPT ![i] = a], p)
<1>1. IsList(s) /\ \A i \in DOMAIN s : IsAsk(s[i], p)
  BY DEF AsksOK
<1>2. ASSUME NEW u, AsksOK(u, p) PROVE AsksOK(s \o u, p)
  <2>1. IsList(u) /\ \A i \in DOMAIN u : IsAsk(u[i], p)
    BY <1>2 DEF AsksOK
  <2>2. /\ Continues(s, s \o u)
        /\ \A j \in DOMAIN (s \o u) : j \notin DOMAIN s =>
             j - Len(s) \in DOMAIN u /\ (s \o u)[j] = u[j - Len(s)]
    BY <1>1, <2>1, Joined
  <2>3. IsList(s \o u) /\ \A j \in DOMAIN s : (s \o u)[j] = s[j]
    BY <2>2 DEF Continues
  <2>4. ASSUME NEW j \in DOMAIN (s \o u) PROVE IsAsk((s \o u)[j], p)
    BY <1>1, <2>1, <2>2, <2>3
  <2> QED BY <2>3, <2>4 DEF AsksOK
<1>3. ASSUME NEW i \in DOMAIN s, NEW t, Without(s, i, t) PROVE AsksOK(t, p)
  <2>1. IsList(t)
    BY <1>3 DEF Without
  <2>2. ASSUME NEW j \in DOMAIN t PROVE IsAsk(t[j], p)
    <3>1. i \in Nat /\ j \in Nat
      BY <1>1, <2>1, Listed
    <3>2. CASE j < i
      BY <1>1, <1>3, <3>2, Remaining
    <3>3. CASE j >= i
      BY <1>1, <1>3, <3>3, Remaining
    <3> QED BY <3>1, <3>2, <3>3
  <2> QED BY <2>1, <2>2 DEF AsksOK
<1>4. ASSUME NEW i \in DOMAIN s, NEW a, IsAsk(a, p) PROVE AsksOK([s EXCEPT ![i] = a], p)
  <2>1. /\ IsList([s EXCEPT ![i] = a]) /\ DOMAIN [s EXCEPT ![i] = a] = DOMAIN s
        /\ \A j \in DOMAIN s : [s EXCEPT ![i] = a][j] = IF j = i THEN a ELSE s[j]
    BY <1>1, Changed1
  <2> QED BY <1>1, <1>4, <2>1 DEF AsksOK
<1> QED BY <1>2, <1>3, <1>4

LEMMA WireOKs ==
  ASSUME NEW s, NEW p, WireOK(s, p)
  PROVE  /\ \A m : IsMessage(m, p) => WireOK(Append(s, m), p) /\ WireOK(s \o <<m>>, p)
         /\ \A i \in DOMAIN s : \A t : Without(s, i, t) => WireOK(t, p)
<1>1. IsList(s) /\ \A i \in DOMAIN s : IsMessage(s[i], p)
  BY DEF WireOK
<1>2. ASSUME NEW m, IsMessage(m, p) PROVE WireOK(Append(s, m), p) /\ WireOK(s \o <<m>>, p)
  <2>1. WireOK(s \o <<m>>, p)
    <3>1. IsList(<<m>>) /\ \A i \in DOMAIN <<m>> : <<m>>[i] = m
      BY Single
    <3>2. /\ Continues(s, s \o <<m>>)
          /\ \A j \in DOMAIN (s \o <<m>>) : j \notin DOMAIN s =>
               j - Len(s) \in DOMAIN <<m>> /\ (s \o <<m>>)[j] = <<m>>[j - Len(s)]
      BY <1>1, <3>1, Joined
    <3>3. IsList(s \o <<m>>) /\ \A j \in DOMAIN s : (s \o <<m>>)[j] = s[j]
      BY <3>2 DEF Continues
    <3>4. ASSUME NEW j \in DOMAIN (s \o <<m>>) PROVE IsMessage((s \o <<m>>)[j], p)
      BY <1>1, <1>2, <3>1, <3>2, <3>3
    <3> QED BY <3>3, <3>4 DEF WireOK
  <2>2. s \o <<m>> = Append(s, m)
    <3>1. PICK S : s \in Seq(S)
      BY <1>1 DEF IsList
    <3>2. s \in Seq(S \cup {m}) /\ m \in S \cup {m}
      BY <3>1, SeqMonotonic
    <3> QED BY <3>2, AppendIsConcat
  <2> QED BY <2>1, <2>2
<1>3. ASSUME NEW i \in DOMAIN s, NEW t, Without(s, i, t) PROVE WireOK(t, p)
  <2>1. IsList(t)
    BY <1>3 DEF Without
  <2>2. ASSUME NEW j \in DOMAIN t PROVE IsMessage(t[j], p)
    <3>1. i \in Nat /\ j \in Nat
      BY <1>1, <2>1, Listed
    <3>2. CASE j < i
      BY <1>1, <1>3, <3>2, Remaining
    <3>3. CASE j >= i
      BY <1>1, <1>3, <3>3, Remaining
    <3> QED BY <3>1, <3>2, <3>3
  <2> QED BY <2>1, <2>2 DEF WireOK
<1> QED BY <1>2, <1>3

LEMMA FreshReadsOK ==
  ASSUME NEW p, NEW R \in SUBSET (ReadRequests \cap Shown(p)), NEW u, FreshReads(u, R)
  PROVE  AsksOK(u, p) /\ \A i \in DOMAIN u : u[i].request \in ReadRequests /\ DOMAIN u[i].got = {}
<1>1. ASSUME NEW i \in DOMAIN u
      PROVE  IsRead(u[i], p) /\ u[i].request \in ReadRequests /\ DOMAIN u[i].got = {}
  <2>1. PICK r \in R : u[i] = Ask(r)
    BY DEF FreshReads
  <2>2. r \in ReadRequests \cap Shown(p)
    OBVIOUS
  <2>3. IsRead(Ask(r), p) /\ Ask(r).request = r /\ DOMAIN Ask(r).got = {}
    BY <2>2, FreshRead
  <2> QED BY <2>1, <2>2, <2>3
<1> QED BY <1>1 DEF FreshReads, AsksOK, IsAsk

-----------------------------------------------------------------------------
(* What a step leaves of the requests and messages that are about alerts.  *)

AboutAlert(a) == a.request \in {"notify", "respond"}

Matters(m) ==
  \/ m.msg \in {"alert", "sent", "ack", "answered"}
  \/ m.msg = "reply" /\ m.request \in {"snapshot", "alerts"}

\* Every request about an alert in t is one of s, and no two are the same one.
AsksKept(s, t) ==
  \E f : /\ \A j \in DOMAIN t : AboutAlert(t[j]) => f[j] \in DOMAIN s /\ s[f[j]] = t[j]
         /\ \A j, k \in DOMAIN t : AboutAlert(t[j]) /\ AboutAlert(t[k]) /\ f[j] = f[k] => j = k

\* The messages that matter are the same in the same order, or all are lost.
WireKept(s, t) ==
  \/ \A j \in DOMAIN t : ~Matters(t[j])
  \/ \E f : /\ \A j \in DOMAIN t : Matters(t[j]) => f[j] \in DOMAIN s /\ s[f[j]] = t[j]
            /\ \A j, k \in DOMAIN t : Matters(t[j]) /\ Matters(t[k]) => (j < k <=> f[j] < f[k])
            /\ \A i \in DOMAIN s : Matters(s[i]) => \E j \in DOMAIN t : f[j] = i /\ t[j] = s[i]

LEMMA AsksKeptBy ==
  ASSUME NEW s, IsList(s), NEW t
  PROVE  /\ AsksKept(s, s)
         /\ (\A j \in DOMAIN t : ~AboutAlert(t[j])) => AsksKept(s, t)
         /\ Continues(s, t) /\ (\A j \in DOMAIN t \ DOMAIN s : ~AboutAlert(t[j])) => AsksKept(s, t)
         /\ \A i \in DOMAIN s : Without(s, i, t) => AsksKept(s, t)
         /\ \A i \in DOMAIN s : \A a : ~AboutAlert(a) => AsksKept(s, [s EXCEPT ![i] = a])
<1>1. DOMAIN s = 1..Len(s) /\ Len(s) \in Nat
  BY Listed
<1>2. AsksKept(s, s)
  <2> DEFINE f == [j \in DOMAIN s |-> j]
  <2>1. \A j \in DOMAIN s : f[j] = j
    OBVIOUS
  <2> HIDE DEF f
  <2> QED BY <2>1 DEF AsksKept
<1>3. ASSUME \A j \in DOMAIN t : ~AboutAlert(t[j]) PROVE AsksKept(s, t)
  BY <1>3 DEF AsksKept
<1>4. ASSUME Continues(s, t), \A j \in DOMAIN t \ DOMAIN s : ~AboutAlert(t[j]) PROVE AsksKept(s, t)
  <2> DEFINE f == [j \in DOMAIN t |-> j]
  <2>1. \A j \in DOMAIN t : f[j] = j
    OBVIOUS
  <2>2. \A j \in DOMAIN s : j \in DOMAIN t /\ t[j] = s[j]
    BY <1>4 DEF Continues
  <2> HIDE DEF f
  <2> QED BY <1>4, <2>1, <2>2 DEF AsksKept
<1>5. ASSUME NEW i \in DOMAIN s, Without(s, i, t) PROVE AsksKept(s, t)
  <2> DEFINE f == [j \in DOMAIN t |-> IF j < i THEN j ELSE j + 1]
  <2>9. i \in Nat
    BY <1>1
  <2>7. \A j \in DOMAIN t : /\ j \in Nat
                            /\ j < i => j \in DOMAIN s /\ t[j] = s[j]
                            /\ j >= i => j + 1 \in DOMAIN s /\ t[j] = s[j + 1]
    BY <1>5, Remaining
  <2>8. \A j \in DOMAIN t : f[j] = IF j < i THEN j ELSE j + 1
    OBVIOUS
  <2> HIDE DEF f
  <2>1. \A j \in DOMAIN t : /\ j \in Nat
                            /\ j < i => f[j] = j /\ f[j] \in DOMAIN s /\ t[j] = s[j]
                            /\ ~(j < i) => f[j] = j + 1 /\ f[j] \in DOMAIN s /\ t[j] = s[j + 1]
    <3> TAKE j \in DOMAIN t
    <3>1. CASE j < i
      BY <2>7, <2>8, <2>9, <3>1
    <3>2. CASE j >= i
      BY <2>7, <2>8, <2>9, <3>2
    <3> QED BY <2>7, <2>9, <3>1, <3>2
  <2>2. \A j \in DOMAIN t : f[j] \in DOMAIN s /\ s[f[j]] = t[j]
    BY <2>1
  <2>3. \A j, k \in DOMAIN t : f[j] = f[k] => j = k
    BY <2>1, <2>7, <2>9
  <2> QED BY <2>2, <2>3 DEF AsksKept
<1>6. ASSUME NEW i \in DOMAIN s, NEW a, ~AboutAlert(a) PROVE AsksKept(s, [s EXCEPT ![i] = a])
  <2> DEFINE u == [s EXCEPT ![i] = a]
             f == [j \in DOMAIN s |-> j]
  <2>1. DOMAIN u = DOMAIN s /\ \A j \in DOMAIN s : u[j] = IF j = i THEN a ELSE s[j]
    OBVIOUS
  <2>2. \A j \in DOMAIN s : f[j] = j
    OBVIOUS
  <2> HIDE DEF f, u
  <2>3. AsksKept(s, u)
    BY <1>6, <2>1, <2>2 DEF AsksKept
  <2> QED BY <2>3 DEF u
<1> QED BY <1>2, <1>3, <1>4, <1>5, <1>6

LEMMA WireKeptBy ==
  ASSUME NEW s, IsList(s), NEW t
  PROVE  /\ WireKept(s, s)
         /\ (\A j \in DOMAIN t : ~Matters(t[j])) => WireKept(s, t)
         /\ Continues(s, t) /\ (\A j \in DOMAIN t \ DOMAIN s : ~Matters(t[j])) => WireKept(s, t)
         /\ \A i \in DOMAIN s : ~Matters(s[i]) /\ Without(s, i, t) => WireKept(s, t)
<1>1. DOMAIN s = 1..Len(s) /\ Len(s) \in Nat
  BY Listed
<1>2. WireKept(s, s)
  <2> DEFINE f == [j \in DOMAIN s |-> j]
  <2>1. \A j \in DOMAIN s : f[j] = j
    OBVIOUS
  <2> HIDE DEF f
  <2> QED BY <2>1 DEF WireKept
<1>3. ASSUME \A j \in DOMAIN t : ~Matters(t[j]) PROVE WireKept(s, t)
  BY <1>3 DEF WireKept
<1>4. ASSUME Continues(s, t), \A j \in DOMAIN t \ DOMAIN s : ~Matters(t[j]) PROVE WireKept(s, t)
  <2> DEFINE f == [j \in DOMAIN t |-> j]
  <2>1. \A j \in DOMAIN t : f[j] = j
    OBVIOUS
  <2>2. \A j \in DOMAIN s : j \in DOMAIN t /\ t[j] = s[j]
    BY <1>4 DEF Continues
  <2> HIDE DEF f
  <2>3. \A j \in DOMAIN t : Matters(t[j]) => j \in DOMAIN s
    BY <1>4
  <2> QED BY <2>1, <2>2, <2>3 DEF WireKept
<1>5. ASSUME NEW i \in DOMAIN s, ~Matters(s[i]), Without(s, i, t) PROVE WireKept(s, t)
  <2> DEFINE f == [j \in DOMAIN t |-> IF j < i THEN j ELSE j + 1]
  <2>9. i \in Nat
    BY <1>1
  <2>7. \A j \in DOMAIN t : /\ j \in Nat
                            /\ j < i => j \in DOMAIN s /\ t[j] = s[j]
                            /\ j >= i => j + 1 \in DOMAIN s /\ t[j] = s[j + 1]
    BY <1>5, Remaining
  <2>8. \A j \in DOMAIN t : f[j] = IF j < i THEN j ELSE j + 1
    OBVIOUS
  <2> HIDE DEF f
  <2>1. \A j \in DOMAIN t : /\ j \in Nat
                            /\ j < i => f[j] = j /\ f[j] \in DOMAIN s /\ t[j] = s[j]
                            /\ ~(j < i) => f[j] = j + 1 /\ f[j] \in DOMAIN s /\ t[j] = s[j + 1]
    <3> TAKE j \in DOMAIN t
    <3>1. CASE j < i
      BY <2>7, <2>8, <2>9, <3>1
    <3>2. CASE j >= i
      BY <2>7, <2>8, <2>9, <3>2
    <3> QED BY <2>7, <2>9, <3>1, <3>2
  <2>0. \A j \in DOMAIN s : /\ j < i => j \in DOMAIN t /\ t[j] = s[j]
                            /\ j > i => j - 1 \in DOMAIN t /\ t[j - 1] = s[j]
    BY <1>5, Remaining
  <2>2. \A j \in DOMAIN t : f[j] \in DOMAIN s /\ s[f[j]] = t[j]
    BY <2>1
  <2>3. \A j, k \in DOMAIN t : j < k <=> f[j] < f[k]
    BY <2>1, <2>7, <2>9
  <2>4. ASSUME NEW k \in DOMAIN s, Matters(s[k]) PROVE \E j \in DOMAIN t : f[j] = k /\ t[j] = s[k]
    <3>1. k # i /\ k \in Nat /\ i \in Nat
      BY <1>1, <1>5, <2>4
    <3>2. CASE k < i
      BY <2>0, <2>1, <3>2
    <3>3. CASE k > i
      <4>1. k - 1 \in DOMAIN t /\ t[k - 1] = s[k] /\ ~(k - 1 < i)
        BY <2>0, <3>1, <3>3
      <4>2. f[k - 1] = k
        BY <2>1, <3>1, <4>1
      <4> QED BY <4>1, <4>2
    <3> QED BY <3>1, <3>2, <3>3
  <2> QED BY <2>2, <2>3, <2>4 DEF WireKept
<1> QED BY <1>2, <1>3, <1>4, <1>5

KeepsAsks == \A v \in Windows : AsksKept(asks[v], asks'[v])
KeepsWire == \A v \in Windows : WireKept(wire[v], wire'[v])

\* A step that tells nothing new of alerts and loses nothing of them, but with a connection.
Quiet == UNCHANGED scene /\ KeepsAsks /\ KeepsWire

LEMMA Unpacked ==
  ASSUME Desk, NEW w \in Windows
  PROVE  /\ AsksOK(asks[w], Panel(w)) /\ IsList(asks[w]) /\ \A i \in DOMAIN asks[w] : IsAsk(asks[w][i], Panel(w))
         /\ WireOK(wire[w], Panel(w)) /\ IsList(wire[w]) /\ \A i \in DOMAIN wire[w] : IsMessage(wire[w][i], Panel(w))
         /\ conn[w] \in Connections
         /\ Panel(w) \in Panels \cup {Nobody}
         /\ DOMAIN asks[w] # {} => conn[w] = "up"
         /\ DOMAIN asks = Windows /\ DOMAIN wire = Windows
BY ScenePanels, EmptyList DEF Desk, AsksTyped, WireTyped, AsksOK, WireOK, Idle

LEMMA Unmoved ==
  ASSUME Desk, UNCHANGED scene
  PROVE  /\ scene' \in Scenes
         /\ UNCHANGED <<version, changes, faults>> => Numbers'
         /\ UNCHANGED conn => (conn \in [Windows -> Connections])'
         /\ UNCHANGED asks => AsksTyped' /\ KeepsAsks
         /\ UNCHANGED wire => WireTyped' /\ KeepsWire
         /\ UNCHANGED handlers => HandlersTyped'
         /\ UNCHANGED <<dirty, warned, view>> => InTheWindows'
         /\ UNCHANGED alertVars => AboutAlerts'
<1>1. UNCHANGED asks => AsksTyped' /\ KeepsAsks
  <2>1. \A v \in Windows : AsksKept(asks[v], asks[v])
    BY Unpacked, AsksKeptBy
  <2> QED BY <2>1 DEF Desk, AsksTyped, KeepsAsks, Panel
<1>2. UNCHANGED wire => WireTyped' /\ KeepsWire
  <2>1. \A v \in Windows : WireKept(wire[v], wire[v])
    BY Unpacked, WireKeptBy
  <2> QED BY <2>1 DEF Desk, WireTyped, KeepsWire, Panel
<1> QED BY <1>1, <1>2 DEF Desk, Numbers, HandlersTyped, InTheWindows, Panel, AboutAlerts, alertVars

\* A window sends requests.
LEMMA AsksPut ==
  ASSUME Desk, UNCHANGED scene, NEW w \in Windows, NEW u, AsksOK(u, Panel(w)), asks' = Put(asks, w, u)
  PROVE  /\ AsksTyped' /\ \A v \in Windows \ {w} : asks'[v] = asks[v]
         /\ asks'[w] = asks[w] \o u /\ Continues(asks[w], asks'[w])
         /\ \A j \in DOMAIN asks'[w] : j \notin DOMAIN asks[w] =>
              j - Len(asks[w]) \in DOMAIN u /\ asks'[w][j] = u[j - Len(asks[w])]
         /\ \A k \in DOMAIN u : \E j \in DOMAIN asks'[w] : asks'[w][j] = u[k]
         /\ (\A k \in DOMAIN u : ~AboutAlert(u[k])) => KeepsAsks
<1>1. asks' = [asks EXCEPT ![w] = asks[w] \o u]
  BY DEF Put
<1>2. /\ DOMAIN asks' = Windows /\ asks'[w] = asks[w] \o u
      /\ \A v \in Windows \ {w} : asks'[v] = asks[v]
  BY <1>1 DEF Desk, AsksTyped
<1>3. IsList(u)
  BY DEF AsksOK
<1>4. /\ Continues(asks[w], asks[w] \o u) /\ Len(asks[w] \o u) = Len(asks[w]) + Len(u)
      /\ \A j \in DOMAIN u : (asks[w] \o u)[Len(asks[w]) + j] = u[j]
      /\ \A j \in DOMAIN (asks[w] \o u) : j \notin DOMAIN asks[w] =>
           j - Len(asks[w]) \in DOMAIN u /\ (asks[w] \o u)[j] = u[j - Len(asks[w])]
  BY <1>3, Unpacked, Joined
<1>5. AsksOK(asks'[w], Panel(w))
  BY <1>2, Unpacked, AsksOKs
<1>6. AsksTyped'
  BY <1>2, <1>5, Unpacked DEF AsksTyped, Panel
<1>7. \A k \in DOMAIN u : Len(asks[w]) + k \in DOMAIN asks'[w]
  <2>1. /\ DOMAIN u = 1..Len(u) /\ Len(u) \in Nat /\ Len(asks[w]) \in Nat
        /\ DOMAIN asks'[w] = 1..Len(asks'[w])
    BY <1>2, <1>3, <1>4, Unpacked, Listed DEF Continues
  <2> QED BY <1>2, <1>4, <2>1
<1>8. ASSUME \A k \in DOMAIN u : ~AboutAlert(u[k]) PROVE KeepsAsks
  <2>1. \A j \in DOMAIN asks'[w] \ DOMAIN asks[w] : ~AboutAlert(asks'[w][j])
    BY <1>2, <1>4, <1>8
  <2>2. AsksKept(asks[w], asks'[w])
    <3>1. IsList(asks[w]) /\ Continues(asks[w], asks'[w])
      BY <1>2, <1>4, Unpacked
    <3> QED BY <2>1, <3>1, AsksKeptBy
  <2>3. \A v \in Windows : AsksKept(asks[v], asks[v])
    BY Unpacked, AsksKeptBy
  <2> QED BY <1>2, <2>2, <2>3 DEF KeepsAsks
<1> QED BY <1>2, <1>4, <1>6, <1>7, <1>8

\* The server has handled a request.
LEMMA AsksTaken ==
  ASSUME Desk, UNCHANGED scene, NEW w \in Windows, NEW i \in DOMAIN asks[w],
         asks' = [asks EXCEPT ![w] = RemoveAt(@, i)]
  PROVE  /\ AsksTyped' /\ KeepsAsks /\ \A v \in Windows \ {w} : asks'[v] = asks[v]
         /\ Without(asks[w], i, asks'[w])
<1>1. DOMAIN asks' = Windows /\ asks'[w] = RemoveAt(asks[w], i)
      /\ \A v \in Windows \ {w} : asks'[v] = asks[v]
  BY DEF Desk, AsksTyped
<1>2. Without(asks[w], i, asks'[w])
  BY <1>1, Unpacked, Removed
<1>3. AsksOK(asks'[w], Panel(w))
  BY <1>2, Unpacked, AsksOKs
<1>4. AsksTyped'
  BY <1>1, <1>3, Unpacked DEF AsksTyped, Panel
<1>5. AsksKept(asks[w], asks'[w]) /\ \A v \in Windows : AsksKept(asks[v], asks[v])
  BY <1>2, Unpacked, AsksKeptBy
<1> QED BY <1>1, <1>2, <1>4, <1>5 DEF KeepsAsks

\* Requests are lost, or a new workspace asks for everything.
LEMMA AsksSet ==
  ASSUME Desk, UNCHANGED scene, NEW w \in Windows, NEW u, AsksOK(u, Panel(w)),
         \A k \in DOMAIN u : ~AboutAlert(u[k]), asks' = [asks EXCEPT ![w] = u]
  PROVE  AsksTyped' /\ KeepsAsks /\ asks'[w] = u /\ \A v \in Windows \ {w} : asks'[v] = asks[v]
<1>1. DOMAIN asks' = Windows /\ asks'[w] = u /\ \A v \in Windows \ {w} : asks'[v] = asks[v]
  BY DEF Desk, AsksTyped
<1>2. AsksKept(asks[w], asks'[w]) /\ \A v \in Windows : AsksKept(asks[v], asks[v])
  BY <1>1, Unpacked, AsksKeptBy
<1> QED BY <1>1, <1>2, Unpacked DEF AsksTyped, KeepsAsks, Panel

\* Messages are sent, at most one to each window.
LEMMA WireSent ==
  ASSUME Desk, UNCHANGED scene, DOMAIN wire' = Windows,
         \A v \in Windows : \/ wire'[v] = wire[v]
                            \/ \E m : IsMessage(m, Panel(v)) /\ wire'[v] = Append(wire[v], m)
  PROVE  /\ WireTyped' /\ \A v \in Windows : Continues(wire[v], wire'[v])
         /\ (\A v \in Windows : \/ wire'[v] = wire[v]
                                \/ \E m : ~Matters(m) /\ wire'[v] = Append(wire[v], m)) => KeepsWire
<1>1. \A v \in Windows : WireOK(wire'[v], Panel(v))
  BY Unpacked, WireOKs
<1>2. \A v \in Windows : Continues(wire[v], wire'[v])
  <2> TAKE v \in Windows
  <2>1. IsList(wire[v])
    BY Unpacked
  <2>2. CASE wire'[v] = wire[v]
    BY <2>1, <2>2, Continued
  <2>3. CASE \E m : IsMessage(m, Panel(v)) /\ wire'[v] = Append(wire[v], m)
    BY <2>1, <2>3, Appended
  <2> QED BY <2>2, <2>3
<1>3. ASSUME \A v \in Windows : \/ wire'[v] = wire[v]
                                \/ \E m : ~Matters(m) /\ wire'[v] = Append(wire[v], m)
      PROVE  KeepsWire
  <2>1. ASSUME NEW v \in Windows, wire'[v] # wire[v] PROVE WireKept(wire[v], wire'[v])
    <3>1. PICK m : ~Matters(m) /\ wire'[v] = Append(wire[v], m)
      BY <1>3, <2>1
    <3>2. IsList(wire[v]) /\ Len(wire'[v]) = Len(wire[v]) + 1 /\ wire'[v][Len(wire[v]) + 1] = m
      BY <3>1, Unpacked, Appended
    <3>3. \A j \in DOMAIN wire'[v] \ DOMAIN wire[v] : j = Len(wire[v]) + 1
      <4>1. IsList(wire'[v])
        BY <1>2 DEF Continues
      <4>2. /\ DOMAIN wire[v] = 1..Len(wire[v]) /\ Len(wire[v]) \in Nat
            /\ DOMAIN wire'[v] = 1..Len(wire'[v])
        BY <3>2, <4>1, Listed
      <4> QED BY <3>2, <4>2
    <3>4. \A j \in DOMAIN wire'[v] \ DOMAIN wire[v] : ~Matters(wire'[v][j])
      BY <3>1, <3>2, <3>3
    <3> QED BY <1>2, <3>2, <3>4, WireKeptBy
  <2>2. \A v \in Windows : WireKept(wire[v], wire[v])
    BY Unpacked, WireKeptBy
  <2> QED BY <2>1, <2>2 DEF KeepsWire
<1> QED BY <1>1, <1>2, <1>3 DEF WireTyped, Panel

\* A reply is put on a connection.
LEMMA WirePut ==
  ASSUME Desk, UNCHANGED scene, NEW w \in Windows, NEW m, IsMessage(m, Panel(w)),
         wire' = Put(wire, w, <<m>>)
  PROVE  /\ WireTyped'
         /\ ~Matters(m) => KeepsWire
         /\ wire'[w] = Append(wire[w], m) /\ \A v \in Windows \ {w} : wire'[v] = wire[v]
<1>1. /\ DOMAIN wire' = Windows /\ wire'[w] = wire[w] \o <<m>>
      /\ \A v \in Windows \ {w} : wire'[v] = wire[v]
  BY Unpacked DEF Put
<1>2. wire[w] \o <<m>> = Append(wire[w], m)
  <2>1. PICK S : wire[w] \in Seq(S)
    BY Unpacked DEF IsList
  <2>2. wire[w] \in Seq(S \cup {m}) /\ m \in S \cup {m}
    BY <2>1, SeqMonotonic
  <2> QED BY <2>2, AppendIsConcat
<1>3. wire'[w] = Append(wire[w], m)
  BY <1>1, <1>2
<1>4. \A v \in Windows : \/ wire'[v] = wire[v]
                         \/ \E n : IsMessage(n, Panel(v)) /\ wire'[v] = Append(wire[v], n)
  BY <1>1, <1>3
<1>5. ~Matters(m) => \A v \in Windows : \/ wire'[v] = wire[v]
                                        \/ \E n : ~Matters(n) /\ wire'[v] = Append(wire[v], n)
  BY <1>1, <1>3
<1> HIDE <1>1
<1>6. WireTyped' /\ (~Matters(m) => KeepsWire)
  BY <1>1, <1>4, <1>5, WireSent
<1> QED BY <1>1, <1>3, <1>6

\* A window takes a message.
LEMMA WireTaken ==
  ASSUME Desk, UNCHANGED scene, NEW w \in Windows, NEW i \in DOMAIN wire[w],
         wire' = [wire EXCEPT ![w] = RemoveAt(@, i)]
  PROVE  /\ WireTyped' /\ \A v \in Windows \ {w} : wire'[v] = wire[v]
         /\ Without(wire[w], i, wire'[w])
         /\ ~Matters(wire[w][i]) => KeepsWire
<1>1. DOMAIN wire' = Windows /\ wire'[w] = RemoveAt(wire[w], i)
      /\ \A v \in Windows \ {w} : wire'[v] = wire[v]
  BY Unpacked
<1>2. Without(wire[w], i, wire'[w])
  BY <1>1, Unpacked, Removed
<1>3. WireOK(wire'[w], Panel(w))
  BY <1>2, Unpacked, WireOKs
<1>4. WireTyped'
  BY <1>1, <1>3, Unpacked DEF WireTyped, Panel
<1>5. ASSUME ~Matters(wire[w][i]) PROVE KeepsWire
  <2>1. WireKept(wire[w], wire'[w]) /\ \A v \in Windows : WireKept(wire[v], wire[v])
    BY <1>2, <1>5, Unpacked, WireKeptBy
  <2> QED BY <1>1, <2>1 DEF KeepsWire
<1> QED BY <1>1, <1>2, <1>4, <1>5

\* A connection is lost or made.
LEMMA WireSet ==
  ASSUME Desk, UNCHANGED scene, NEW w \in Windows, NEW u, WireOK(u, Panel(w)),
         \A k \in DOMAIN u : ~Matters(u[k]), wire' = [wire EXCEPT ![w] = u]
  PROVE  WireTyped' /\ KeepsWire /\ wire'[w] = u /\ \A v \in Windows \ {w} : wire'[v] = wire[v]
<1>1. DOMAIN wire' = Windows /\ wire'[w] = u /\ \A v \in Windows \ {w} : wire'[v] = wire[v]
  BY Unpacked
<1>2. WireKept(wire[w], wire'[w]) /\ \A v \in Windows : WireKept(wire[v], wire[v])
  BY <1>1, Unpacked, WireKeptBy
<1> QED BY <1>1, <1>2, Unpacked DEF WireTyped, KeepsWire, Panel

\* Connections stay as they are, and only open ones are used.
LEMMA StillIdle ==
  ASSUME Desk, UNCHANGED <<scene, conn>>,
         \A v \in Windows : conn[v] # "up" =>
           /\ asks'[v] = asks[v] /\ \A j \in DOMAIN wire'[v] : wire'[v][j].msg \in Early
           /\ conn[v] = "down" => wire'[v] = wire[v],
         \A i \in DOMAIN handlers' : \A j \in DOMAIN handlers'[i] :
           handlers'[i][j].window \in Windows => conn[handlers'[i][j].window] = "up"
  PROVE  Idle'
<1>1. \A w \in Windows : conn'[w] # "up" =>
        asks'[w] = <<>> /\ \A i \in DOMAIN wire'[w] : wire'[w][i].msg \in Early
  BY DEF Desk, Idle
<1>2. \A w \in Windows : conn'[w] = "down" => wire'[w] = <<>>
  BY DEF Desk, Idle
<1> QED BY <1>1, <1>2 DEF Idle

\* Nobody's messages become other messages.
LEMMA StillEarly ==
  ASSUME Desk, NEW v \in Windows, conn[v] # "up"
  PROVE  /\ \A j \in DOMAIN wire[v] : wire[v][j].msg \in Early
         /\ wire'[v] = wire[v] => \A j \in DOMAIN wire'[v] : wire'[v][j].msg \in Early
         /\ \A m : m.msg \in Early /\ wire'[v] = Append(wire[v], m) =>
              \A j \in DOMAIN wire'[v] : wire'[v][j].msg \in Early
         /\ \A i \in DOMAIN wire[v] : Without(wire[v], i, wire'[v]) =>
              \A j \in DOMAIN wire'[v] : wire'[v][j].msg \in Early
<1>1. \A j \in DOMAIN wire[v] : wire[v][j].msg \in Early
  BY DEF Desk, Idle
<1>2. ASSUME NEW m, m.msg \in Early, wire'[v] = Append(wire[v], m), NEW j \in DOMAIN wire'[v]
      PROVE  wire'[v][j].msg \in Early
  <2>1. /\ Continues(wire[v], wire'[v]) /\ Len(wire'[v]) = Len(wire[v]) + 1
        /\ wire'[v][Len(wire[v]) + 1] = m
    BY <1>2, Unpacked, Appended
  <2>2. /\ DOMAIN wire[v] = 1..Len(wire[v]) /\ Len(wire[v]) \in Nat
        /\ DOMAIN wire'[v] = 1..Len(wire'[v])
    BY <2>1, Unpacked, Listed DEF Continues
  <2>3. j \in DOMAIN wire[v] \/ j = Len(wire[v]) + 1
    BY <2>1, <2>2
  <2> QED BY <1>1, <1>2, <2>1, <2>3 DEF Continues
<1>3. ASSUME NEW i \in DOMAIN wire[v], Without(wire[v], i, wire'[v]), NEW j \in DOMAIN wire'[v]
      PROVE  wire'[v][j].msg \in Early
  <2>1. /\ i \in Nat /\ j \in Nat
        /\ j < i => j \in DOMAIN wire[v] /\ wire'[v][j] = wire[v][j]
        /\ j >= i => j + 1 \in DOMAIN wire[v] /\ wire'[v][j] = wire[v][j + 1]
    BY <1>3, Unpacked, Remaining, Listed
  <2> QED BY <1>1, <2>1
<1> QED BY <1>1, <1>2, <1>3

-----------------------------------------------------------------------------
(* Changes and their announcements. *)

Told == {"log", "first_log", "propose", "approve_proposal", "reject_proposal", "request_date",
         "approve_date", "reject_date", "discipline", "create_user", "update_user", "add_project",
         "change_project", "task", "settings"}

LEMMA Announcements ==
  ASSUME NEW k \in Kinds
  PROVE  /\ k \in Told
         /\ k = "log" => Announced(k) = <<Tell({"log"}, Oversight)>>
         /\ k = "first_log" => Announced(k) = <<Tell({"log"}, Oversight), Tell({"tasks"}, {"head"})>>
         /\ k = "propose" => Announced(k) = <<Tell({"proposals"}, Managers)>>
         /\ k = "approve_proposal" =>
              Announced(k) = <<Tell({"tasks"}, Panels), Tell({"proposals"}, Managers \cup {"head"})>>
         /\ k = "reject_proposal" => Announced(k) = <<Tell({"proposals"}, Managers \cup {"head"})>>
         /\ k = "request_date" => Announced(k) = <<Tell({"date_changes"}, Managers)>>
         /\ k = "approve_date" =>
              Announced(k) = <<Tell({"tasks"}, Panels), Tell({"date_changes"}, Managers \cup {"head"})>>
         /\ k = "reject_date" => Announced(k) = <<Tell({"date_changes"}, Managers \cup {"head"})>>
         /\ k = "discipline" => Announced(k) = <<Tell({"disciplines", "tasks"}, Panels)>>
         /\ k = "create_user" => Announced(k) = <<Tell({"users"}, Oversight)>>
         /\ k = "update_user" => Announced(k) = <<Tell({"users", "tasks"}, Panels)>>
         /\ k = "add_project" => Announced(k) = <<Tell({"projects"}, Panels)>>
         /\ k = "change_project" => Announced(k) = <<Tell({"projects", "tasks"}, Panels)>>
         /\ k = "task" => Announced(k) = <<Tell({"tasks"}, Panels)>>
         /\ k = "settings" => Announced(k) = <<Tell({"settings"}, {"super"})>>
<1>1. /\ DOMAIN LogAnnounced = {"log", "first_log"}
      /\ LogAnnounced["log"] = <<Tell({"log"}, Oversight)>>
      /\ LogAnnounced["first_log"] = <<Tell({"log"}, Oversight), Tell({"tasks"}, {"head"})>>
  BY DEF LogAnnounced
<1>2. /\ DOMAIN RequestsAnnounced = {"propose", "approve_proposal", "reject_proposal",
                                     "request_date", "approve_date", "reject_date"}
      /\ RequestsAnnounced["propose"] = <<Tell({"proposals"}, Managers)>>
      /\ RequestsAnnounced["approve_proposal"] =
           <<Tell({"tasks"}, Panels), Tell({"proposals"}, Managers \cup {"head"})>>
      /\ RequestsAnnounced["reject_proposal"] = <<Tell({"proposals"}, Managers \cup {"head"})>>
      /\ RequestsAnnounced["request_date"] = <<Tell({"date_changes"}, Managers)>>
      /\ RequestsAnnounced["approve_date"] =
           <<Tell({"tasks"}, Panels), Tell({"date_changes"}, Managers \cup {"head"})>>
      /\ RequestsAnnounced["reject_date"] = <<Tell({"date_changes"}, Managers \cup {"head"})>>
  BY DEF RequestsAnnounced
<1>3. /\ DOMAIN AccountsAnnounced = {"discipline", "create_user", "update_user"}
      /\ AccountsAnnounced["discipline"] = <<Tell({"disciplines", "tasks"}, Panels)>>
      /\ AccountsAnnounced["create_user"] = <<Tell({"users"}, Oversight)>>
      /\ AccountsAnnounced["update_user"] = <<Tell({"users", "tasks"}, Panels)>>
  BY DEF AccountsAnnounced
<1>4. /\ DOMAIN ProjectsAnnounced = {"add_project", "change_project", "task"}
      /\ ProjectsAnnounced["add_project"] = <<Tell({"projects"}, Panels)>>
      /\ ProjectsAnnounced["change_project"] = <<Tell({"projects", "tasks"}, Panels)>>
      /\ ProjectsAnnounced["task"] = <<Tell({"tasks"}, Panels)>>
  BY DEF ProjectsAnnounced
<1>5. DOMAIN SettingsAnnounced = {"settings"} /\ SettingsAnnounced["settings"] = <<Tell({"settings"}, {"super"})>>
  BY DEF SettingsAnnounced
<1>6. k \in Told
  BY <1>1, <1>2, <1>3, <1>4, <1>5 DEF Kinds, Told
<1>9. CASE k \in {"log", "first_log"}
  <2>1. /\ k \in DOMAIN LogAnnounced /\ k \notin DOMAIN RequestsAnnounced /\ k \notin DOMAIN AccountsAnnounced
        /\ k \notin DOMAIN ProjectsAnnounced /\ k \notin DOMAIN SettingsAnnounced
    BY <1>1, <1>2, <1>3, <1>4, <1>5, <1>9
  <2>2. Announced(k) = LogAnnounced[k]
    BY <2>1 DEF Announced
  <2> QED BY <1>1, <1>6, <1>9, <2>2
<1>10. CASE k \in {"propose", "approve_proposal", "reject_proposal", "request_date", "approve_date", "reject_date"}
  <2>1. /\ k \notin DOMAIN LogAnnounced /\ k \in DOMAIN RequestsAnnounced /\ k \notin DOMAIN AccountsAnnounced
        /\ k \notin DOMAIN ProjectsAnnounced /\ k \notin DOMAIN SettingsAnnounced
    BY <1>1, <1>2, <1>3, <1>4, <1>5, <1>10
  <2>2. Announced(k) = RequestsAnnounced[k]
    BY <2>1 DEF Announced
  <2> QED BY <1>2, <1>6, <1>10, <2>2
<1>11. CASE k \in {"discipline", "create_user", "update_user"}
  <2>1. /\ k \notin DOMAIN LogAnnounced /\ k \notin DOMAIN RequestsAnnounced /\ k \in DOMAIN AccountsAnnounced
        /\ k \notin DOMAIN ProjectsAnnounced /\ k \notin DOMAIN SettingsAnnounced
    BY <1>1, <1>2, <1>3, <1>4, <1>5, <1>11
  <2>2. Announced(k) = AccountsAnnounced[k]
    BY <2>1 DEF Announced
  <2> QED BY <1>3, <1>6, <1>11, <2>2
<1>12. CASE k \in {"add_project", "change_project", "task"}
  <2>1. /\ k \notin DOMAIN LogAnnounced /\ k \notin DOMAIN RequestsAnnounced /\ k \notin DOMAIN AccountsAnnounced
        /\ k \in DOMAIN ProjectsAnnounced /\ k \notin DOMAIN SettingsAnnounced
    BY <1>1, <1>2, <1>3, <1>4, <1>5, <1>12
  <2>2. Announced(k) = ProjectsAnnounced[k]
    BY <2>1 DEF Announced
  <2> QED BY <1>4, <1>6, <1>12, <2>2
<1>13. CASE k = "settings"
  <2>1. /\ k \notin DOMAIN LogAnnounced /\ k \notin DOMAIN RequestsAnnounced /\ k \notin DOMAIN AccountsAnnounced
        /\ k \notin DOMAIN ProjectsAnnounced /\ k \in DOMAIN SettingsAnnounced
    BY <1>1, <1>2, <1>3, <1>4, <1>5, <1>13
  <2>2. Announced(k) = SettingsAnnounced[k]
    BY <2>1 DEF Announced
  <2> QED BY <1>5, <1>6, <1>13, <2>2
<1> QED BY <1>6, <1>9, <1>10, <1>11, <1>12, <1>13 DEF Told

\* What a handler says goes to panels.
LEMMA AnnouncedOK ==
  ASSUME NEW k \in Kinds
  PROVE  /\ IsList(Announced(k))
         /\ \A j \in DOMAIN Announced(k) : \E scopes, panels : Announced(k)[j] = Tell(scopes, panels)
<1>1. \A s, x : s = <<x>> => IsList(s) /\ \A j \in DOMAIN s : s[j] = x
  BY Single
<1>7. ASSUME NEW s, NEW x, NEW y, s = <<x, y>>
      PROVE  IsList(s) /\ \A j \in DOMAIN s : s[j] = x \/ s[j] = y
  <2>1. s \in Seq({x, y}) /\ DOMAIN s = 1..2 /\ s[1] = x /\ s[2] = y
    BY <1>7
  <2> QED BY <2>1 DEF IsList
<1>2. \E a, b, c, d : Announced(k) = <<Tell(a, b)>> \/ Announced(k) = <<Tell(a, b), Tell(c, d)>>
  BY Announcements DEF Told
<1>3. PICK a, b, c, d : Announced(k) = <<Tell(a, b)>> \/ Announced(k) = <<Tell(a, b), Tell(c, d)>>
  BY <1>2
<1>4. CASE Announced(k) = <<Tell(a, b)>>
  <2>1. IsList(Announced(k)) /\ \A j \in DOMAIN Announced(k) : Announced(k)[j] = Tell(a, b)
    BY <1>1, <1>4
  <2>2. ASSUME NEW j \in DOMAIN Announced(k)
        PROVE  \E scopes, panels : Announced(k)[j] = Tell(scopes, panels)
    <3>1. Announced(k)[j] = Tell(a, b)
      BY <2>1
    <3> QED BY <3>1, Zenon
  <2> QED BY <2>1, <2>2
<1>5. CASE Announced(k) = <<Tell(a, b), Tell(c, d)>>
  <2>1. IsList(Announced(k)) /\ \A j \in DOMAIN Announced(k) :
            (Announced(k)[j] = Tell(a, b) \/ Announced(k)[j] = Tell(c, d))
    BY <1>5, <1>7
  <2>2. ASSUME NEW j \in DOMAIN Announced(k)
        PROVE  \E scopes, panels : Announced(k)[j] = Tell(scopes, panels)
    <3>1. Announced(k)[j] = Tell(a, b) \/ Announced(k)[j] = Tell(c, d)
      BY <2>1
    <3> QED BY <3>1, Zenon
  <2> QED BY <2>1, <2>2
<1> QED BY <1>3, <1>4, <1>5

LEMMA TellIs ==
  ASSUME NEW scopes, NEW panels
  PROVE  /\ Tell(scopes, panels).message = Changed(scopes) /\ Tell(scopes, panels).window = Nobody
         /\ Tell(scopes, panels).panels = panels
         /\ Changed(scopes).msg = "changed" /\ Changed(scopes).scopes = scopes
         /\ IsItem(Tell(scopes, panels))
BY DEF Tell, Changed, IsItem

\* A change is made, by whoever waits for the reply.
LEMMA Committed ==
  ASSUME Desk, NEW k \in Kinds, NEW reply, ItemsOK(reply), Commit(k, reply), UNCHANGED <<scene, faults>>
  PROVE  /\ Numbers' /\ HandlersTyped'
         /\ \A i \in DOMAIN handlers' : \A j \in DOMAIN handlers'[i] :
              handlers'[i][j].window \in Windows =>
                \/ i \in DOMAIN handlers /\ j \in DOMAIN handlers[i] /\ handlers'[i][j] = handlers[i][j]
                \/ \E h \in DOMAIN reply : handlers'[i][j] = reply[h]
<1>1. Numbers'
  <2>1. /\ version \in [Tables -> 0..scene.most] /\ \A t \in Tables : version[t] <= changes
        /\ changes \in 0..scene.most /\ faults \in 0..scene.faults /\ scene.most \in Nat
    BY ScenePanels DEF Desk, Numbers
  <2>2. /\ changes' = changes + 1 /\ changes < scene.most
        /\ version' = [t \in Tables |-> version[t] + (IF t \in Writes(k) THEN 1 ELSE 0)]
    BY DEF Commit
  <2>3. \A t \in Tables : version'[t] \in 0..scene.most /\ version'[t] <= changes'
    <3> TAKE t \in Tables
    <3>1. version[t] \in 0..scene.most /\ version[t] <= changes
      BY <2>1
    <3>2. version'[t] = version[t] + 1 \/ version'[t] = version[t]
      <4>1. version'[t] = version[t] + (IF t \in Writes(k) THEN 1 ELSE 0)
        BY <2>2
      <4>2. CASE t \in Writes(k)
        BY <4>1, <4>2
      <4>3. CASE t \notin Writes(k)
        BY <3>1, <4>1, <4>3
      <4> QED BY <4>2, <4>3
    <3> QED BY <2>1, <2>2, <3>1, <3>2
  <2>4. version' \in [Tables -> 0..scene.most]
    BY <2>2, <2>3
  <2> QED BY <2>1, <2>2, <2>3, <2>4 DEF Numbers
<1> DEFINE new == Announced(k) \o reply
<1>2. /\ IsList(new) /\ \A j \in DOMAIN new : IsItem(new[j])
      /\ \A j \in DOMAIN new : new[j].window \in Windows => \E h \in DOMAIN reply : new[j] = reply[h]
  <2>1. IsList(reply) /\ \A j \in DOMAIN reply : IsItem(reply[j])
    BY DEF ItemsOK
  <2>2. IsList(Announced(k))
    BY AnnouncedOK
  <2>3. /\ Continues(Announced(k), new)
        /\ \A j \in DOMAIN new : j \notin DOMAIN Announced(k) =>
             j - Len(Announced(k)) \in DOMAIN reply /\ new[j] = reply[j - Len(Announced(k))]
    BY <2>1, <2>2, Joined
  <2>4. IsList(new) /\ \A j \in DOMAIN Announced(k) : new[j] = Announced(k)[j]
    BY <2>3 DEF Continues
  <2>5. \A j \in DOMAIN Announced(k) : IsItem(Announced(k)[j]) /\ Announced(k)[j].window = Nobody
    BY AnnouncedOK, TellIs
  <2> HIDE DEF new
  <2> QED BY <2>1, <2>3, <2>4, <2>5, DeskConstants
<1> HIDE DEF new
<1>3. /\ Continues(handlers, handlers') /\ Len(handlers') = Len(handlers) + 1
      /\ handlers'[Len(handlers) + 1] = new
  <2>1. handlers' = Append(handlers, new) /\ IsList(handlers)
    BY DEF Commit, new, Desk, HandlersTyped
  <2> QED BY <2>1, Appended
<1>4. \A i \in DOMAIN handlers' : (i \in DOMAIN handlers /\ handlers'[i] = handlers[i]) \/ handlers'[i] = new
  <2>1. IsList(handlers) /\ IsList(handlers')
    BY <1>3 DEF Desk, HandlersTyped, Continues
  <2>2. /\ DOMAIN handlers = 1..Len(handlers) /\ Len(handlers) \in Nat
        /\ DOMAIN handlers' = 1..Len(handlers')
    BY <2>1, Listed
  <2>3. \A i \in DOMAIN handlers' : i \in DOMAIN handlers \/ i = Len(handlers) + 1
    BY <1>3, <2>2
  <2> QED BY <1>3, <2>3 DEF Continues
<1>5. HandlersTyped'
  <2>1. ItemsOK(new)
    BY <1>2 DEF ItemsOK
  <2>2. IsList(handlers') /\ \A i \in DOMAIN handlers : ItemsOK(handlers[i])
    BY <1>3 DEF Desk, HandlersTyped, Continues
  <2> QED BY <1>4, <2>1, <2>2 DEF HandlersTyped
<1> QED BY <1>1, <1>2, <1>4, <1>5

LEMMA ChangeStep ==
  ASSUME Desk, NEW k \in Kinds, Change(k), UNCHANGED alertVars
  PROVE  Desk' /\ Quiet
<1>1. Commit(k, <<>>) /\ UNCHANGED <<scene, conn, asks, wire, dirty, view, warned, faults>>
  BY DEF Change
<1>2. ItemsOK(<<>>) /\ DOMAIN <<>> = {}
  BY EmptyList DEF ItemsOK
<1>3. /\ Numbers' /\ HandlersTyped'
      /\ \A i \in DOMAIN handlers' : \A j \in DOMAIN handlers'[i] :
           handlers'[i][j].window \in Windows =>
             i \in DOMAIN handlers /\ j \in DOMAIN handlers[i] /\ handlers'[i][j] = handlers[i][j]
  BY <1>1, <1>2, Committed
<1>4. Idle'
  BY <1>1, <1>3, StillIdle DEF Desk, Idle
<1> QED BY <1>1, <1>3, <1>4, Unmoved DEF Desk, Quiet

-----------------------------------------------------------------------------
(* One lemma for each action. *)

\* What a message that is announced, or said to have been stored, is to alerts: nothing.
LEMMA ItemsDoNotMatter ==
  ASSUME NEW item, IsItem(item), NEW p
  PROVE  /\ IsMessage(item.message, p) /\ ~Matters(item.message)
         /\ item.message.msg \notin Early => item.panels = {}
BY DEF IsItem, IsMessage, Matters, Early

LEMMA AnnounceStep ==
  ASSUME Desk, NEW i \in DOMAIN handlers, Announce(i), UNCHANGED alertVars
  PROVE  Desk' /\ Quiet
<1>1. /\ handlers[i] # <<>> /\ wire' = Send(Head(handlers[i]))
      /\ handlers' = [handlers EXCEPT ![i] = Tail(@)]
      /\ UNCHANGED <<scene, version, changes, conn, asks, dirty, view, warned, faults>>
  BY DEF Announce
<1>2. IsList(handlers) /\ \A k \in DOMAIN handlers : ItemsOK(handlers[k])
  BY DEF Desk, HandlersTyped
<1>3. /\ IsList(handlers[i]) /\ \A j \in DOMAIN handlers[i] : IsItem(handlers[i][j])
      /\ 1 \in DOMAIN handlers[i] /\ Head(handlers[i]) = handlers[i][1] /\ IsList(Tail(handlers[i]))
      /\ \A j \in DOMAIN Tail(handlers[i]) :
           j + 1 \in DOMAIN handlers[i] /\ Tail(handlers[i])[j] = handlers[i][j + 1]
  BY <1>1, <1>2, Rest DEF ItemsOK
<1>4. PICK item : /\ item = handlers[i][1] /\ IsItem(item) /\ wire' = Send(item)
                  /\ item.window \in Windows => conn[item.window] = "up"
  BY <1>1, <1>3 DEF Desk, Idle
<1>5. /\ DOMAIN wire' = Windows
      /\ \A v \in Windows : \/ wire'[v] = wire[v]
                            \/ /\ Reaches(item, v) /\ conn[v] # "down"
                               /\ wire'[v] = Append(wire[v], item.message)
  BY <1>4 DEF Send
<1>6. \A p : IsMessage(item.message, p) /\ ~Matters(item.message)
  BY <1>4, ItemsDoNotMatter
<1>7. WireTyped' /\ KeepsWire
  <2>1. \A v \in Windows : \/ wire'[v] = wire[v]
                           \/ \E m : IsMessage(m, Panel(v)) /\ wire'[v] = Append(wire[v], m)
    BY <1>5, <1>6
  <2>2. \A v \in Windows : \/ wire'[v] = wire[v]
                           \/ \E m : ~Matters(m) /\ wire'[v] = Append(wire[v], m)
    BY <1>5, <1>6
  <2> QED BY <1>1, <1>5, <2>1, <2>2, WireSent
<1>8. /\ IsList(handlers') /\ DOMAIN handlers' = DOMAIN handlers /\ handlers'[i] = Tail(handlers[i])
      /\ \A k \in DOMAIN handlers : k # i => handlers'[k] = handlers[k]
  <2>1. handlers' = [handlers EXCEPT ![i] = Tail(handlers[i])]
    BY <1>1
  <2> QED BY <1>2, <2>1, Changed1
<1>9. HandlersTyped'
  <2>1. ItemsOK(Tail(handlers[i]))
    BY <1>3 DEF ItemsOK
  <2> QED BY <1>2, <1>8, <2>1 DEF HandlersTyped
<1>10. \A k \in DOMAIN handlers' : \A j \in DOMAIN handlers'[k] :
         handlers'[k][j].window \in Windows => conn[handlers'[k][j].window] = "up"
  BY <1>3, <1>8 DEF Desk, Idle
<1>11. \A v \in Windows : conn[v] # "up" =>
         /\ \A j \in DOMAIN wire'[v] : wire'[v][j].msg \in Early
         /\ conn[v] = "down" => wire'[v] = wire[v]
  <2> SUFFICES ASSUME NEW v \in Windows, conn[v] # "up"
               PROVE  /\ \A j \in DOMAIN wire'[v] : wire'[v][j].msg \in Early
                      /\ conn[v] = "down" => wire'[v] = wire[v]
    OBVIOUS
  <2>1. CASE wire'[v] = wire[v]
    BY <2>1, StillEarly
  <2>2. CASE Reaches(item, v) /\ conn[v] # "down" /\ wire'[v] = Append(wire[v], item.message)
    <3>1. item.message.msg \in Early
      BY <1>4, <2>2, ItemsDoNotMatter DEF Reaches
    <3> QED BY <2>2, <3>1, StillEarly
  <2> QED BY <1>5, <2>1, <2>2
<1>12. Idle'
  BY <1>1, <1>10, <1>11, StillIdle
<1> QED BY <1>1, <1>7, <1>9, <1>12, Unmoved DEF Desk, Quiet

\* The request that the server handles, and what replaces it.
LEMMA Reading ==
  ASSUME Desk, NEW w \in Windows, NEW i \in Handled(w), asks[w][i].left # <<>>
  PROVE  /\ i \in DOMAIN asks[w] /\ i = 1 /\ conn[w] = "up" /\ IsRead(asks[w][i], Panel(w))
         /\ asks[w][i].request \in ReadRequests \cap Shown(Panel(w)) /\ ~AboutAlert(asks[w][i])
<1>1. i \in DOMAIN asks[w] /\ i = 1 /\ conn[w] = "up" /\ IsAsk(asks[w][i], Panel(w))
  BY Unpacked DEF Handled
<1>2. IsRead(asks[w][i], Panel(w))
  BY <1>1 DEF IsAsk
<1> QED BY <1>1, <1>2 DEF IsRead, ReadRequests, AboutAlert

LEMMA TheData ==
  ASSUME Desk
  PROVE  Data["alerts"] = alert /\ alert \in Rows /\ \A t \in Tables : Data[t] = version[t] /\ Data[t] \in Nat
<1>1. alert \in Rows /\ \A t \in Tables : version[t] \in Nat
  BY ScenePanels DEF Desk, AboutAlerts, Rows, Numbers
<1> QED BY <1>1 DEF Data, Tables

\* A database call: the request goes on, or its reply with the alerts as they are now is sent.
LEMMA ReadStep ==
  ASSUME Desk, NEW w \in Windows, Read(w, Data), UNCHANGED alertVars
  PROVE  /\ Desk' /\ UNCHANGED scene /\ KeepsAsks
         /\ \A v \in Windows \ {w} : asks'[v] = asks[v] /\ wire'[v] = wire[v]
         /\ \E i, got :
           /\ i \in Handled(w)
           /\ LET a == asks[w][i]
              IN /\ a.left # <<>>
                 /\ got = Filled(a.got, Head(a.left), Data)
                 /\ \/ /\ Len(a.left) > 1 /\ UNCHANGED wire
                       /\ asks'[w] = [asks[w] EXCEPT ![i] = Asking(a.request, Tail(a.left), got)]
                    \/ /\ ~(Len(a.left) > 1) /\ Without(asks[w], i, asks'[w])
                       /\ wire'[w] = Append(wire[w], [msg |-> "reply", request |-> a.request, data |-> got])
                       /\ a.request \in {"snapshot", "alerts"} => got["alerts"] = alert
                       /\ a.request \notin {"snapshot", "alerts"} => KeepsWire
<1>1. PICK i \in Handled(w) :
        LET a   == asks[w][i]
            got == Filled(a.got, Head(a.left), Data)
        IN /\ a.left # <<>>
           /\ IF Len(a.left) > 1
              THEN /\ asks' = [asks EXCEPT ![w][i] = Asking(a.request, Tail(a.left), got)]
                   /\ UNCHANGED wire
              ELSE /\ asks' = [asks EXCEPT ![w] = RemoveAt(@, i)]
                   /\ wire' = Put(wire, w, <<[msg |-> "reply", request |-> a.request, data |-> got]>>)
  BY DEF Read
<1>2. UNCHANGED <<scene, version, changes, handlers, conn, dirty, view, warned, faults>>
  BY DEF Read
<1> DEFINE a == asks[w][i]
           got == Filled(a.got, Head(a.left), Data)
           reply == [msg |-> "reply", request |-> a.request, data |-> got]
           b == Asking(a.request, Tail(a.left), got)
<1>3. /\ i \in DOMAIN asks[w] /\ i = 1 /\ conn[w] = "up" /\ IsRead(a, Panel(w)) /\ a.left # <<>>
      /\ a.request \in ReadRequests \cap Shown(Panel(w)) /\ ~AboutAlert(a)
  BY <1>1, Reading
<1>4. /\ "alerts" \notin DOMAIN a.got
      /\ \A t \in DOMAIN got : got[t] = IF t \in DOMAIN a.got THEN a.got[t] ELSE Data[t]
      /\ \A t \in Tables \cap DOMAIN got : got[t] \in Nat
      /\ Len(a.left) > 1 => IsRead(b, Panel(w))
      /\ ~(Len(a.left) > 1) =>
           /\ Live(a.request) \subseteq DOMAIN got
           /\ a.request \in {"snapshot", "alerts"} => "alerts" \in DOMAIN got
  <2>1. Panel(w) \in Panels \cup {Nobody} /\ IsRead(a, Panel(w)) /\ \A t \in Tables : Data[t] \in Nat
    BY <1>3, TheData, Unpacked
  <2> HIDE DEF a
  <2>2. ReadOf(a, Panel(w), Data, Filled(a.got, Head(a.left), Data))
    BY <2>1, ReadGoesOn
  <2> HIDE DEF got
  <2>3. ReadOf(a, Panel(w), Data, got)
    BY <2>2 DEF got
  <2> QED BY <2>3 DEF ReadOf
<1>5. b.request = a.request /\ reply.msg = "reply" /\ reply.request = a.request /\ reply.data = got
  BY DEF Asking
<1>6. DOMAIN asks = Windows /\ IsList(asks[w]) /\ AsksOK(asks[w], Panel(w))
  BY Unpacked
<1>7. \A v \in Windows : conn[v] # "up" =>
        \A j \in DOMAIN wire[v] : wire[v][j].msg \in Early
  BY StillEarly
<1>8. \A k \in DOMAIN handlers' : \A j \in DOMAIN handlers'[k] :
        handlers'[k][j].window \in Windows => conn[handlers'[k][j].window] = "up"
  BY <1>2 DEF Desk, Idle
<1>9. CASE Len(a.left) > 1
  <2>1. UNCHANGED wire /\ asks' = [asks EXCEPT ![w][i] = b]
    BY <1>1, <1>9
  <2> HIDE DEF b
  <2>2. /\ DOMAIN asks' = Windows /\ asks'[w] = [asks[w] EXCEPT ![i] = b]
        /\ \A v \in Windows \ {w} : asks'[v] = asks[v]
    BY <1>6, <2>1
  <2>3. IsAsk(b, Panel(w)) /\ ~AboutAlert(b)
    BY <1>3, <1>4, <1>5, <1>9 DEF IsAsk, AboutAlert
  <2>4. AsksOK(asks'[w], Panel(w)) /\ AsksKept(asks[w], asks'[w])
    <3> DEFINE s == asks[w]
               u == [s EXCEPT ![i] = b]
    <3>1. s = asks[w] /\ asks'[w] = u /\ i \in DOMAIN s
      BY <1>3, <2>2
    <3> HIDE DEF s
    <3>2. IsList(s) /\ AsksOK(s, Panel(w))
      BY <1>6, <3>1
    <3>3. AsksOK(u, Panel(w))
      BY <2>3, <3>1, <3>2, AsksOKs, Zenon
    <3>4. AsksKept(s, u)
      BY <2>3, <3>1, <3>2, AsksKeptBy, Zenon
    <3> HIDE DEF u
    <3> QED BY <3>1, <3>3, <3>4
  <2>5. AsksTyped' /\ KeepsAsks
    <3>1. \A v \in Windows : AsksKept(asks[v], asks[v]) /\ AsksOK(asks[v], Panel(v))
      BY Unpacked, AsksKeptBy
    <3>2. \A v \in Windows : AsksKept(asks[v], asks'[v]) /\ AsksOK(asks'[v], Panel(v))
      BY <2>2, <2>4, <3>1
    <3> QED BY <1>2, <2>2, <3>2 DEF AsksTyped, KeepsAsks, Panel
  <2>6. Idle'
    BY <1>2, <1>3, <1>7, <1>8, <2>1, <2>2, StillIdle
  <2>7. Desk' /\ UNCHANGED scene /\ KeepsAsks
    BY <1>2, <2>1, <2>5, <2>6, Unmoved DEF Desk
  <2> QED BY <1>1, <1>9, <2>1, <2>2, <2>7 DEF b
<1>10. CASE ~(Len(a.left) > 1)
  <2>1. /\ asks' = [asks EXCEPT ![w] = RemoveAt(@, i)]
        /\ wire' = Put(wire, w, <<reply>>)
    BY <1>1, <1>10
  <2>2. /\ Live(a.request) \subseteq DOMAIN got
        /\ a.request \in {"snapshot", "alerts"} => "alerts" \in DOMAIN got
    BY <1>4, <1>10
  <2> HIDE DEF reply, got
  <2>3. a.request \in {"snapshot", "alerts"} => got["alerts"] = alert
    BY <1>4, <2>2, TheData
  <2>4. IsMessage(reply, Panel(w))
    <3>1. \A t \in Live(a.request) : got[t] \in Nat
      BY <1>3, <1>4, <2>2, WhatIsRead
    <3> QED BY <1>3, <1>5, <2>3, <3>1, TheData DEF IsMessage, IsReply
  <2>5. a.request \notin {"snapshot", "alerts"} => ~Matters(reply)
    BY <1>5 DEF Matters
  <2>6. /\ WireTyped' /\ (~Matters(reply) => KeepsWire)
        /\ wire'[w] = Append(wire[w], reply) /\ \A v \in Windows \ {w} : wire'[v] = wire[v]
    BY <1>2, <2>1, <2>4, WirePut
  <2>7. /\ AsksTyped' /\ KeepsAsks /\ \A v \in Windows \ {w} : asks'[v] = asks[v]
        /\ Without(asks[w], i, asks'[w])
    BY <1>2, <1>3, <2>1, AsksTaken
  <2>8. Idle'
    BY <1>2, <1>3, <1>7, <1>8, <2>6, <2>7, StillIdle
  <2>9. Desk' /\ UNCHANGED scene
    BY <1>2, <2>6, <2>7, <2>8, Unmoved DEF Desk
  <2>10. a.request \notin {"snapshot", "alerts"} => KeepsWire
    BY <2>5, <2>6
  <2> QED BY <1>1, <1>10, <2>3, <2>6, <2>7, <2>9, <2>10 DEF reply, got
<1> QED BY <1>9, <1>10

LEMMA OneMoreFault ==
  ASSUME Desk, faults < scene.faults, faults' = faults + 1, UNCHANGED <<scene, version, changes>>
  PROVE  Numbers'
<1>1. faults \in 0..scene.faults /\ scene.faults \in Nat
  BY ScenePanels DEF Desk, Numbers
<1>2. faults' \in 0..scene.faults
  BY <1>1
<1> QED BY <1>2 DEF Desk, Numbers

LEMMA FailStep ==
  ASSUME Desk, NEW w \in Windows, Fail(w), UNCHANGED alertVars
  PROVE  /\ Desk' /\ Quiet
         /\ \A v \in Windows \ {w} : asks'[v] = asks[v] /\ wire'[v] = wire[v]
         /\ \E i \in Handled(w) :
              /\ asks[w][i].left # <<>> /\ Without(asks[w], i, asks'[w])
              /\ wire'[w] = Append(wire[w], [msg |-> "failed", request |-> asks[w][i].request])
<1>1. PICK i \in Handled(w) :
        /\ asks[w][i].left # <<>>
        /\ asks' = [asks EXCEPT ![w] = RemoveAt(@, i)]
        /\ wire' = Put(wire, w, <<[msg |-> "failed", request |-> asks[w][i].request]>>)
  BY DEF Fail
<1>2. /\ UNCHANGED <<scene, version, changes, handlers, conn, dirty, view, warned>>
      /\ faults < scene.faults /\ faults' = faults + 1
  BY DEF Fail
<1> DEFINE m == [msg |-> "failed", request |-> asks[w][i].request]
<1>3. i \in DOMAIN asks[w] /\ conn[w] = "up"
  BY <1>1, Reading
<1>4. m.msg = "failed"
  OBVIOUS
<1> HIDE DEF m
<1>5. IsMessage(m, Panel(w)) /\ ~Matters(m)
  BY <1>4 DEF IsMessage, Matters
<1>6. /\ WireTyped' /\ KeepsWire
      /\ wire'[w] = Append(wire[w], m) /\ \A v \in Windows \ {w} : wire'[v] = wire[v]
  BY <1>1, <1>2, <1>5, WirePut DEF m
<1>7. /\ AsksTyped' /\ KeepsAsks /\ \A v \in Windows \ {w} : asks'[v] = asks[v]
      /\ Without(asks[w], i, asks'[w])
  BY <1>1, <1>2, <1>3, AsksTaken
<1>8. Idle'
  <2>1. \A v \in Windows : conn[v] # "up" => \A j \in DOMAIN wire[v] : wire[v][j].msg \in Early
    BY StillEarly
  <2>2. \A k \in DOMAIN handlers' : \A j \in DOMAIN handlers'[k] :
          handlers'[k][j].window \in Windows => conn[handlers'[k][j].window] = "up"
    BY <1>2 DEF Desk, Idle
  <2> QED BY <1>2, <1>3, <1>6, <1>7, <2>1, <2>2, StillIdle
<1>9. Numbers'
  BY <1>2, OneMoreFault
<1>10. Desk' /\ Quiet
  BY <1>2, <1>6, <1>7, <1>8, <1>9, Unmoved DEF Desk, Quiet
<1> QED BY <1>1, <1>6, <1>7, <1>10 DEF m

LEMMA StoreStep ==
  ASSUME Desk, NEW w \in Windows, Store(w), UNCHANGED alertVars
  PROVE  Desk' /\ Quiet
<1>1. PICK i \in Handled(w) :
        /\ asks[w][i].request \in HeadsOwn
        /\ Commit(asks[w][i].request, <<Reply(w, [msg |-> "synced"])>>)
        /\ asks' = [asks EXCEPT ![w] = RemoveAt(@, i)]
  BY DEF Store
<1>2. UNCHANGED <<scene, conn, wire, dirty, view, warned, faults>>
  BY DEF Store
<1>3. i \in DOMAIN asks[w] /\ conn[w] = "up"
  BY Unpacked DEF Handled
<1> DEFINE k == asks[w][i].request
           item == Reply(w, [msg |-> "synced"])
<1>4. k \in Kinds
  BY <1>1 DEF HeadsOwn, Kinds, RequestsAnnounced
<1>5. ItemsOK(<<item>>) /\ \A h \in DOMAIN <<item>> : <<item>>[h].window = w
  <2>1. IsItem(item) /\ item.window = w
    BY DEF Reply, IsItem
  <2> HIDE DEF item
  <2> QED BY <2>1, Single DEF ItemsOK
<1>6. /\ Numbers' /\ HandlersTyped'
      /\ \A j \in DOMAIN handlers' : \A h \in DOMAIN handlers'[j] :
           handlers'[j][h].window \in Windows =>
             \/ j \in DOMAIN handlers /\ h \in DOMAIN handlers[j] /\ handlers'[j][h] = handlers[j][h]
             \/ handlers'[j][h].window = w
  <2> HIDE DEF item, k
  <2>1. Commit(k, <<item>>)
    BY <1>1 DEF item, k
  <2>2. /\ Numbers' /\ HandlersTyped'
        /\ \A j \in DOMAIN handlers' : \A h \in DOMAIN handlers'[j] :
             handlers'[j][h].window \in Windows =>
               \/ j \in DOMAIN handlers /\ h \in DOMAIN handlers[j] /\ handlers'[j][h] = handlers[j][h]
               \/ \E g \in DOMAIN <<item>> : handlers'[j][h] = <<item>>[g]
    BY <1>2, <1>4, <1>5, <2>1, Committed
  <2> QED BY <1>5, <2>2
<1>7. /\ AsksTyped' /\ KeepsAsks /\ \A v \in Windows \ {w} : asks'[v] = asks[v]
  BY <1>1, <1>2, <1>3, AsksTaken
<1>8. Idle'
  <2>1. \A v \in Windows : conn[v] # "up" => \A j \in DOMAIN wire[v] : wire[v][j].msg \in Early
    BY StillEarly
  <2>2. \A j \in DOMAIN handlers' : \A h \in DOMAIN handlers'[j] :
          handlers'[j][h].window \in Windows => conn[handlers'[j][h].window] = "up"
    BY <1>3, <1>6 DEF Desk, Idle
  <2> QED BY <1>2, <1>3, <1>7, <2>1, <2>2, StillIdle
<1> QED BY <1>2, <1>6, <1>7, <1>8, Unmoved DEF Desk, Quiet

\* A window that is connected and open sends requests.
LEMMA Sends ==
  ASSUME Desk, NEW w \in Windows, conn[w] = "up", NEW u, AsksOK(u, Panel(w)), asks' = Put(asks, w, u),
         UNCHANGED <<scene, version, changes, handlers, conn, wire, view, warned, faults>>,
         DOMAIN dirty' = Windows, AboutAlerts'
  PROVE  Desk' /\ KeepsWire /\ ((\A k \in DOMAIN u : ~AboutAlert(u[k])) => KeepsAsks)
<1>1. /\ AsksTyped' /\ \A v \in Windows \ {w} : asks'[v] = asks[v]
      /\ (\A k \in DOMAIN u : ~AboutAlert(u[k])) => KeepsAsks
  BY AsksPut
<1>2. Idle'
  <2>1. \A v \in Windows : conn[v] # "up" => \A j \in DOMAIN wire[v] : wire[v][j].msg \in Early
    BY StillEarly
  <2>2. \A j \in DOMAIN handlers' : \A h \in DOMAIN handlers'[j] :
          handlers'[j][h].window \in Windows => conn[handlers'[j][h].window] = "up"
    BY DEF Desk, Idle
  <2> QED BY <1>1, <2>1, <2>2, StillIdle
<1>3. InTheWindows'
  BY DEF Desk, InTheWindows, Panel
<1> QED BY <1>1, <1>2, <1>3, Unmoved DEF Desk

\* What windows ask for are reads.
LEMMA NothingAboutAlerts ==
  ASSUME Desk, NEW w \in Windows, NEW u,
         FreshReads(u, Range(Asked[Panel(w)])) \/ \E r : FreshReads(u, Range(Then(Panel(w), r)))
  PROVE  AsksOK(u, Panel(w)) /\ \A i \in DOMAIN u : u[i].request \in ReadRequests /\ ~AboutAlert(u[i])
<1>1. Panel(w) \in Panels \cup {Nobody}
  BY Unpacked
<1>2. PICK R \in SUBSET (ReadRequests \cap Shown(Panel(w))) : FreshReads(u, R)
  <2>1. Range(Asked[Panel(w)]) \subseteq ReadRequests \cap Shown(Panel(w))
    BY <1>1, PanelsAsk
  <2>2. \A r : Range(Then(Panel(w), r)) \subseteq Shown(Panel(w)) \cap ReadRequests
    BY <1>1, PanelsShow
  <2> QED BY <2>1, <2>2
<1>3. AsksOK(u, Panel(w)) /\ \A i \in DOMAIN u : u[i].request \in ReadRequests
  BY <1>2, FreshReadsOK
<1> QED BY <1>3 DEF ReadRequests, AboutAlert

LEMMA FireStep ==
  ASSUME Desk, NEW w \in Windows, Fire(w), UNCHANGED alertVars
  PROVE  /\ Desk' /\ Quiet
         /\ \A v \in Windows : Continues(asks[v], asks'[v])
<1>1. /\ dirty' = [dirty EXCEPT ![w] = {}]
      /\ asks' = IF conn[w] = "up" THEN Put(asks, w, Wanted(w, dirty[w])) ELSE asks
      /\ UNCHANGED <<scene, version, changes, handlers, conn, wire, view, warned, faults>>
  BY DEF Fire
<1>2. DOMAIN dirty' = Windows /\ scene \in Scenes /\ AboutAlerts'
  BY <1>1, Unmoved DEF Desk, InTheWindows
<1>3. \A v \in Windows : Continues(asks[v], asks[v])
  BY Unpacked, Continued
<1>4. CASE conn[w] = "up"
  <2> DEFINE u == Wanted(w, dirty[w])
  <2>1. FreshReads(u, Range(Asked[Panel(w)]))
    BY <1>2, WantedAsked
  <2> HIDE DEF u
  <2>2. asks' = Put(asks, w, u)
    BY <1>1, <1>4 DEF u
  <2>3. AsksOK(u, Panel(w)) /\ \A k \in DOMAIN u : ~AboutAlert(u[k])
    BY <2>1, NothingAboutAlerts
  <2>4. Desk' /\ Quiet
    BY <1>1, <1>2, <1>4, <2>2, <2>3, Sends DEF Quiet
  <2>5. Continues(asks[w], asks'[w]) /\ \A v \in Windows \ {w} : asks'[v] = asks[v]
    BY <1>1, <2>2, <2>3, AsksPut
  <2> QED BY <1>3, <2>4, <2>5
<1>5. CASE conn[w] # "up"
  <2>1. UNCHANGED asks
    BY <1>1, <1>5
  <2>2. Idle'
    BY <1>1, <2>1 DEF Desk, Idle
  <2>3. InTheWindows'
    BY <1>1, <1>2 DEF Desk, InTheWindows, Panel
  <2>4. Desk' /\ Quiet
    BY <1>1, <2>1, <2>2, <2>3, Unmoved DEF Desk, Quiet
  <2> QED BY <1>3, <2>1, <2>4
<1> QED BY <1>4, <1>5

LEMMA SubmitStep ==
  ASSUME Desk, NEW w \in Windows, NEW k \in Kinds, Submit(w, k), UNCHANGED alertVars
  PROVE  /\ Desk' /\ Quiet
         /\ \A v \in Windows : Continues(asks[v], asks'[v])
<1>1. /\ k \in HeadsOwn /\ Panel(w) = "head" /\ conn[w] = "up" /\ asks' = Put(asks, w, <<Asking(k, <<>>, <<>>)>>)
      /\ UNCHANGED <<scene, version, changes, handlers, conn, wire, dirty, view, warned, faults>>
  BY DEF Submit
<1> DEFINE a == Asking(k, <<>>, <<>>)
<1>2. IsAsk(a, Panel(w)) /\ ~AboutAlert(a)
  BY <1>1 DEF Asking, IsAsk, AboutAlert, HeadsOwn
<1> HIDE DEF a
<1>3. AsksOK(<<a>>, Panel(w)) /\ \A j \in DOMAIN <<a>> : ~AboutAlert(<<a>>[j])
  BY <1>2, Single DEF AsksOK
<1>4. DOMAIN dirty' = Windows /\ AboutAlerts'
  BY <1>1, Unmoved DEF Desk, InTheWindows
<1>5. asks' = Put(asks, w, <<a>>)
  BY <1>1 DEF a
<1>6. Desk' /\ Quiet
  BY <1>1, <1>3, <1>4, <1>5, Sends DEF Quiet
<1>7. Continues(asks[w], asks'[w]) /\ \A v \in Windows \ {w} : asks'[v] = asks[v]
  BY <1>1, <1>3, <1>5, AsksPut
<1>8. \A v \in Windows : Continues(asks[v], asks[v])
  BY Unpacked, Continued
<1> QED BY <1>6, <1>7, <1>8

LEMMA OpenStep ==
  ASSUME Desk, NEW w \in Windows, OpenWorkspace(w), UNCHANGED alertVars
  PROVE  /\ Desk' /\ Quiet
         /\ asks'[w] = All(w) /\ \A v \in Windows \ {w} : asks'[v] = asks[v]
<1>1. /\ conn' = [conn EXCEPT ![w] = "up"] /\ asks' = [asks EXCEPT ![w] = All(w)]
      /\ UNCHANGED <<scene, version, changes, handlers, wire, dirty, view, warned, faults>>
  BY DEF OpenWorkspace
<1>2. scene \in Scenes /\ conn \in [Windows -> Connections]
  BY DEF Desk
<1> DEFINE u == All(w)
<1>3. FreshReads(u, Range(Asked[Panel(w)]))
  BY <1>2, AllAsked
<1> HIDE DEF u
<1>4. AsksOK(u, Panel(w)) /\ \A k \in DOMAIN u : ~AboutAlert(u[k])
  BY <1>3, NothingAboutAlerts
<1>5. asks' = [asks EXCEPT ![w] = u]
  BY <1>1 DEF u
<1>6. AsksTyped' /\ KeepsAsks /\ asks'[w] = u /\ \A v \in Windows \ {w} : asks'[v] = asks[v]
  BY <1>1, <1>4, <1>5, AsksSet
<1>7. /\ conn' \in [Windows -> Connections] /\ conn'[w] = "up"
      /\ \A v \in Windows \ {w} : conn'[v] = conn[v]
  BY <1>1, <1>2 DEF Connections
<1>8. Idle'
  BY <1>1, <1>6, <1>7 DEF Desk, Idle
<1> QED BY <1>1, <1>6, <1>7, <1>8, Unmoved DEF Desk, Quiet, u

\* The handlers forget the connection of w.
LEMMA WithoutWindow ==
  ASSUME Desk, NEW w \in Windows, handlers' = Orphaned(w)
  PROVE  /\ HandlersTyped'
         /\ \A i \in DOMAIN handlers' : \A j \in DOMAIN handlers'[i] :
              handlers'[i][j].window \in Windows =>
                /\ i \in DOMAIN handlers /\ j \in DOMAIN handlers[i]
                /\ handlers'[i][j] = handlers[i][j] /\ handlers[i][j].window # w
<1>1. /\ IsList(handlers) /\ DOMAIN handlers = 1..Len(handlers) /\ Len(handlers) \in Nat
      /\ \A i \in DOMAIN handlers : ItemsOK(handlers[i])
  BY Listed DEF Desk, HandlersTyped
<1>2. /\ DOMAIN handlers' = 1..Len(handlers) /\ handlers' = [i \in 1..Len(handlers) |-> handlers'[i]]
      /\ \A i \in DOMAIN handlers :
           handlers'[i] = [j \in DOMAIN handlers[i] |->
             IF handlers[i][j].window = w THEN Reply(Nobody, handlers[i][j].message) ELSE handlers[i][j]]
  BY <1>1 DEF Orphaned
<1>3. ASSUME NEW i \in DOMAIN handlers
      PROVE  /\ ItemsOK(handlers'[i])
             /\ \A j \in DOMAIN handlers'[i] : handlers'[i][j].window \in Windows =>
                  /\ j \in DOMAIN handlers[i]
                  /\ handlers'[i][j] = handlers[i][j] /\ handlers[i][j].window # w
  <2> DEFINE s == handlers[i]
             t == handlers'[i]
  <2>1. /\ IsList(s) /\ DOMAIN s = 1..Len(s) /\ Len(s) \in Nat
        /\ \A j \in DOMAIN s : IsItem(s[j])
    BY <1>1, Listed DEF ItemsOK
  <2>2. t = [j \in 1..Len(s) |->
               IF s[j].window = w THEN Reply(Nobody, s[j].message) ELSE s[j]]
    BY <1>2, <2>1
  <2> HIDE DEF s, t
  <2>3. /\ DOMAIN t = DOMAIN s /\ t = [j \in 1..Len(s) |-> t[j]]
        /\ \A j \in DOMAIN s : /\ s[j].window = w => t[j] = Reply(Nobody, s[j].message)
                               /\ s[j].window # w => t[j] = s[j]
    BY <2>1, <2>2
  <2>4. IsList(t)
    BY <2>1, <2>3, OfList
  <2>5. \A j \in DOMAIN s : s[j].window = w => IsItem(t[j]) /\ t[j].window = Nobody
    BY <2>1, <2>3 DEF IsItem, Reply
  <2>6. ItemsOK(t)
    BY <2>1, <2>3, <2>4, <2>5 DEF ItemsOK
  <2>7. \A j \in DOMAIN t : t[j].window \in Windows => j \in DOMAIN s /\ t[j] = s[j] /\ s[j].window # w
    BY <2>3, <2>5, DeskConstants
  <2> QED BY <2>6, <2>7 DEF s, t
<1>4. IsList(handlers')
  BY <1>1, <1>2, OfList
<1> QED BY <1>1, <1>2, <1>3, <1>4 DEF HandlersTyped

LEMMA DropStep ==
  ASSUME Desk, NEW w \in Windows, Drop(w), UNCHANGED alertVars
  PROVE  Desk' /\ Quiet
<1>1. /\ faults < scene.faults /\ faults' = faults + 1
      /\ conn' = [conn EXCEPT ![w] = "down"]
      /\ asks' = [asks EXCEPT ![w] = <<>>]
      /\ wire' = [wire EXCEPT ![w] = <<>>]
      /\ handlers' = Orphaned(w)
      /\ UNCHANGED <<scene, version, changes, dirty, view, warned>>
  BY DEF Drop
<1>2. AsksOK(<<>>, Panel(w)) /\ WireOK(<<>>, Panel(w)) /\ DOMAIN <<>> = {}
  BY EmptyList DEF AsksOK, WireOK
<1>3. AsksTyped' /\ KeepsAsks /\ asks'[w] = <<>> /\ \A v \in Windows \ {w} : asks'[v] = asks[v]
  BY <1>1, <1>2, AsksSet
<1>4. WireTyped' /\ KeepsWire /\ wire'[w] = <<>> /\ \A v \in Windows \ {w} : wire'[v] = wire[v]
  BY <1>1, <1>2, WireSet
<1>5. /\ conn' \in [Windows -> Connections] /\ conn'[w] = "down"
      /\ \A v \in Windows \ {w} : conn'[v] = conn[v]
  BY <1>1 DEF Desk, Connections
<1>6. /\ HandlersTyped'
      /\ \A i \in DOMAIN handlers' : \A j \in DOMAIN handlers'[i] :
           handlers'[i][j].window \in Windows =>
             /\ i \in DOMAIN handlers /\ j \in DOMAIN handlers[i]
             /\ handlers'[i][j] = handlers[i][j] /\ handlers[i][j].window # w
  BY <1>1, WithoutWindow
<1>7. Idle'
  <2>1. \A v \in Windows : conn'[v] # "up" =>
          asks'[v] = <<>> /\ \A i \in DOMAIN wire'[v] : wire'[v][i].msg \in Early
    BY <1>2, <1>3, <1>4, <1>5 DEF Desk, Idle
  <2>2. \A v \in Windows : conn'[v] = "down" => wire'[v] = <<>>
    BY <1>4, <1>5 DEF Desk, Idle
  <2>3. \A i \in DOMAIN handlers' : \A j \in DOMAIN handlers'[i] :
          handlers'[i][j].window \in Windows => conn'[handlers'[i][j].window] = "up"
    BY <1>5, <1>6 DEF Desk, Idle
  <2> QED BY <2>1, <2>2, <2>3 DEF Idle
<1>8. Numbers'
  BY <1>1, OneMoreFault
<1> QED BY <1>1, <1>3, <1>4, <1>5, <1>6, <1>7, <1>8, Unmoved DEF Desk, Quiet

LEMMA ResumeStep ==
  ASSUME Desk, NEW w \in Windows, Resume(w), UNCHANGED alertVars
  PROVE  /\ Desk' /\ Quiet
<1>1. /\ conn[w] = "down" /\ conn' = [conn EXCEPT ![w] = "resuming"]
      /\ wire' = [wire EXCEPT ![w] = <<[msg |-> "resumed"]>>]
      /\ UNCHANGED <<scene, version, changes, handlers, asks, dirty, view, warned, faults>>
  BY DEF Resume
<1> DEFINE m == [msg |-> "resumed"]
<1>2. m.msg = "resumed"
  OBVIOUS
<1> HIDE DEF m
<1>3. WireOK(<<m>>, Panel(w)) /\ \A k \in DOMAIN <<m>> : ~Matters(<<m>>[k]) /\ <<m>>[k].msg \in Early
  <2>1. IsMessage(m, Panel(w)) /\ ~Matters(m) /\ m.msg \in Early
    BY <1>2 DEF IsMessage, Matters, Early
  <2> QED BY <2>1, Single DEF WireOK
<1>4. WireTyped' /\ KeepsWire /\ wire'[w] = <<m>> /\ \A v \in Windows \ {w} : wire'[v] = wire[v]
  <2>1. wire' = [wire EXCEPT ![w] = <<m>>]
    BY <1>1 DEF m
  <2> QED BY <1>1, <1>3, <2>1, WireSet
<1>5. /\ conn' \in [Windows -> Connections] /\ conn'[w] = "resuming"
      /\ \A v \in Windows \ {w} : conn'[v] = conn[v]
  BY <1>1 DEF Desk, Connections
<1>6. Idle'
  <2>1. \A v \in Windows : conn'[v] # "up" =>
          asks'[v] = <<>> /\ \A i \in DOMAIN wire'[v] : wire'[v][i].msg \in Early
    BY <1>1, <1>3, <1>4, <1>5 DEF Desk, Idle
  <2>2. \A v \in Windows : conn'[v] = "down" => wire'[v] = <<>>
    BY <1>4, <1>5 DEF Desk, Idle
  <2>3. \A i \in DOMAIN handlers' : \A j \in DOMAIN handlers'[i] :
          handlers'[i][j].window \in Windows => conn'[handlers'[i][j].window] = "up"
    BY <1>1, <1>5 DEF Desk, Idle
  <2> QED BY <2>1, <2>2, <2>3 DEF Idle
<1> QED BY <1>1, <1>4, <1>5, <1>6, Unmoved DEF Desk, Quiet

LEMMA ReopenedStep ==
  ASSUME Desk, NEW w \in Windows, Reopened(w)
  PROVE  Desk' /\ Quiet /\ conn'[w] = "opening" /\ \A v \in Windows \ {w} : conn'[v] = conn[v]
<1>1. /\ faults < scene.faults /\ faults' = faults + 1
      /\ conn' = [conn EXCEPT ![w] = "opening"]
      /\ asks' = [asks EXCEPT ![w] = <<>>]
      /\ wire' = [wire EXCEPT ![w] = <<>>]
      /\ dirty' = [dirty EXCEPT ![w] = {}]
      /\ view' = [view EXCEPT ![w] = Blank(Panel(w))]
      /\ warned' = [warned EXCEPT ![w] = {}]
      /\ handlers' = Orphaned(w)
      /\ UNCHANGED <<scene, version, changes>>
  BY DEF Reopened, Restart
<1>2. AsksOK(<<>>, Panel(w)) /\ WireOK(<<>>, Panel(w)) /\ DOMAIN <<>> = {}
  BY EmptyList DEF AsksOK, WireOK
<1>3. AsksTyped' /\ KeepsAsks /\ asks'[w] = <<>> /\ \A v \in Windows \ {w} : asks'[v] = asks[v]
  BY <1>1, <1>2, AsksSet
<1>4. WireTyped' /\ KeepsWire /\ wire'[w] = <<>> /\ \A v \in Windows \ {w} : wire'[v] = wire[v]
  BY <1>1, <1>2, WireSet
<1>5. /\ conn' \in [Windows -> Connections] /\ conn'[w] = "opening"
      /\ \A v \in Windows \ {w} : conn'[v] = conn[v]
  BY <1>1 DEF Desk, Connections
<1>6. /\ HandlersTyped'
      /\ \A i \in DOMAIN handlers' : \A j \in DOMAIN handlers'[i] :
           handlers'[i][j].window \in Windows =>
             /\ i \in DOMAIN handlers /\ j \in DOMAIN handlers[i]
             /\ handlers'[i][j] = handlers[i][j] /\ handlers[i][j].window # w
  BY <1>1, WithoutWindow
<1>7. Idle'
  <2>1. \A v \in Windows : conn'[v] # "up" =>
          asks'[v] = <<>> /\ \A i \in DOMAIN wire'[v] : wire'[v][i].msg \in Early
    BY <1>2, <1>3, <1>4, <1>5 DEF Desk, Idle
  <2>2. \A v \in Windows : conn'[v] = "down" => wire'[v] = <<>>
    BY <1>4, <1>5 DEF Desk, Idle
  <2>3. \A i \in DOMAIN handlers' : \A j \in DOMAIN handlers'[i] :
          handlers'[i][j].window \in Windows => conn'[handlers'[i][j].window] = "up"
    BY <1>5, <1>6 DEF Desk, Idle
  <2> QED BY <2>1, <2>2, <2>3 DEF Idle
<1>8. Numbers'
  BY <1>1, OneMoreFault
<1>9. InTheWindows'
  <2>1. DOMAIN view' = Windows /\ view'[w] = Blank(Panel(w)) /\ \A v \in Windows \ {w} : view'[v] = view[v]
    BY <1>1 DEF Desk, InTheWindows
  <2>2. DOMAIN Blank(Panel(w)) = Shown(Panel(w))
    BY DEF Blank
  <2>3. \A v \in Windows : DOMAIN view'[v] = Shown(Panel(v))
    BY <2>1, <2>2 DEF Desk, InTheWindows
  <2>4. DOMAIN dirty' = Windows /\ DOMAIN warned' = Windows
    BY <1>1 DEF Desk, InTheWindows
  <2> QED BY <1>1, <2>1, <2>3, <2>4 DEF InTheWindows, Panel
<1>10. AboutAlerts'
  <2>1. /\ open' = [open EXCEPT ![w] = {}]
        /\ tracker' = [tracker EXCEPT ![w] = [n \in Alerts |-> None]]
        /\ overtaken' = [overtaken EXCEPT ![w] = {}]
        /\ UNCHANGED <<alert, box, said>>
    BY DEF Reopened
  <2> QED BY <2>1 DEF Desk, AboutAlerts
<1> QED BY <1>1, <1>3, <1>4, <1>5, <1>6, <1>7, <1>8, <1>9, <1>10, Unmoved DEF Desk, Quiet

\* What a window asks for when it takes a message: nothing, or reads, if it is open.
LEMMA WhatItAsks ==
  ASSUME Desk, UNCHANGED scene, NEW w \in Windows,
         \/ UNCHANGED asks
         \/ \E u : /\ asks' = Put(asks, w, u)
                   /\ \/ FreshReads(u, Range(Asked[Panel(w)]))
                      \/ \E r : FreshReads(u, Range(Then(Panel(w), r)))
  PROVE  /\ AsksTyped' /\ KeepsAsks /\ \A v \in Windows : Continues(asks[v], asks'[v])
         /\ \A v \in Windows \ {w} : asks'[v] = asks[v]
<1>1. \A v \in Windows : Continues(asks[v], asks[v])
  BY Unpacked, Continued
<1>2. CASE UNCHANGED asks
  BY <1>1, <1>2, Unmoved
<1>3. ASSUME NEW u, asks' = Put(asks, w, u),
             \/ FreshReads(u, Range(Asked[Panel(w)]))
             \/ \E r : FreshReads(u, Range(Then(Panel(w), r)))
      PROVE  /\ AsksTyped' /\ KeepsAsks /\ \A v \in Windows : Continues(asks[v], asks'[v])
             /\ \A v \in Windows \ {w} : asks'[v] = asks[v]
  <2>1. AsksOK(u, Panel(w)) /\ \A k \in DOMAIN u : ~AboutAlert(u[k])
    BY <1>3, NothingAboutAlerts
  <2>2. AsksTyped' /\ KeepsAsks /\ Continues(asks[w], asks'[w]) /\ \A v \in Windows \ {w} : asks'[v] = asks[v]
    BY <1>3, <2>1, AsksPut
  <2> QED BY <1>1, <2>2
<1> QED BY <1>2, <1>3

\* The messages of Take, and what each makes its window do.
LEMMA Taking ==
  ASSUME Desk, NEW w \in Windows, NEW i \in DOMAIN wire[w], Take(w, i)
  PROVE  /\ i \in Taken(w) /\ wire' = [wire EXCEPT ![w] = RemoveAt(@, i)]
         /\ UNCHANGED <<scene, version, changes, handlers, faults>>
         /\ wire[w][i].msg \in {"changed", "reply", "failed", "synced", "resumed"}
         /\ wire[w][i].msg \in {"reply", "failed", "synced"} => conn[w] = "up"
         /\ wire[w][i].msg = "changed" => TakeChanged(w, i)
         /\ wire[w][i].msg = "reply" => TakeReply(w, i) /\ IsReply(wire[w][i], Panel(w))
         /\ wire[w][i].msg = "failed" => TakeFailed(w, i)
         /\ wire[w][i].msg = "synced" => TakeSynced(w, i)
         /\ wire[w][i].msg = "resumed" => TakeResumed(w, i)
<1>1. /\ i \in Taken(w) /\ wire' = [wire EXCEPT ![w] = RemoveAt(@, i)]
      /\ UNCHANGED <<scene, version, changes, handlers, faults>>
      /\ \/ TakeChanged(w, i) \/ TakeReply(w, i) \/ TakeFailed(w, i)
         \/ TakeSynced(w, i) \/ TakeResumed(w, i)
  BY DEF Take
<1>2. /\ TakeChanged(w, i) => wire[w][i].msg = "changed"
      /\ TakeReply(w, i) => wire[w][i].msg = "reply"
      /\ TakeFailed(w, i) => wire[w][i].msg = "failed"
      /\ TakeSynced(w, i) => wire[w][i].msg = "synced"
      /\ TakeResumed(w, i) => wire[w][i].msg = "resumed"
  BY DEF TakeChanged, TakeReply, TakeFailed, TakeSynced, TakeResumed
<1>3. wire[w][i].msg = "reply" => IsReply(wire[w][i], Panel(w))
  BY Unpacked DEF IsMessage
<1>4. wire[w][i].msg \in {"reply", "failed", "synced"} => conn[w] = "up"
  BY DEF Desk, Idle, Early
<1> QED BY <1>1, <1>2, <1>3, <1>4

LEMMA TakeStep ==
  ASSUME Desk, NEW w \in Windows, NEW i \in DOMAIN wire[w], Take(w, i), Shows(w, wire[w][i])
  PROVE  /\ Desk' /\ UNCHANGED scene /\ KeepsAsks
         /\ ~Matters(wire[w][i]) => KeepsWire /\ UNCHANGED alertVars
         /\ Without(wire[w], i, wire'[w]) /\ \A v \in Windows \ {w} : wire'[v] = wire[v]
         /\ \A v \in Windows : Continues(asks[v], asks'[v])
         /\ \A v \in Windows \ {w} : asks'[v] = asks[v]
<1> DEFINE m == wire[w][i]
<1>1. /\ UNCHANGED <<scene, version, changes, handlers, faults>>
      /\ wire' = [wire EXCEPT ![w] = RemoveAt(@, i)]
      /\ m.msg \in {"changed", "reply", "failed", "synced", "resumed"}
      /\ m.msg \in {"reply", "failed", "synced"} => conn[w] = "up"
  BY Taking
<1>2. /\ WireTyped' /\ \A v \in Windows \ {w} : wire'[v] = wire[v]
      /\ Without(wire[w], i, wire'[w])
      /\ ~Matters(wire[w][i]) => KeepsWire
  BY <1>1, WireTaken
<1>3. scene \in Scenes /\ scene' = scene
  BY <1>1 DEF Desk
<1>4. /\ m.msg # "resumed" => UNCHANGED conn
      /\ m.msg = "resumed" => conn' = [conn EXCEPT ![w] = "up"]
      /\ \/ UNCHANGED asks
         \/ \E u : /\ asks' = Put(asks, w, u) /\ (conn[w] = "up" \/ m.msg = "resumed")
                   /\ \/ FreshReads(u, Range(Asked[Panel(w)]))
                      \/ \E r : FreshReads(u, Range(Then(Panel(w), r)))
      /\ DOMAIN dirty' = Windows /\ DOMAIN warned' = Windows /\ DOMAIN view' = Windows
      /\ \A v \in Windows : DOMAIN view'[v] = DOMAIN view[v]
  <2>1. CASE m.msg = "changed"
    <3>1. TakeChanged(w, i)
      BY <2>1, Taking
    <3>2. \A scopes : FreshReads(Wanted(w, scopes), Range(Asked[Panel(w)]))
      BY <1>3, WantedAsked
    <3> QED BY <2>1, <3>1, <3>2 DEF TakeChanged, Desk, InTheWindows
  <2>2. CASE m.msg = "reply"
    <3>1. TakeReply(w, i)
      BY <2>2, Taking
    <3> DEFINE next == Then(Panel(w), m.request)
               u == [j \in DOMAIN next |-> Ask(next[j])]
    <3>2. FreshReads(u, Range(next))
      BY ThenAsked
    <3> HIDE DEF u
    <3>3. /\ asks' = Put(asks, w, u) /\ UNCHANGED <<conn, dirty>>
          /\ warned' = [warned EXCEPT ![w] = @ \ {m.request}]
          /\ view' = [view EXCEPT ![w][m.request] =
                        [t \in Tables |-> IF t \in Live(m.request) THEN m.data[t] ELSE 0]]
      BY <3>1 DEF TakeReply, u
    <3>4. DOMAIN view' = Windows /\ \A v \in Windows : DOMAIN view'[v] = DOMAIN view[v]
      BY <3>3 DEF Desk, InTheWindows
    <3>5. DOMAIN dirty' = Windows /\ DOMAIN warned' = Windows
      BY <3>3 DEF Desk, InTheWindows
    <3> QED BY <1>1, <2>2, <3>2, <3>3, <3>4, <3>5
  <2>3. CASE m.msg = "failed"
    <3>1. TakeFailed(w, i)
      BY <2>3, Taking
    <3> QED BY <2>3, <3>1 DEF TakeFailed, Desk, InTheWindows
  <2>4. CASE m.msg = "synced"
    <3>1. TakeSynced(w, i)
      BY <2>4, Taking
    <3>2. FreshReads(All(w), Range(Asked[Panel(w)]))
      BY <1>3, AllAsked
    <3> QED BY <1>1, <2>4, <3>1, <3>2 DEF TakeSynced, Desk, InTheWindows
  <2>5. CASE m.msg = "resumed"
    <3>1. TakeResumed(w, i)
      BY <2>5, Taking
    <3>2. FreshReads(All(w), Range(Asked[Panel(w)]))
      BY <1>3, AllAsked
    <3> QED BY <2>5, <3>1, <3>2 DEF TakeResumed, Desk, InTheWindows
  <2> QED BY <1>1, <2>1, <2>2, <2>3, <2>4, <2>5
<1>5. /\ AsksTyped' /\ KeepsAsks /\ \A v \in Windows : Continues(asks[v], asks'[v])
      /\ \A v \in Windows \ {w} : asks'[v] = asks[v]
  BY <1>3, <1>4, WhatItAsks
<1>6. /\ conn' \in [Windows -> Connections]
      /\ conn'[w] = conn[w] \/ conn'[w] = "up"
      /\ \A v \in Windows \ {w} : conn'[v] = conn[v]
  BY <1>4 DEF Desk, Connections
<1>7. conn'[w] # "up" => asks'[w] = asks[w] /\ conn[w] = conn'[w]
  BY <1>4, <1>6 DEF Desk
<1>8. Idle'
  <2>1. \A j \in DOMAIN wire'[w] : conn[w] # "up" => wire'[w][j].msg \in Early
    BY <1>2, StillEarly
  <2>2. \A v \in Windows : conn'[v] # "up" =>
          asks'[v] = <<>> /\ \A j \in DOMAIN wire'[v] : wire'[v][j].msg \in Early
    BY <1>2, <1>5, <1>6, <1>7, <2>1 DEF Desk, Idle
  <2>3. conn[w] # "down"
    BY EmptyList DEF Desk, Idle
  <2>4. \A v \in Windows : conn'[v] = "down" => wire'[v] = <<>>
    BY <1>2, <1>6, <2>3 DEF Desk, Idle
  <2>5. \A k \in DOMAIN handlers' : \A j \in DOMAIN handlers'[k] :
          handlers'[k][j].window \in Windows => conn'[handlers'[k][j].window] = "up"
    BY <1>1, <1>6 DEF Desk, Idle
  <2> QED BY <2>2, <2>4, <2>5 DEF Idle
<1>9. InTheWindows'
  BY <1>3, <1>4 DEF Desk, InTheWindows, Panel
<1>10. /\ open' \in [Windows -> SUBSET Alerts]
       /\ tracker' \in [Windows -> [Alerts -> Statuses \cup {None}]]
       /\ overtaken' \in [Windows -> SUBSET Alerts]
       /\ UNCHANGED <<alert, box, said>>
       /\ ~Matters(m) => UNCHANGED alertVars
  <2>1. UNCHANGED <<alert, box, said>>
    BY DEF Shows
  <2>2. \/ UNCHANGED open
        \/ /\ open' = [open EXCEPT ![w] = @ \cup {n \in PendingIn(m.data["alerts"]) : ToShow(w, n)}]
           /\ Matters(m)
    BY DEF Shows, Matters
  <2>3. \/ UNCHANGED tracker
        \/ /\ tracker' = [tracker EXCEPT ![w] = m.data["alerts"]]
           /\ Matters(m) /\ m.data["alerts"] \in Rows
    BY Taking DEF Shows, Matters, IsReply
  <2>4. open' \in [Windows -> SUBSET Alerts]
    <3>1. open \in [Windows -> SUBSET Alerts]
      BY DEF Desk, AboutAlerts
    <3> DEFINE more == {n \in PendingIn(m.data["alerts"]) : ToShow(w, n)}
    <3>2. more \in SUBSET Alerts
      BY DEF PendingIn
    <3>3. \/ UNCHANGED open
          \/ open' = [open EXCEPT ![w] = open[w] \cup more]
      BY <2>2
    <3> HIDE DEF more
    <3> QED BY <3>1, <3>2, <3>3
  <2>5. tracker' \in [Windows -> [Alerts -> Statuses \cup {None}]]
    BY <2>3 DEF Desk, AboutAlerts, Rows
  <2>6. overtaken' \in [Windows -> SUBSET Alerts] /\ (UNCHANGED overtaken \/ Matters(m))
    BY ShownOvertaken DEF Matters
  <2> QED BY <2>1, <2>2, <2>3, <2>4, <2>5, <2>6 DEF alertVars
<1>11. AboutAlerts'
  <2>1. /\ alert \in [Alerts -> Statuses \cup {None}]
        /\ box \in [Windows -> [Alerts -> Answers \cup {None, "FAILED"}]]
        /\ said \in [Windows -> [Alerts -> Answers \cup {None}]]
    BY DEF Desk, AboutAlerts
  <2> QED BY <1>10, <2>1 DEF AboutAlerts
<1> QED BY <1>1, <1>2, <1>5, <1>6, <1>8, <1>9, <1>10, <1>11, Unmoved DEF Desk

\* A request about an alert.
LEMMA AlertRequest ==
  ASSUME Desk, NEW w \in Windows, NEW i \in Handled(w)
  PROVE  /\ i \in DOMAIN asks[w] /\ i = 1 /\ conn[w] = "up"
         /\ asks[w][i].request \in {"notify", "respond"} => asks[w][i].alert \in Alerts
         /\ asks[w][i].request = "notify" => Panel(w) = "coo"
<1>1. i \in DOMAIN asks[w] /\ i = 1 /\ conn[w] = "up" /\ IsAsk(asks[w][i], Panel(w))
  BY Unpacked DEF Handled
<1> QED BY <1>1 DEF IsAsk, IsRead, ReadRequests, HeadsOwn

LEMMA AskedAbout ==
  ASSUME Desk, NEW w \in Windows, NEW n \in Alerts, NEW r \in {"notify", "respond"},
         r = "notify" => Panel(w) = "coo", conn[w] = "up",
         asks' = Put(asks, w, <<[request |-> r, left |-> <<>>, got |-> <<>>, alert |-> n]>>),
         UNCHANGED <<scene, version, changes, handlers, conn, wire, dirty, view, warned, faults>>,
         UNCHANGED alertVars
  PROVE  /\ Desk' /\ KeepsWire /\ \A v \in Windows \ {w} : asks'[v] = asks[v]
         /\ Continues(asks[w], asks'[w])
         /\ \A j \in DOMAIN asks'[w] : j \notin DOMAIN asks[w] =>
              /\ j = Len(asks[w]) + 1 /\ asks'[w][j].request = r /\ asks'[w][j].alert = n
<1> DEFINE a == [request |-> r, left |-> <<>>, got |-> <<>>, alert |-> n]
<1>1. a.request = r /\ a.alert = n /\ IsAsk(a, Panel(w))
  BY DEF IsAsk
<1>2. asks' = Put(asks, w, <<a>>)
  OBVIOUS
<1> HIDE DEF a
<1>3. AsksOK(<<a>>, Panel(w)) /\ DOMAIN <<a>> = {1} /\ <<a>>[1] = a
  BY <1>1, Single DEF AsksOK
<1>4. DOMAIN dirty' = Windows /\ AboutAlerts'
  BY Unmoved DEF Desk, InTheWindows
<1>5. Desk' /\ KeepsWire
  BY <1>2, <1>3, <1>4, Sends
<1>6. /\ \A v \in Windows \ {w} : asks'[v] = asks[v]
      /\ Continues(asks[w], asks'[w])
      /\ \A j \in DOMAIN asks'[w] : j \notin DOMAIN asks[w] =>
           j - Len(asks[w]) = 1 /\ asks'[w][j] = a
  <2> DEFINE u == <<a>>
  <2>1. AsksOK(u, Panel(w)) /\ DOMAIN u = {1} /\ u[1] = a /\ asks' = Put(asks, w, u)
    BY <1>2, <1>3
  <2> HIDE DEF u
  <2>2. /\ \A v \in Windows \ {w} : asks'[v] = asks[v]
        /\ Continues(asks[w], asks'[w])
        /\ \A j \in DOMAIN asks'[w] : j \notin DOMAIN asks[w] =>
             j - Len(asks[w]) \in DOMAIN u /\ asks'[w][j] = u[j - Len(asks[w])]
    BY <2>1, AsksPut, ZenonT(40)
  <2> QED BY <2>1, <2>2
<1>7. \A j \in DOMAIN asks'[w] : j \in Nat /\ Len(asks[w]) \in Nat
  BY <1>6, Unpacked, Listed DEF Continues
<1>8. ASSUME NEW j \in DOMAIN asks'[w], j \notin DOMAIN asks[w] PROVE j = Len(asks[w]) + 1
  <2>1. j - Len(asks[w]) = 1 /\ j \in Nat /\ Len(asks[w]) \in Nat
    BY <1>6, <1>7, <1>8
  <2> QED BY <2>1
<1> QED BY <1>1, <1>5, <1>6, <1>8

\* The handler of a request about an alert.
AtOnce(w, i, ws, message, reply) ==
  /\ UNCHANGED <<scene, version, changes, handlers, conn, dirty, view, warned, faults>>
  /\ asks' = [asks EXCEPT ![w] = RemoveAt(@, i)]
  /\ wire' = SentTo(ws, message, w, reply)
  /\ ws # {} => IsMessage(message, "head") /\ IsMessage(message, "coo")
  /\ message.msg \in Early /\ ws \in {{}, Heads, Coos} /\ IsMessage(reply, Panel(w))

LEMMA SentAtOnce ==
  ASSUME Desk, AboutAlerts', NEW w \in Windows, NEW i \in Handled(w),
         NEW ws, NEW message, NEW reply, AtOnce(w, i, ws, message, reply)
  PROVE  /\ Desk' /\ KeepsAsks /\ Without(asks[w], i, asks'[w])
         /\ \A v \in Windows \ {w} : asks'[v] = asks[v]
         /\ wire'[w] = Append(wire[w], reply)
         /\ \A v \in Windows \ {w} :
              \/ wire'[v] = wire[v] /\ (v \notin ws \/ conn[v] = "down")
              \/ wire'[v] = Append(wire[v], message) /\ v \in ws /\ conn[v] # "down"
<1>0. /\ UNCHANGED <<scene, version, changes, handlers, conn, dirty, view, warned, faults>>
      /\ asks' = [asks EXCEPT ![w] = RemoveAt(@, i)]
      /\ wire' = SentTo(ws, message, w, reply)
      /\ ws # {} => IsMessage(message, "head") /\ IsMessage(message, "coo")
      /\ message.msg \in Early /\ ws \in {{}, Heads, Coos} /\ IsMessage(reply, Panel(w))
  BY DEF AtOnce
<1>1. i \in DOMAIN asks[w] /\ conn[w] = "up"
  BY AlertRequest
<1>2. /\ AsksTyped' /\ KeepsAsks /\ \A v \in Windows \ {w} : asks'[v] = asks[v]
      /\ Without(asks[w], i, asks'[w])
  BY <1>0, <1>1, AsksTaken
<1>3. /\ DOMAIN wire' = Windows /\ wire'[w] = Append(wire[w], reply)
      /\ \A v \in Windows \ {w} :
           \/ wire'[v] = wire[v] /\ (v \notin ws \/ conn[v] = "down")
           \/ wire'[v] = Append(wire[v], message) /\ v \in ws /\ conn[v] # "down"
  BY <1>0, <1>1, Unpacked DEF SentTo
<1>4. WireTyped'
  <2>1. \A v \in ws : ws # {} /\ Panel(v) \in {"head", "coo"}
    BY <1>0 DEF Heads, Coos
  <2>2. \A v \in Windows : \/ wire'[v] = wire[v]
                           \/ \E m : IsMessage(m, Panel(v)) /\ wire'[v] = Append(wire[v], m)
    BY <1>0, <1>3, <2>1
  <2> QED BY <1>0, <1>3, <2>2, WireSent
<1>5. Idle'
  <2>1. \A v \in Windows : conn[v] # "up" => \A j \in DOMAIN wire'[v] : wire'[v][j].msg \in Early
    <3> SUFFICES ASSUME NEW v \in Windows, conn[v] # "up"
                 PROVE  \A j \in DOMAIN wire'[v] : wire'[v][j].msg \in Early
      OBVIOUS
    <3>1. wire'[v] = wire[v] \/ wire'[v] = Append(wire[v], message)
      BY <1>1, <1>3
    <3> QED BY <1>0, <3>1, StillEarly
  <2>2. \A v \in Windows : conn[v] = "down" => wire'[v] = wire[v]
    BY <1>1, <1>3
  <2>3. \A j \in DOMAIN handlers' : \A h \in DOMAIN handlers'[j] :
          handlers'[j][h].window \in Windows => conn[handlers'[j][h].window] = "up"
    BY <1>0 DEF Desk, Idle
  <2> QED BY <1>0, <1>1, <1>2, <2>1, <2>2, <2>3, StillIdle
<1> QED BY <1>0, <1>2, <1>3, <1>4, <1>5, Unmoved DEF Desk

\* The messages of TakeAboutAlert.
LEMMA TakingAboutAlert ==
  ASSUME Desk, NEW w \in Windows, NEW i \in DOMAIN wire[w], TakeAboutAlert(w, i)
  PROVE  /\ i \in Taken(w) /\ wire' = [wire EXCEPT ![w] = RemoveAt(@, i)]
         /\ UNCHANGED <<scene, version, changes, handlers, conn, dirty, view, warned, faults, alert, said>>
         /\ wire[w][i].msg \in {"alert", "answered", "sent", "ack"} /\ wire[w][i].alert \in Alerts
         /\ wire[w][i].msg = "answered" => wire[w][i].status \in Answers
         /\ wire[w][i].msg = "sent" => Panel(w) = "coo"
         /\ wire[w][i].msg = "ack" => wire[w][i].ok \in BOOLEAN
         /\ wire[w][i].msg \in {"sent", "ack"} => conn[w] = "up"
         /\ wire[w][i].msg = "alert" => TakeAlert(w, i)
         /\ wire[w][i].msg = "answered" => TakeAnswered(w, i)
         /\ wire[w][i].msg = "sent" => TakeSent(w, i)
         /\ wire[w][i].msg = "ack" => TakeAck(w, i)
<1>1. /\ i \in Taken(w) /\ wire' = [wire EXCEPT ![w] = RemoveAt(@, i)]
      /\ UNCHANGED <<scene, version, changes, handlers, conn, dirty, view, warned, faults, alert, said>>
      /\ TakeAlert(w, i) \/ TakeAnswered(w, i) \/ TakeSent(w, i) \/ TakeAck(w, i)
  BY DEF TakeAboutAlert
<1>2. /\ TakeAlert(w, i) => wire[w][i].msg = "alert"
      /\ TakeAnswered(w, i) => wire[w][i].msg = "answered"
      /\ TakeSent(w, i) => wire[w][i].msg = "sent"
      /\ TakeAck(w, i) => wire[w][i].msg = "ack"
  BY DEF TakeAlert, TakeAnswered, TakeSent, TakeAck
<1>3. IsMessage(wire[w][i], Panel(w))
  BY Unpacked
<1>4. wire[w][i].msg \in {"sent", "ack"} => conn[w] = "up"
  BY DEF Desk, Idle, Early
<1> QED BY <1>1, <1>2, <1>3, <1>4 DEF IsMessage

LEMMA TakeAboutAlertStep ==
  ASSUME Desk, NEW w \in Windows, NEW i \in DOMAIN wire[w], TakeAboutAlert(w, i)
  PROVE  /\ Desk' /\ UNCHANGED scene /\ KeepsAsks
         /\ Without(wire[w], i, wire'[w]) /\ \A v \in Windows \ {w} : wire'[v] = wire[v]
         /\ \A v \in Windows : Continues(asks[v], asks'[v])
<1> DEFINE m == wire[w][i]
<1>1. /\ UNCHANGED <<scene, version, changes, handlers, conn, dirty, view, warned, faults, alert, said>>
      /\ wire' = [wire EXCEPT ![w] = RemoveAt(@, i)]
      /\ m.msg \in {"alert", "answered", "sent", "ack"} /\ m.alert \in Alerts
      /\ m.msg \in {"sent", "ack"} => conn[w] = "up"
  BY TakingAboutAlert
<1>2. /\ WireTyped' /\ \A v \in Windows \ {w} : wire'[v] = wire[v]
      /\ Without(wire[w], i, wire'[w])
  BY <1>1, WireTaken
<1>3. /\ UNCHANGED asks \/ (asks' = Put(asks, w, All(w)) /\ m.msg = "ack")
      /\ AboutAlerts'
  <2>1. /\ alert \in [Alerts -> Statuses \cup {None}]
        /\ open \in [Windows -> SUBSET Alerts]
        /\ box \in [Windows -> [Alerts -> Answers \cup {None, "FAILED"}]]
        /\ tracker \in [Windows -> [Alerts -> Statuses \cup {None}]]
        /\ said \in [Windows -> [Alerts -> Answers \cup {None}]]
        /\ overtaken \in [Windows -> SUBSET Alerts]
    BY DEF Desk, AboutAlerts
  <2>2. CASE m.msg = "alert"
    <3>1. UNCHANGED <<asks, box, tracker, overtaken>>
      BY <2>2, TakingAboutAlert DEF TakeAlert
    <3>2. UNCHANGED open \/ open' = [open EXCEPT ![w] = @ \cup {m.alert}]
      BY <2>2, TakingAboutAlert DEF TakeAlert
    <3>3. open' \in [Windows -> SUBSET Alerts]
      <4>1. PICK n \in Alerts : UNCHANGED open \/ open' = [open EXCEPT ![w] = @ \cup {n}]
        BY <1>1, <3>2
      <4>2. open \in [Windows -> SUBSET Alerts]
        BY <2>1
      <4>3. [open EXCEPT ![w] = @ \cup {n}] \in [Windows -> SUBSET Alerts]
        BY <4>2
      <4> QED BY <4>1, <4>2, <4>3
    <3> QED BY <1>1, <2>1, <3>1, <3>3 DEF AboutAlerts
  <2>3. CASE m.msg = "answered"
    <3>1. UNCHANGED <<asks, open, box>> /\ overtaken' = Overtaking(w, i)
      BY <2>3, TakingAboutAlert DEF TakeAnswered
    <3>2. UNCHANGED tracker \/ tracker' = [tracker EXCEPT ![w][m.alert] = m.status]
      BY <2>3, TakingAboutAlert DEF TakeAnswered
    <3>3. tracker' \in [Windows -> [Alerts -> Statuses \cup {None}]]
      <4>1. PICK n \in Alerts, s \in Statuses :
              UNCHANGED tracker \/ tracker' = [tracker EXCEPT ![w][n] = s]
        BY <1>1, <2>3, <3>2, TakingAboutAlert DEF Statuses
      <4>2. tracker \in [Windows -> [Alerts -> Statuses \cup {None}]]
        BY <2>1
      <4>3. [tracker EXCEPT ![w][n] = s] \in [Windows -> [Alerts -> Statuses \cup {None}]]
        BY <4>2
      <4> QED BY <4>1, <4>2, <4>3
    <3>4. overtaken' \in [Windows -> SUBSET Alerts]
      BY <1>1, <3>1, HeardOvertaken
    <3> QED BY <1>1, <2>1, <3>1, <3>3, <3>4 DEF AboutAlerts
  <2>4. CASE m.msg = "sent"
    <3>1. UNCHANGED <<asks, open, box, overtaken>> /\ tracker' = [tracker EXCEPT ![w][m.alert] = "PENDING"]
      BY <2>4, TakingAboutAlert DEF TakeSent
    <3>2. tracker' \in [Windows -> [Alerts -> Statuses \cup {None}]]
      BY <2>1, <3>1 DEF Statuses
    <3> QED BY <1>1, <2>1, <3>1, <3>2 DEF AboutAlerts
  <2>5. CASE m.msg = "ack"
    <3>1. /\ UNCHANGED <<open, tracker>> /\ overtaken' = Overtaking(w, i)
          /\ UNCHANGED asks \/ asks' = Put(asks, w, All(w))
          /\ box' = [box EXCEPT ![w][m.alert] = IF m.ok THEN None ELSE "FAILED"]
      <4>1. TakeAck(w, i)
        BY <2>5, TakingAboutAlert
      <4> QED BY <4>1, Zenon DEF TakeAck
    <3>2. overtaken' \in [Windows -> SUBSET Alerts]
      BY <1>1, <3>1, HeardOvertaken
    <3>3. box' \in [Windows -> [Alerts -> Answers \cup {None, "FAILED"}]]
      BY <2>1, <3>1
    <3> QED BY <1>1, <2>1, <2>5, <3>1, <3>2, <3>3 DEF AboutAlerts
  <2> QED BY <1>1, <2>2, <2>3, <2>4, <2>5
<1>4. /\ AsksTyped' /\ KeepsAsks /\ \A v \in Windows : Continues(asks[v], asks'[v])
      /\ \A v \in Windows \ {w} : asks'[v] = asks[v]
  <2>1. FreshReads(All(w), Range(Asked[Panel(w)]))
    BY AllAsked DEF Desk
  <2> QED BY <1>1, <1>3, <2>1, WhatItAsks
<1>5. Idle'
  <2>1. \A v \in Windows : conn[v] # "up" => \A j \in DOMAIN wire'[v] : wire'[v][j].msg \in Early
    BY <1>2, StillEarly
  <2>2. conn[w] # "down"
    BY EmptyList DEF Desk, Idle
  <2>3. \A v \in Windows : conn[v] = "down" => wire'[v] = wire[v]
    BY <1>2, <2>2
  <2>4. \A v \in Windows : conn[v] # "up" => asks'[v] = asks[v]
    BY <1>1, <1>3, <1>4
  <2>5. \A j \in DOMAIN handlers' : \A h \in DOMAIN handlers'[j] :
          handlers'[j][h].window \in Windows => conn[handlers'[j][h].window] = "up"
    BY <1>1 DEF Desk, Idle
  <2> QED BY <1>1, <2>1, <2>3, <2>4, <2>5, StillIdle
<1> QED BY <1>1, <1>2, <1>3, <1>4, <1>5, Unmoved DEF Desk

-----------------------------------------------------------------------------
(* Each answer goes to the server once, and each alert is made once. *)

\* A dialog is open for an alert without an answer, and what was answered stands or is in
\* the outbox.
AnswersKept ==
  \A w \in Windows, n \in Alerts :
    /\ box[w][n] # None => n \notin open[w] /\ said[w][n] # None
    /\ box[w][n] \in Answers => said[w][n] = box[w][n]
    /\ said[w][n] # None => said[w][n] = alert[n] \/ box[w][n] # None

Responds(a) == a.request = "respond"
Notifies(a) == a.request = "notify"
Acks(m) == m.msg = "ack"

\* The outbox has one answer on the way, which does not change; confirmed, it stands.
OneAnswer(w) ==
  /\ \A i, j \in DOMAIN asks[w] : Responds(asks[w][i]) /\ Responds(asks[w][j]) => i = j
  /\ \A i, j \in DOMAIN wire[w] : Acks(wire[w][i]) /\ Acks(wire[w][j]) => i = j
  /\ \A i \in DOMAIN asks[w], j \in DOMAIN wire[w] : ~(Responds(asks[w][i]) /\ Acks(wire[w][j]))
  /\ \A i \in DOMAIN asks[w] : Responds(asks[w][i]) => box[w][asks[w][i].alert] \in Answers
  /\ \A i \in DOMAIN wire[w] : Acks(wire[w][i]) =>
       /\ box[w][wire[w][i].alert] \in Answers
       /\ wire[w][i].ok => alert[wire[w][i].alert] = box[w][wire[w][i].alert]

OneAnswerAtATime == \A w \in Windows : OneAnswer(w)

OneAlertAtATime ==
  \A v, w \in Windows : \A i \in DOMAIN asks[v], j \in DOMAIN asks[w] :
    /\ Notifies(asks[v][i]) => alert[asks[v][i].alert] = None
    /\ Notifies(asks[v][i]) /\ Notifies(asks[w][j]) => v = w /\ i = j

AcksKept(s, t) ==
  \E f : /\ \A j \in DOMAIN t : Acks(t[j]) => f[j] \in DOMAIN s /\ s[f[j]] = t[j]
         /\ \A j, k \in DOMAIN t : Acks(t[j]) /\ Acks(t[k]) /\ f[j] = f[k] => j = k

LEMMA AcksKeptBy ==
  ASSUME NEW s, IsList(s), NEW t
  PROVE  /\ AcksKept(s, s)
         /\ IsList(t) /\ WireKept(s, t) => AcksKept(s, t)
         /\ \A m : t = Append(s, m) /\ ~Acks(m) => AcksKept(s, t)
         /\ \A i \in DOMAIN s : Without(s, i, t) => AcksKept(s, t)
<1>1. DOMAIN s = 1..Len(s) /\ Len(s) \in Nat
  BY Listed
<1>2. AcksKept(s, s)
  <2> DEFINE f == [j \in DOMAIN s |-> j]
  <2>1. \A j \in DOMAIN s : f[j] = j
    OBVIOUS
  <2> HIDE DEF f
  <2> QED BY <2>1 DEF AcksKept
<1>3. ASSUME IsList(t), WireKept(s, t) PROVE AcksKept(s, t)
  <2>1. \A m : Acks(m) => Matters(m)
    BY DEF Acks, Matters
  <2>2. CASE \A j \in DOMAIN t : ~Matters(t[j])
    BY <2>1, <2>2 DEF AcksKept
  <2>3. CASE \E f : /\ \A j \in DOMAIN t : Matters(t[j]) => f[j] \in DOMAIN s /\ s[f[j]] = t[j]
                    /\ \A j, k \in DOMAIN t : Matters(t[j]) /\ Matters(t[k]) => (j < k <=> f[j] < f[k])
    <3>1. PICK f : /\ \A j \in DOMAIN t : Matters(t[j]) => f[j] \in DOMAIN s /\ s[f[j]] = t[j]
                   /\ \A j, k \in DOMAIN t : Matters(t[j]) /\ Matters(t[k]) => (j < k <=> f[j] < f[k])
      BY <2>3
    <3>2. ASSUME NEW j \in DOMAIN t, NEW k \in DOMAIN t, Acks(t[j]), Acks(t[k]), f[j] = f[k] PROVE j = k
      <4>1. j \in Nat /\ k \in Nat /\ f[j] \in Nat
        BY <1>1, <1>3, <2>1, <3>1, <3>2, Listed
      <4>2. ~(j < k) /\ ~(k < j)
        BY <2>1, <3>1, <3>2, <4>1
      <4> QED BY <4>1, <4>2
    <3> QED BY <2>1, <3>1, <3>2 DEF AcksKept
  <2> QED BY <1>3, <2>2, <2>3 DEF WireKept
<1>4. ASSUME NEW m, t = Append(s, m), ~Acks(m) PROVE AcksKept(s, t)
  <2> DEFINE f == [j \in DOMAIN t |-> j]
  <2>1. \A j \in DOMAIN t : f[j] = j
    OBVIOUS
  <2>2. /\ \A j \in DOMAIN s : j \in DOMAIN t /\ t[j] = s[j]
        /\ Len(t) = Len(s) + 1 /\ t[Len(s) + 1] = m /\ DOMAIN t = 1..Len(t)
    BY <1>4, Appended, Listed DEF Continues
  <2>3. \A j \in DOMAIN t : j \in DOMAIN s \/ j = Len(s) + 1
    BY <1>1, <2>2
  <2> HIDE DEF f
  <2> QED BY <1>4, <2>1, <2>2, <2>3 DEF AcksKept
<1>5. ASSUME NEW i \in DOMAIN s, Without(s, i, t) PROVE AcksKept(s, t)
  <2> DEFINE f == [j \in DOMAIN t |-> IF j < i THEN j ELSE j + 1]
  <2>9. i \in Nat
    BY <1>1
  <2>7. \A j \in DOMAIN t : /\ j \in Nat
                            /\ j < i => j \in DOMAIN s /\ t[j] = s[j]
                            /\ j >= i => j + 1 \in DOMAIN s /\ t[j] = s[j + 1]
    BY <1>5, Remaining
  <2>8. \A j \in DOMAIN t : f[j] = IF j < i THEN j ELSE j + 1
    OBVIOUS
  <2> HIDE DEF f
  <2>1. \A j \in DOMAIN t : /\ j < i => f[j] = j /\ f[j] \in DOMAIN s /\ t[j] = s[j]
                            /\ ~(j < i) => f[j] = j + 1 /\ f[j] \in DOMAIN s /\ t[j] = s[j + 1]
    <3> TAKE j \in DOMAIN t
    <3>1. CASE j < i
      BY <2>7, <2>8, <2>9, <3>1
    <3>2. CASE j >= i
      BY <2>7, <2>8, <2>9, <3>2
    <3> QED BY <2>7, <2>9, <3>1, <3>2
  <2>2. \A j \in DOMAIN t : f[j] \in DOMAIN s /\ s[f[j]] = t[j]
    BY <2>1
  <2>3. \A j, k \in DOMAIN t : f[j] = f[k] => j = k
    BY <2>1, <2>7, <2>9
  <2> QED BY <2>2, <2>3 DEF AcksKept
<1> QED BY <1>2, <1>3, <1>4, <1>5

\* Requests and confirmations that stay, and answers that no request has taken up.
LEMMA StillOneAnswerOf ==
  ASSUME NEW w \in Windows, OneAnswer(w), AsksKept(asks[w], asks'[w]), AcksKept(wire[w], wire'[w]),
         \A i \in DOMAIN asks'[w] : Responds(asks'[w][i]) => asks'[w][i].alert \in Alerts,
         \A i \in DOMAIN wire'[w] : Acks(wire'[w][i]) => wire'[w][i].alert \in Alerts,
         \A n \in Alerts : box'[w][n] = box[w][n] \/ box[w][n] \notin Answers,
         \A n \in Alerts : alert'[n] = alert[n] \/ alert[n] \notin Answers
  PROVE  OneAnswer(w)'
<1>1. PICK f : /\ \A j \in DOMAIN asks'[w] : AboutAlert(asks'[w][j]) =>
                    f[j] \in DOMAIN asks[w] /\ asks[w][f[j]] = asks'[w][j]
               /\ \A j, k \in DOMAIN asks'[w] :
                    AboutAlert(asks'[w][j]) /\ AboutAlert(asks'[w][k]) /\ f[j] = f[k] => j = k
  BY DEF AsksKept
<1>2. PICK g : /\ \A j \in DOMAIN wire'[w] : Acks(wire'[w][j]) =>
                    g[j] \in DOMAIN wire[w] /\ wire[w][g[j]] = wire'[w][j]
               /\ \A j, k \in DOMAIN wire'[w] :
                    Acks(wire'[w][j]) /\ Acks(wire'[w][k]) /\ g[j] = g[k] => j = k
  BY DEF AcksKept
<1>3. \A a : Responds(a) => AboutAlert(a)
  BY DEF Responds, AboutAlert
<1>4. /\ \A i, j \in DOMAIN asks[w] : Responds(asks[w][i]) /\ Responds(asks[w][j]) => i = j
      /\ \A i, j \in DOMAIN wire[w] : Acks(wire[w][i]) /\ Acks(wire[w][j]) => i = j
      /\ \A i \in DOMAIN asks[w], j \in DOMAIN wire[w] : ~(Responds(asks[w][i]) /\ Acks(wire[w][j]))
      /\ \A i \in DOMAIN asks[w] : Responds(asks[w][i]) => box[w][asks[w][i].alert] \in Answers
      /\ \A i \in DOMAIN wire[w] : Acks(wire[w][i]) =>
           /\ box[w][wire[w][i].alert] \in Answers
           /\ wire[w][i].ok => alert[wire[w][i].alert] = box[w][wire[w][i].alert]
  BY DEF OneAnswer
<1>5. ASSUME NEW i \in DOMAIN asks'[w], Responds(asks'[w][i])
      PROVE  box'[w][asks'[w][i].alert] \in Answers
  BY <1>1, <1>3, <1>4, <1>5
<1>6. ASSUME NEW i \in DOMAIN wire'[w], Acks(wire'[w][i])
      PROVE  /\ box'[w][wire'[w][i].alert] \in Answers
             /\ wire'[w][i].ok => alert'[wire'[w][i].alert] = box'[w][wire'[w][i].alert]
  <2> DEFINE n == wire'[w][i].alert
  <2>1. n \in Alerts /\ box[w][n] \in Answers /\ (wire'[w][i].ok => alert[n] = box[w][n])
    BY <1>2, <1>4, <1>6
  <2> QED BY <2>1
<1>7. \A i, j \in DOMAIN asks'[w] : Responds(asks'[w][i]) /\ Responds(asks'[w][j]) => i = j
  BY <1>1, <1>3, <1>4
<1>8. \A i, j \in DOMAIN wire'[w] : Acks(wire'[w][i]) /\ Acks(wire'[w][j]) => i = j
  BY <1>2, <1>4
<1>9. \A i \in DOMAIN asks'[w], j \in DOMAIN wire'[w] : ~(Responds(asks'[w][i]) /\ Acks(wire'[w][j]))
  BY <1>1, <1>2, <1>3, <1>4
<1> QED BY <1>5, <1>6, <1>7, <1>8, <1>9 DEF OneAnswer, Responds, Acks

LEMMA StillOneAnswer ==
  ASSUME OneAnswerAtATime, KeepsAsks, \A v \in Windows : AcksKept(wire[v], wire'[v]),
         \A v \in Windows : \A i \in DOMAIN asks'[v] : Responds(asks'[v][i]) => asks'[v][i].alert \in Alerts,
         \A v \in Windows : \A i \in DOMAIN wire'[v] : Acks(wire'[v][i]) => wire'[v][i].alert \in Alerts,
         \A v \in Windows, n \in Alerts : box'[v][n] = box[v][n] \/ box[v][n] \notin Answers,
         \A n \in Alerts : alert'[n] = alert[n] \/ alert[n] \notin Answers
  PROVE  OneAnswerAtATime'
<1>1. \A w \in Windows : OneAnswer(w)'
  BY StillOneAnswerOf DEF OneAnswerAtATime, KeepsAsks
<1> QED BY <1>1 DEF OneAnswerAtATime

LEMMA StillOneAlert ==
  ASSUME OneAlertAtATime, UNCHANGED scene, KeepsAsks, \A n : alert[n] = None => alert'[n] = None
  PROVE  OneAlertAtATime'
<1> SUFFICES ASSUME NEW v \in Windows, NEW w \in Windows, NEW i \in DOMAIN asks'[v], NEW j \in DOMAIN asks'[w]
             PROVE  /\ Notifies(asks'[v][i]) => alert'[asks'[v][i].alert] = None
                    /\ Notifies(asks'[v][i]) /\ Notifies(asks'[w][j]) => v = w /\ i = j
  BY DEF OneAlertAtATime, Notifies
<1>1. PICK f : /\ \A k \in DOMAIN asks'[v] : AboutAlert(asks'[v][k]) =>
                    f[k] \in DOMAIN asks[v] /\ asks[v][f[k]] = asks'[v][k]
               /\ \A k, l \in DOMAIN asks'[v] :
                    AboutAlert(asks'[v][k]) /\ AboutAlert(asks'[v][l]) /\ f[k] = f[l] => k = l
  BY DEF KeepsAsks, AsksKept
<1>2. PICK g : /\ \A k \in DOMAIN asks'[w] : AboutAlert(asks'[w][k]) =>
                    g[k] \in DOMAIN asks[w] /\ asks[w][g[k]] = asks'[w][k]
  BY DEF KeepsAsks, AsksKept
<1>3. \A a : Notifies(a) => AboutAlert(a)
  BY DEF Notifies, AboutAlert
<1>4. Notifies(asks'[v][i]) => alert'[asks'[v][i].alert] = None
  BY <1>1, <1>3 DEF OneAlertAtATime
<1>5. ASSUME Notifies(asks'[v][i]), Notifies(asks'[w][j]) PROVE v = w /\ i = j
  <2>1. v = w
    BY <1>1, <1>2, <1>3, <1>5 DEF OneAlertAtATime
  <2>2. f[i] = f[j]
    BY <1>1, <1>3, <1>5, <2>1 DEF OneAlertAtATime
  <2> QED BY <1>1, <1>3, <1>5, <2>1, <2>2
<1> QED BY <1>4, <1>5

\* The reply to a snapshot or to the tracker's request has the alerts as they are now.
Loaded(w) ==
  \E i, m :
    /\ i \in Handled(w)
    /\ asks[w][i].request \in {"snapshot", "alerts"} /\ Without(asks[w], i, asks'[w])
    /\ m.msg = "reply" /\ m.request = asks[w][i].request /\ m.data["alerts"] = alert
    /\ wire'[w] = Append(wire[w], m)
    /\ \A v \in Windows \ {w} : asks'[v] = asks[v] /\ wire'[v] = wire[v]
    /\ UNCHANGED alertVars

\* Every step says nothing of alerts, or is one of these.
LEMMA Steps ==
  ASSUME Desk, [AlertsNext]_alertsVars
  PROVE  \/ Desk' /\ Quiet /\ UNCHANGED alertVars
         \/ \E w \in Windows : Desk' /\ Quiet /\ Reopened(w)
         \/ \E w \in Windows : Desk' /\ UNCHANGED scene /\ KeepsAsks /\ Loaded(w)
         \/ \E w \in Windows : \E i \in DOMAIN wire[w] :
              Take(w, i) /\ Shows(w, wire[w][i]) /\ Matters(wire[w][i])
         \/ \E w \in Windows : \E i \in DOMAIN wire[w] : TakeAboutAlert(w, i)
         \/ \E w \in Windows, n \in Alerts :
              Notify(w, n) \/ SendAnswer(w, n) \/ \E status \in Answers : Answer(w, n, status)
         \/ \E w \in Windows : Create(w) \/ Respond(w)
<1>1. CASE UNCHANGED alertsVars
  <2>1. UNCHANGED viewVars /\ UNCHANGED alertVars
    BY <1>1 DEF alertsVars
  <2>2. Desk' /\ Quiet
    BY <2>1, Unmoved DEF viewVars, Desk, Idle, Quiet
  <2> QED BY <2>1, <2>2
<1>2. CASE Server
  <2>1. CASE \E k \in Kinds : Change(k) /\ UNCHANGED alertVars
    BY <2>1, ChangeStep
  <2>2. CASE \E i \in DOMAIN handlers : Announce(i) /\ UNCHANGED alertVars
    BY <2>2, AnnounceStep
  <2>3. CASE \E w \in Windows : Read(w, Data) /\ UNCHANGED alertVars
    <3>1. PICK w \in Windows : Read(w, Data) /\ UNCHANGED alertVars
      BY <2>3
    <3>2. /\ Desk' /\ UNCHANGED scene /\ KeepsAsks
          /\ \A v \in Windows \ {w} : asks'[v] = asks[v] /\ wire'[v] = wire[v]
      BY <3>1, ReadStep
    <3>3. PICK i, got :
          /\ i \in Handled(w)
          /\ LET a == asks[w][i]
             IN \/ UNCHANGED wire
                \/ /\ Without(asks[w], i, asks'[w])
                   /\ wire'[w] = Append(wire[w], [msg |-> "reply", request |-> a.request, data |-> got])
                   /\ a.request \in {"snapshot", "alerts"} => got["alerts"] = alert
                   /\ a.request \notin {"snapshot", "alerts"} => KeepsWire
      BY <3>1, ReadStep
    <3>4. CASE UNCHANGED wire
      <4>1. KeepsWire
        BY <3>2, <3>4, Unmoved
      <4> QED BY <3>1, <3>2, <4>1 DEF Quiet
    <3>5. CASE ~UNCHANGED wire /\ asks[w][i].request \notin {"snapshot", "alerts"}
      BY <3>1, <3>2, <3>3, <3>5 DEF Quiet
    <3>6. CASE ~UNCHANGED wire /\ asks[w][i].request \in {"snapshot", "alerts"}
      <4> DEFINE m == [msg |-> "reply", request |-> asks[w][i].request, data |-> got]
      <4>1. m.msg = "reply" /\ m.request = asks[w][i].request /\ m.data = got
        OBVIOUS
      <4>2. wire'[w] = Append(wire[w], m) /\ Without(asks[w], i, asks'[w]) /\ got["alerts"] = alert
        BY <3>3, <3>6
      <4> HIDE DEF m
      <4>3. Loaded(w)
        BY <3>1, <3>2, <3>3, <3>6, <4>1, <4>2 DEF Loaded
      <4> QED BY <3>2, <4>3
    <3> QED BY <3>4, <3>5, <3>6
  <2>4. CASE \E w \in Windows : Store(w) /\ UNCHANGED alertVars
    BY <2>4, StoreStep
  <2> QED BY <1>2, <2>1, <2>2, <2>3, <2>4 DEF Server
<1>3. ASSUME NEW w \in Windows, Window(w)
      PROVE  \/ Desk' /\ Quiet /\ UNCHANGED alertVars
             \/ \E i \in DOMAIN wire[w] : Take(w, i) /\ Shows(w, wire[w][i]) /\ Matters(wire[w][i])
             \/ \E i \in DOMAIN wire[w] : TakeAboutAlert(w, i)
             \/ \E n \in Alerts :
                  Notify(w, n) \/ SendAnswer(w, n) \/ \E status \in Answers : Answer(w, n, status)
  <2>1. CASE \E i \in DOMAIN wire[w] : Take(w, i) /\ Shows(w, wire[w][i])
    BY <2>1, TakeStep DEF Quiet
  <2>2. CASE Fire(w) /\ UNCHANGED alertVars
    BY <2>2, FireStep
  <2>3. CASE \E k \in Kinds : Submit(w, k) /\ UNCHANGED alertVars
    BY <2>3, SubmitStep
  <2>4. CASE OpenWorkspace(w) /\ UNCHANGED alertVars
    BY <2>4, OpenStep
  <2> QED BY <1>3, <2>1, <2>2, <2>3, <2>4 DEF Window
<1>4. ASSUME NEW w \in Windows, Faults(w)
      PROVE  Desk' /\ Quiet /\ (UNCHANGED alertVars \/ Reopened(w))
  BY <1>4, DropStep, ResumeStep, FailStep, ReopenedStep DEF Faults
<1> QED BY <1>1, <1>2, <1>3, <1>4 DEF AlertsNext

LEMMA UnpackedNext ==
  ASSUME Desk', UNCHANGED scene, NEW w \in Windows
  PROVE  /\ IsList(asks'[w]) /\ \A i \in DOMAIN asks'[w] : IsAsk(asks'[w][i], Panel(w))
         /\ IsList(wire'[w]) /\ \A i \in DOMAIN wire'[w] : IsMessage(wire'[w][i], Panel(w))
         /\ \A i \in DOMAIN asks'[w] : AboutAlert(asks'[w][i]) => asks'[w][i].alert \in Alerts
         /\ \A i \in DOMAIN wire'[w] :
              wire'[w][i].msg \in {"alert", "answered", "sent", "ack"} => wire'[w][i].alert \in Alerts
<1>1. AsksOK(asks'[w], Panel(w)) /\ WireOK(wire'[w], Panel(w))
  BY DEF Desk, AsksTyped, WireTyped, Panel
<1>2. /\ IsList(asks'[w]) /\ \A i \in DOMAIN asks'[w] : IsAsk(asks'[w][i], Panel(w))
      /\ IsList(wire'[w]) /\ \A i \in DOMAIN wire'[w] : IsMessage(wire'[w][i], Panel(w))
  BY <1>1 DEF AsksOK, WireOK
<1>3. \A a, p : IsAsk(a, p) /\ AboutAlert(a) => a.alert \in Alerts
  BY DEF IsAsk, AboutAlert, IsRead, ReadRequests, HeadsOwn
<1>4. \A m, p : IsMessage(m, p) /\ m.msg \in {"alert", "answered", "sent", "ack"} => m.alert \in Alerts
  BY DEF IsMessage
<1> QED BY <1>2, <1>3, <1>4

Answering == AnswersKept /\ OneAnswerAtATime /\ OneAlertAtATime

\* A step that makes no alert, takes no answer up and confirms none.
LEMMA StillAnswering ==
  ASSUME Desk', UNCHANGED scene, Answering, KeepsAsks, \A v \in Windows : AcksKept(wire[v], wire'[v]),
         UNCHANGED <<alert, box, said>>,
         \A v \in Windows, n \in Alerts : n \in open'[v] => n \in open[v] \/ box[v][n] = None
  PROVE  Answering'
<1>1. OneAnswerAtATime'
  <2>1. \A v \in Windows : \A i \in DOMAIN asks'[v] : Responds(asks'[v][i]) => asks'[v][i].alert \in Alerts
    BY UnpackedNext DEF Responds, AboutAlert
  <2>2. \A v \in Windows : \A i \in DOMAIN wire'[v] : Acks(wire'[v][i]) => wire'[v][i].alert \in Alerts
    BY UnpackedNext DEF Acks
  <2>3. /\ \A v \in Windows, n \in Alerts : box'[v][n] = box[v][n] \/ box[v][n] \notin Answers
        /\ \A n \in Alerts : alert'[n] = alert[n] \/ alert[n] \notin Answers
    OBVIOUS
  <2> QED BY <2>1, <2>2, <2>3, StillOneAnswer DEF Answering
<1>2. OneAlertAtATime'
  <2>1. \A n : alert[n] = None => alert'[n] = None
    OBVIOUS
  <2> QED BY <2>1, StillOneAlert DEF Answering
<1>3. AnswersKept'
  BY DEF Answering, AnswersKept
<1> QED BY <1>1, <1>2, <1>3 DEF Answering

LEMMA QuietKeepsAcks ==
  ASSUME Desk, Desk', Quiet
  PROVE  \A v \in Windows : AcksKept(wire[v], wire'[v])
<1> TAKE v \in Windows
<1>1. IsList(wire[v]) /\ IsList(wire'[v]) /\ WireKept(wire[v], wire'[v])
  BY Unpacked, UnpackedNext DEF Quiet, KeepsWire
<1> QED BY <1>1, AcksKeptBy

LEMMA NotifyStep ==
  ASSUME Desk, Answering, NEW w \in Windows, NEW n \in Alerts, Notify(w, n)
  PROVE  Desk' /\ Answering'
<1>1. /\ w \in Coos /\ conn[w] = "up" /\ alert[n] = None
      /\ \A v \in Coos : \A i \in DOMAIN asks[v] : asks[v][i].request # "notify"
      /\ asks' = Put(asks, w, <<[request |-> "notify", left |-> <<>>, got |-> <<>>, alert |-> n]>>)
      /\ UNCHANGED <<scene, version, changes, handlers, conn, wire, dirty, view, warned, faults>>
      /\ UNCHANGED alertVars
  BY DEF Notify
<1>2. Panel(w) = "coo" /\ UNCHANGED <<alert, box, said, open>>
  BY <1>1 DEF Coos, alertVars
<1>3. /\ Desk' /\ KeepsWire /\ \A v \in Windows \ {w} : asks'[v] = asks[v]
      /\ Continues(asks[w], asks'[w])
      /\ \A j \in DOMAIN asks'[w] : j \notin DOMAIN asks[w] =>
           /\ j = Len(asks[w]) + 1 /\ asks'[w][j].request = "notify" /\ asks'[w][j].alert = n
  BY <1>1, <1>2, AskedAbout
<1>4. \A v \in Windows : \A i \in DOMAIN asks[v] : ~Notifies(asks[v][i])
  <2> TAKE v \in Windows
  <2> TAKE i \in DOMAIN asks[v]
  <2>1. IsAsk(asks[v][i], Panel(v))
    BY Unpacked
  <2>2. asks[v][i].request = "notify" => v \in Coos
    BY <2>1 DEF IsAsk, IsRead, ReadRequests, HeadsOwn, Coos
  <2> QED BY <1>1, <2>2 DEF Notifies
<1>5. OneAlertAtATime'
  <2>1. \A v \in Windows : \A i \in DOMAIN asks'[v] : Notifies(asks'[v][i]) =>
          v = w /\ i = Len(asks[w]) + 1 /\ asks'[v][i].alert = n
    BY <1>3, <1>4 DEF Notifies, Continues
  <2> QED BY <1>1, <1>2, <2>1 DEF OneAlertAtATime, Notifies
<1>6. \A i \in DOMAIN asks'[w] : Responds(asks'[w][i]) => i \in DOMAIN asks[w] /\ asks'[w][i] = asks[w][i]
  BY <1>3 DEF Responds, Continues
<1>7. OneAnswerAtATime'
  <2>1. \A v \in Windows : \A i \in DOMAIN asks'[v] : Responds(asks'[v][i]) =>
          i \in DOMAIN asks[v] /\ asks'[v][i] = asks[v][i]
    BY <1>3, <1>6
  <2> QED BY <1>1, <1>2, <2>1 DEF Answering, OneAnswerAtATime, OneAnswer, Responds, Acks
<1> QED BY <1>2, <1>3, <1>5, <1>7 DEF Answering, AnswersKept

LEMMA SendAnswerStep ==
  ASSUME Desk, Answering, NEW w \in Windows, NEW n \in Alerts, SendAnswer(w, n)
  PROVE  Desk' /\ Answering'
<1>1. /\ conn[w] = "up" /\ box[w][n] \in Answers /\ ~OnTheWay(w)
      /\ asks' = Put(asks, w, <<[request |-> "respond", left |-> <<>>, got |-> <<>>, alert |-> n]>>)
      /\ UNCHANGED <<scene, version, changes, handlers, conn, wire, dirty, view, warned, faults>>
      /\ UNCHANGED alertVars
  BY DEF SendAnswer
<1>2. UNCHANGED <<alert, box, said, open>>
  BY <1>1 DEF alertVars
<1>3. /\ Desk' /\ KeepsWire /\ \A v \in Windows \ {w} : asks'[v] = asks[v]
      /\ Continues(asks[w], asks'[w])
      /\ \A j \in DOMAIN asks'[w] : j \notin DOMAIN asks[w] =>
           /\ j = Len(asks[w]) + 1 /\ asks'[w][j].request = "respond" /\ asks'[w][j].alert = n
  BY <1>1, <1>2, AskedAbout
<1>4. /\ \A i \in DOMAIN asks[w] : ~Responds(asks[w][i])
      /\ \A i \in DOMAIN wire[w] : ~Acks(wire[w][i])
  BY <1>1 DEF OnTheWay, Responds, Acks
<1>5. OneAlertAtATime'
  <2>1. \A v \in Windows : \A i \in DOMAIN asks'[v] : Notifies(asks'[v][i]) =>
          i \in DOMAIN asks[v] /\ asks'[v][i] = asks[v][i]
    BY <1>3 DEF Notifies, Continues
  <2> QED BY <1>2, <2>1 DEF Answering, OneAlertAtATime, Notifies
<1>6. \A i \in DOMAIN asks'[w] : Responds(asks'[w][i]) => i = Len(asks[w]) + 1 /\ asks'[w][i].alert = n
  BY <1>3, <1>4 DEF Responds, Continues
<1>7. OneAnswerAtATime'
  <2>1. \A v \in Windows \ {w} : asks'[v] = asks[v] /\ wire'[v] = wire[v] /\ box'[v] = box[v]
    BY <1>1, <1>2, <1>3
  <2>2. \A i \in DOMAIN wire'[w] : ~Acks(wire'[w][i])
    BY <1>1, <1>4
  <2> QED BY <1>1, <1>2, <1>6, <2>1, <2>2 DEF Answering, OneAnswerAtATime, OneAnswer, Responds, Acks
<1> QED BY <1>2, <1>3, <1>5, <1>7 DEF Answering, AnswersKept

LEMMA AnswerStep ==
  ASSUME Desk, Answering, NEW w \in Windows, NEW n \in Alerts, NEW status \in Answers, Answer(w, n, status)
  PROVE  Desk' /\ Answering'
<1>1. /\ n \in open[w] /\ UNCHANGED viewVars /\ UNCHANGED <<alert, tracker>>
      /\ open' = [open EXCEPT ![w] = @ \ {n}]
      /\ box' = [box EXCEPT ![w][n] = status]
      /\ said' = [said EXCEPT ![w][n] = status]
      /\ overtaken' = [overtaken EXCEPT ![w] = @ \ {n}]
  BY DEF Answer
<1>2. /\ overtaken \in [Windows -> SUBSET Alerts]
      /\ open \in [Windows -> SUBSET Alerts]
      /\ box \in [Windows -> [Alerts -> Answers \cup {None, "FAILED"}]]
      /\ said \in [Windows -> [Alerts -> Answers \cup {None}]]
  BY DEF Desk, AboutAlerts
<1>3. /\ overtaken' \in [Windows -> SUBSET Alerts]
      /\ open' \in [Windows -> SUBSET Alerts]
      /\ box' \in [Windows -> [Alerts -> Answers \cup {None, "FAILED"}]]
      /\ said' \in [Windows -> [Alerts -> Answers \cup {None}]]
  BY <1>1, <1>2
<1>4. AboutAlerts'
  BY <1>1, <1>3 DEF Desk, AboutAlerts
<1>5. Desk' /\ UNCHANGED scene /\ KeepsAsks /\ KeepsWire
  <2>1. UNCHANGED <<scene, version, changes, handlers, conn, asks, wire, dirty, view, warned, faults>>
    BY <1>1 DEF viewVars
  <2> QED BY <1>4, <2>1, Unmoved DEF Desk, Idle
<1>6. /\ box'[w][n] = status /\ said'[w][n] = status /\ n \notin open'[w]
      /\ \A v \in Windows, k \in Alerts : v # w \/ k # n =>
           /\ box'[v][k] = box[v][k] /\ said'[v][k] = said[v][k]
           /\ k \in open'[v] <=> k \in open[v]
  BY <1>1, <1>2
<1>7. box[w][n] = None /\ None \notin Answers
  BY <1>1 DEF Answering, AnswersKept, None, Answers
<1>8. OneAnswerAtATime'
  <2>1. \A v \in Windows : AcksKept(wire[v], wire'[v])
    BY <1>5, QuietKeepsAcks DEF Quiet
  <2>2. \A v \in Windows : \A i \in DOMAIN asks'[v] : Responds(asks'[v][i]) => asks'[v][i].alert \in Alerts
    BY <1>5, UnpackedNext DEF Responds, AboutAlert
  <2>3. \A v \in Windows : \A i \in DOMAIN wire'[v] : Acks(wire'[v][i]) => wire'[v][i].alert \in Alerts
    BY <1>5, UnpackedNext DEF Acks
  <2>4. \A v \in Windows, k \in Alerts : box'[v][k] = box[v][k] \/ box[v][k] \notin Answers
    BY <1>6, <1>7
  <2>5. \A k \in Alerts : alert'[k] = alert[k] \/ alert[k] \notin Answers
    BY <1>1
  <2> QED BY <1>5, <2>1, <2>2, <2>3, <2>4, <2>5, StillOneAnswer DEF Answering
<1>9. OneAlertAtATime'
  <2>1. \A k : alert[k] = None => alert'[k] = None
    BY <1>1
  <2> QED BY <1>5, <2>1, StillOneAlert DEF Answering
<1>10. AnswersKept'
  <2> SUFFICES ASSUME NEW v \in Windows, NEW k \in Alerts
               PROVE  /\ box'[v][k] # None => k \notin open'[v] /\ said'[v][k] # None
                      /\ box'[v][k] \in Answers => said'[v][k] = box'[v][k]
                      /\ said'[v][k] # None => said'[v][k] = alert'[k] \/ box'[v][k] # None
    BY DEF AnswersKept
  <2>1. CASE v = w /\ k = n
    BY <1>6, <1>7, <2>1
  <2>2. CASE v # w \/ k # n
    BY <1>1, <1>6, <2>2 DEF Answering, AnswersKept
  <2> QED BY <2>1, <2>2
<1> QED BY <1>5, <1>8, <1>9, <1>10 DEF Answering

LEMMA CreateStep ==
  ASSUME Desk, Answering, NEW w \in Windows, Create(w)
  PROVE  /\ Desk' /\ Answering' /\ UNCHANGED <<scene, conn, warned, open, box, tracker, said, overtaken>>
         /\ \A v \in Windows : AsksKept(asks[v], asks'[v])
         /\ \E i, n, message, reply :
              /\ i \in Handled(w) /\ n \in Alerts
              /\ asks[w][i].request = "notify" /\ asks[w][i].alert = n
              /\ Without(asks[w], i, asks'[w]) /\ \A v \in Windows \ {w} : asks'[v] = asks[v]
              /\ alert[n] = None /\ alert' = [alert EXCEPT ![n] = "PENDING"]
              /\ message.msg = "alert" /\ message.alert = n /\ reply.msg = "sent" /\ reply.alert = n
              /\ wire'[w] = Append(wire[w], reply)
              /\ \A v \in Windows \ {w} :
                   \/ wire'[v] = wire[v] /\ (v \notin Heads \/ conn[v] = "down")
                   \/ wire'[v] = Append(wire[v], message) /\ v \in Heads /\ conn[v] # "down"
<1>1. PICK i \in Handled(w) :
        LET n == asks[w][i].alert
        IN /\ asks[w][i].request = "notify"
           /\ alert' = [alert EXCEPT ![n] = "PENDING"]
           /\ wire' = SentTo(Heads, [msg |-> "alert", alert |-> n], w, [msg |-> "sent", alert |-> n])
           /\ asks' = [asks EXCEPT ![w] = RemoveAt(@, i)]
  BY DEF Create
<1>2. /\ UNCHANGED <<scene, version, changes, handlers, conn, dirty, view, warned, faults>>
      /\ UNCHANGED <<open, box, tracker, said, overtaken>>
  BY DEF Create
<1> DEFINE n == asks[w][i].alert
           message == [msg |-> "alert", alert |-> n]
           reply == [msg |-> "sent", alert |-> n]
<1>3. /\ i \in DOMAIN asks[w] /\ n \in Alerts /\ Panel(w) = "coo" /\ conn[w] = "up"
      /\ Notifies(asks[w][i]) /\ alert[n] = None
  BY <1>1, AlertRequest DEF Notifies, Answering, OneAlertAtATime
<1>4. message.msg = "alert" /\ message.alert = n /\ reply.msg = "sent" /\ reply.alert = n
  OBVIOUS
<1>5. alert' = [alert EXCEPT ![n] = "PENDING"] /\ wire' = SentTo(Heads, message, w, reply)
  BY <1>1
<1>6. /\ asks' = [asks EXCEPT ![w] = RemoveAt(@, i)] /\ asks[w][i].request = "notify"
  BY <1>1
<1> HIDE DEF message, reply
<1>7. /\ \A p : IsMessage(message, p)
      /\ IsMessage(reply, Panel(w)) /\ message.msg \in Early /\ ~Acks(message) /\ ~Acks(reply)
  BY <1>3, <1>4 DEF IsMessage, Early, Acks
<1>8. /\ AboutAlerts' /\ alert'[n] = "PENDING" /\ \A k \in Alerts \ {n} : alert'[k] = alert[k]
  <2>1. alert \in [Alerts -> Statuses \cup {None}]
    BY DEF Desk, AboutAlerts
  <2> HIDE DEF n
  <2>2. /\ alert' \in [Alerts -> Statuses \cup {None}]
        /\ alert'[n] = "PENDING" /\ \A k \in Alerts \ {n} : alert'[k] = alert[k]
    BY <1>3, <1>5, <2>1 DEF Statuses
  <2> QED BY <1>2, <2>2 DEF Desk, AboutAlerts
<1>9. /\ Desk' /\ KeepsAsks /\ Without(asks[w], i, asks'[w])
      /\ \A v \in Windows \ {w} : asks'[v] = asks[v]
      /\ wire'[w] = Append(wire[w], reply)
      /\ \A v \in Windows \ {w} :
           \/ wire'[v] = wire[v] /\ (v \notin Heads \/ conn[v] = "down")
           \/ wire'[v] = Append(wire[v], message) /\ v \in Heads /\ conn[v] # "down"
  <2> HIDE DEF n
  <2>1. AtOnce(w, i, Heads, message, reply)
    BY <1>2, <1>5, <1>6, <1>7 DEF AtOnce
  <2> QED BY <1>8, <2>1, SentAtOnce
<1>10. OneAnswerAtATime'
  <2>1. \A v \in Windows : AcksKept(wire[v], wire'[v])
    <3> TAKE v \in Windows
    <3>1. IsList(wire[v])
      BY Unpacked
    <3>2. wire'[v] = wire[v] \/ \E m : ~Acks(m) /\ wire'[v] = Append(wire[v], m)
      BY <1>7, <1>9
    <3> QED BY <3>1, <3>2, AcksKeptBy
  <2>2. \A v \in Windows : \A j \in DOMAIN asks'[v] : Responds(asks'[v][j]) => asks'[v][j].alert \in Alerts
    BY <1>2, <1>9, UnpackedNext DEF Responds, AboutAlert
  <2>3. \A v \in Windows : \A j \in DOMAIN wire'[v] : Acks(wire'[v][j]) => wire'[v][j].alert \in Alerts
    BY <1>2, <1>9, UnpackedNext DEF Acks
  <2>4. \A v \in Windows, k \in Alerts : box'[v][k] = box[v][k] \/ box[v][k] \notin Answers
    BY <1>2
  <2>5. \A k \in Alerts : alert'[k] = alert[k] \/ alert[k] \notin Answers
    BY <1>3, <1>8 DEF None, Answers
  <2> QED BY <1>2, <1>9, <2>1, <2>2, <2>3, <2>4, <2>5, StillOneAnswer DEF Answering
<1>11. OneAlertAtATime'
  <2>1. ASSUME NEW v \in Windows, NEW j \in DOMAIN asks'[v] PROVE ~Notifies(asks'[v][j])
    <3>1. CASE v = w
      <4>1. /\ IsList(asks[w]) /\ i \in Nat /\ IsList(asks'[w])
        BY <1>3, Unpacked, Listed, UnpackedNext, <1>2, <1>9
      <4>2. /\ j \in Nat
            /\ j < i => j \in DOMAIN asks[w] /\ asks'[w][j] = asks[w][j]
            /\ j >= i => j + 1 \in DOMAIN asks[w] /\ asks'[w][j] = asks[w][j + 1]
        BY <1>3, <1>9, <2>1, <3>1, <4>1, Remaining
      <4>3. PICK k \in DOMAIN asks[w] : k # i /\ asks'[w][j] = asks[w][k]
        BY <4>1, <4>2
      <4> QED BY <1>3, <3>1, <4>3 DEF Answering, OneAlertAtATime
    <3>2. CASE v # w
      BY <1>3, <1>9, <3>2 DEF Answering, OneAlertAtATime
    <3> QED BY <3>1, <3>2
  <2> QED BY <2>1 DEF OneAlertAtATime, Notifies
<1>12. AnswersKept'
  <2>1. \A v \in Windows : said[v][n] # None => box[v][n] # None
    BY <1>3 DEF Answering, AnswersKept
  <2> HIDE DEF n
  <2> QED BY <1>2, <1>3, <1>8, <2>1 DEF Answering, AnswersKept
<1>13. Desk' /\ Answering'
  BY <1>9, <1>10, <1>11, <1>12 DEF Answering
<1>14. /\ asks[w][i].request = "notify" /\ asks[w][i].alert = n
       /\ Without(asks[w], i, asks'[w]) /\ \A v \in Windows \ {w} : asks'[v] = asks[v]
       /\ alert[n] = None /\ alert' = [alert EXCEPT ![n] = "PENDING"]
       /\ message.msg = "alert" /\ message.alert = n /\ reply.msg = "sent" /\ reply.alert = n
       /\ wire'[w] = Append(wire[w], reply)
       /\ \A v \in Windows \ {w} :
            \/ wire'[v] = wire[v] /\ (v \notin Heads \/ conn[v] = "down")
            \/ wire'[v] = Append(wire[v], message) /\ v \in Heads /\ conn[v] # "down"
  BY <1>3, <1>4, <1>5, <1>6, <1>9
<1>15. n \in Alerts
  BY <1>3
<1> HIDE DEF n
<1> QED BY <1>2, <1>9, <1>13, <1>14, <1>15 DEF KeepsAsks

\* What storing or refusing an answer does: the request is done with, the acknowledgement is
\* sent, and the COOs hear of an answer that stands.
Responded(w, i, n, message, reply, ws) ==
  /\ i \in Handled(w) /\ n \in Alerts
  /\ asks[w][i].request = "respond" /\ asks[w][i].alert = n /\ box[w][n] \in Answers
  /\ Without(asks[w], i, asks'[w]) /\ \A v \in Windows \ {w} : asks'[v] = asks[v]
  /\ message.msg = "answered" /\ message.alert = n /\ message.status = box[w][n]
  /\ reply.msg = "ack" /\ reply.alert = n
  /\ \/ ws = Coos /\ alert[n] \in {"PENDING", box[w][n]} /\ alert' = [alert EXCEPT ![n] = box[w][n]]
     \/ ws = {} /\ alert[n] \notin {"PENDING", box[w][n]} /\ UNCHANGED alert
  /\ wire'[w] = Append(wire[w], reply)
  /\ \A v \in Windows \ {w} :
       \/ wire'[v] = wire[v] /\ (v \notin ws \/ conn[v] = "down")
       \/ wire'[v] = Append(wire[v], message) /\ v \in ws /\ conn[v] # "down"

LEMMA RespondStep ==
  ASSUME Desk, Answering, NEW w \in Windows, Respond(w)
  PROVE  /\ Desk' /\ Answering' /\ UNCHANGED <<scene, conn, warned, open, box, tracker, said, overtaken>>
         /\ KeepsAsks
         /\ \E i, n, message, reply, ws : Responded(w, i, n, message, reply, ws)
<1>1. PICK i \in Handled(w) :
       LET n      == asks[w][i].alert
           status == box[w][n]
           ack(ok) == [msg |-> "ack", alert |-> n, ok |-> ok]
           event   == [msg |-> "answered", alert |-> n, status |-> status]
       IN /\ asks[w][i].request = "respond"
          /\ IF Accepts(n, status)
             THEN /\ alert' = [alert EXCEPT ![n] = status]
                  /\ wire' = SentTo(Coos, event, w, ack(TRUE))
             ELSE /\ wire' = SentTo({}, event, w, ack(FALSE))
                  /\ UNCHANGED alert
          /\ asks' = [asks EXCEPT ![w] = RemoveAt(@, i)]
  BY DEF Respond
<1>2. /\ UNCHANGED <<scene, version, changes, handlers, conn, dirty, view, warned, faults>>
      /\ UNCHANGED <<open, box, tracker, said, overtaken>>
  BY DEF Respond
<1> DEFINE n == asks[w][i].alert
           status == box[w][n]
           message == [msg |-> "answered", alert |-> n, status |-> status]
           reply(ok) == [msg |-> "ack", alert |-> n, ok |-> ok]
<1>3. /\ i \in DOMAIN asks[w] /\ n \in Alerts /\ conn[w] = "up"
      /\ Responds(asks[w][i]) /\ status \in Answers /\ asks[w][i].request = "respond"
  BY <1>1, AlertRequest DEF Responds, Answering, OneAnswerAtATime, OneAnswer
<1>4. PICK ok, ws :
        /\ wire' = SentTo(ws, message, w, reply(ok))
        /\ asks' = [asks EXCEPT ![w] = RemoveAt(@, i)]
        /\ \/ ok = TRUE /\ ws = Coos /\ Accepts(n, status) /\ alert' = [alert EXCEPT ![n] = status]
           \/ ok = FALSE /\ ws = {} /\ ~Accepts(n, status) /\ UNCHANGED alert
  <2>1. CASE Accepts(n, status)
    BY <1>1, <2>1
  <2>2. CASE ~Accepts(n, status)
    BY <1>1, <2>2
  <2> QED BY <2>1, <2>2
<1> DEFINE ack == reply(ok)
<1>5. /\ message.msg = "answered" /\ message.alert = n /\ message.status = status
      /\ ack.msg = "ack" /\ ack.alert = n /\ ack.ok = ok /\ ok \in BOOLEAN
  BY <1>4
<1>6. wire' = SentTo(ws, message, w, ack)
  BY <1>4
<1> HIDE DEF message, reply, ack
<1>7. /\ \A p : IsMessage(message, p) /\ IsMessage(ack, p)
      /\ message.msg \in Early /\ ~Acks(message)
  BY <1>3, <1>5 DEF IsMessage, Early, Acks
<1>8. AtOnce(w, i, ws, message, ack)
  BY <1>2, <1>4, <1>6, <1>7 DEF AtOnce
<1> HIDE DEF n
<1>9. /\ AboutAlerts' /\ \A k \in Alerts \ {n} : alert'[k] = alert[k]
      /\ \/ ok = TRUE /\ ws = Coos /\ alert[n] \in {"PENDING", status} /\ alert'[n] = status
         \/ ok = FALSE /\ ws = {} /\ alert[n] \notin {"PENDING", status} /\ alert'[n] = alert[n]
  <2>1. alert \in [Alerts -> Statuses \cup {None}]
    BY DEF Desk, AboutAlerts
  <2> HIDE DEF status
  <2>2. CASE ok = TRUE /\ ws = Coos /\ Accepts(n, status) /\ alert' = [alert EXCEPT ![n] = status]
    <3>1. /\ alert' \in [Alerts -> Statuses \cup {None}]
          /\ alert'[n] = status /\ \A k \in Alerts \ {n} : alert'[k] = alert[k]
      BY <1>3, <2>1, <2>2 DEF Statuses
    <3> QED BY <1>2, <2>2, <3>1 DEF Desk, AboutAlerts, Accepts
  <2>3. CASE ok = FALSE /\ ws = {} /\ ~Accepts(n, status) /\ UNCHANGED alert
    BY <1>2, <2>1, <2>3 DEF Desk, AboutAlerts, Accepts
  <2> QED BY <1>4, <2>2, <2>3
<1>10. /\ Desk' /\ KeepsAsks /\ Without(asks[w], i, asks'[w])
       /\ \A v \in Windows \ {w} : asks'[v] = asks[v]
       /\ wire'[w] = Append(wire[w], ack)
       /\ \A v \in Windows \ {w} :
            \/ wire'[v] = wire[v] /\ (v \notin ws \/ conn[v] = "down")
            \/ wire'[v] = Append(wire[v], message) /\ v \in ws /\ conn[v] # "down"
  BY <1>8, <1>9, SentAtOnce
<1>11. \A k \in Alerts : alert'[k] = alert[k] \/ alert[k] \notin Answers
  BY <1>9 DEF Answers
<1>12. OneAnswerAtATime'
  <2>1. ASSUME NEW v \in Windows \ {w} PROVE OneAnswer(v)'
    <3>1. IsList(wire[v]) /\ IsList(asks[v]) /\ OneAnswer(v)
      BY Unpacked DEF Answering, OneAnswerAtATime
    <3>2. wire'[v] = wire[v] \/ \E m : ~Acks(m) /\ wire'[v] = Append(wire[v], m)
      BY <1>7, <1>10
    <3>3. AcksKept(wire[v], wire'[v])
      BY <3>1, <3>2, AcksKeptBy
    <3>4. \A j \in DOMAIN asks'[v] : Responds(asks'[v][j]) => asks'[v][j].alert \in Alerts
      BY <1>2, <1>10, UnpackedNext DEF Responds, AboutAlert
    <3>5. \A j \in DOMAIN wire'[v] : Acks(wire'[v][j]) => wire'[v][j].alert \in Alerts
      BY <1>2, <1>10, UnpackedNext DEF Acks
    <3>6. \A k \in Alerts : box'[v][k] = box[v][k] \/ box[v][k] \notin Answers
      BY <1>2
    <3> QED BY <1>10, <1>11, <3>1, <3>3, <3>4, <3>5, <3>6, StillOneAnswerOf DEF KeepsAsks
  <2>2. OneAnswer(w)
    BY DEF Answering, OneAnswerAtATime
  <2>3. \A j \in DOMAIN asks'[w] : ~Responds(asks'[w][j])
    <3> TAKE j \in DOMAIN asks'[w]
    <3>1. /\ IsList(asks[w]) /\ i \in Nat /\ IsList(asks'[w])
      BY <1>3, Unpacked, Listed, UnpackedNext, <1>2, <1>10
    <3>2. /\ j \in Nat
          /\ j < i => j \in DOMAIN asks[w] /\ asks'[w][j] = asks[w][j]
          /\ j >= i => j + 1 \in DOMAIN asks[w] /\ asks'[w][j] = asks[w][j + 1]
      BY <1>3, <1>10, <3>1, Remaining
    <3>3. PICK k \in DOMAIN asks[w] : k # i /\ asks'[w][j] = asks[w][k]
      BY <3>1, <3>2
    <3> QED BY <1>3, <2>2, <3>3 DEF OneAnswer
  <2>4. /\ Continues(wire[w], wire'[w])
        /\ \A j \in DOMAIN wire'[w] : Acks(wire'[w][j]) => j = Len(wire[w]) + 1 /\ wire'[w][j] = ack
    <3>1. /\ Continues(wire[w], wire'[w]) /\ Len(wire'[w]) = Len(wire[w]) + 1
          /\ wire'[w][Len(wire[w]) + 1] = ack
      BY <1>10, Unpacked, Appended
    <3>2. /\ DOMAIN wire'[w] = 1..Len(wire'[w]) /\ DOMAIN wire[w] = 1..Len(wire[w])
          /\ Len(wire[w]) \in Nat
      BY <3>1, Unpacked, Listed DEF Continues
    <3>3. \A j \in DOMAIN wire'[w] : j \in DOMAIN wire[w] \/ j = Len(wire[w]) + 1
      BY <3>1, <3>2
    <3>4. \A j \in DOMAIN wire[w] : ~Acks(wire'[w][j])
      BY <1>3, <2>2, <3>1 DEF OneAnswer, Continues
    <3> QED BY <3>1, <3>3, <3>4
  <2>5. box'[w][n] \in Answers /\ (ok => alert'[n] = box'[w][n])
    BY <1>2, <1>3, <1>9
  <2>6. OneAnswer(w)'
    BY <1>5, <2>3, <2>4, <2>5 DEF OneAnswer, Responds, Acks
  <2>7. \A v \in Windows : OneAnswer(v)'
    BY <2>1, <2>6
  <2> QED BY <2>7 DEF OneAnswerAtATime
<1>13. OneAlertAtATime'
  <2>1. ASSUME NEW k, alert[k] = None PROVE alert'[k] = None
    <3>1. CASE alert' = [alert EXCEPT ![n] = status] /\ alert[n] \in {"PENDING", status}
      <4>1. k # n
        BY <1>3, <2>1, <3>1 DEF Answers, None
      <4> QED BY <2>1, <3>1, <4>1
    <3> QED BY <1>4, <2>1, <3>1 DEF Accepts
  <2> QED BY <1>2, <1>10, <2>1, StillOneAlert DEF Answering
<1>14. AnswersKept'
  <2>1. \A v \in Windows : said[v][n] # "PENDING"
    BY <1>3 DEF Desk, AboutAlerts, Answers, None
  <2> SUFFICES ASSUME NEW v \in Windows, NEW k \in Alerts
               PROVE  /\ box'[v][k] # None => k \notin open'[v] /\ said'[v][k] # None
                      /\ box'[v][k] \in Answers => said'[v][k] = box'[v][k]
                      /\ said'[v][k] # None => said'[v][k] = alert'[k] \/ box'[v][k] # None
    BY DEF AnswersKept
  <2> HIDE DEF status
  <2>2. said'[v][k] # None => said'[v][k] = alert'[k] \/ box'[v][k] # None
    BY <1>2, <1>9, <2>1 DEF Answering, AnswersKept
  <2> QED BY <1>2, <2>2 DEF Answering, AnswersKept
<1>15. Desk' /\ Answering'
  BY <1>10, <1>12, <1>13, <1>14 DEF Answering
<1>16. /\ asks[w][i].request = "respond" /\ asks[w][i].alert = n /\ box[w][n] \in Answers
       /\ Without(asks[w], i, asks'[w]) /\ \A v \in Windows \ {w} : asks'[v] = asks[v]
       /\ message.msg = "answered" /\ message.alert = n /\ message.status = box[w][n]
       /\ ack.msg = "ack" /\ ack.alert = n
       /\ \/ ws = Coos /\ alert[n] \in {"PENDING", box[w][n]} /\ alert' = [alert EXCEPT ![n] = box[w][n]]
          \/ ws = {} /\ alert[n] \notin {"PENDING", box[w][n]} /\ UNCHANGED alert
       /\ wire'[w] = Append(wire[w], ack)
       /\ \A v \in Windows \ {w} :
            \/ wire'[v] = wire[v] /\ (v \notin ws \/ conn[v] = "down")
            \/ wire'[v] = Append(wire[v], message) /\ v \in ws /\ conn[v] # "down"
  BY <1>3, <1>4, <1>5, <1>10 DEF n, Accepts
<1>17. n \in Alerts
  BY <1>3
<1> HIDE DEF status
<1>18. Responded(w, i, n, message, ack, ws)
  BY <1>2, <1>16, <1>17 DEF Responded
<1> QED BY <1>2, <1>10, <1>15, <1>18

\* A window shows an alert when it has neither a dialog nor an answer for it.
LEMMA Showing ==
  ASSUME Desk, NEW w \in Windows, NEW m, Shows(w, m)
  PROVE  /\ UNCHANGED <<alert, box, said>>
         /\ \A v \in Windows \ {w} : open'[v] = open[v] /\ tracker'[v] = tracker[v]
         /\ \A n \in open[w] : n \in open'[w]
         /\ \A n \in open'[w] : \/ n \in open[w]
                                \/ /\ box[w][n] = None /\ m.msg = "reply" /\ m.request = "snapshot"
                                   /\ m.data["alerts"][n] = "PENDING"
         /\ m.msg = "reply" /\ m.request = "snapshot" =>
              \A n \in Alerts : m.data["alerts"][n] = "PENDING" => n \in open'[w] \/ box[w][n] # None
         /\ \/ tracker'[w] = tracker[w] /\ ~(m.msg = "reply" /\ m.request = "alerts")
            \/ m.msg = "reply" /\ m.request = "alerts" /\ tracker'[w] = m.data["alerts"]
<1>1. /\ open \in [Windows -> SUBSET Alerts] /\ DOMAIN tracker = Windows
  BY DEF Desk, AboutAlerts
<1>2. /\ UNCHANGED <<alert, box, said>>
      /\ tracker' = IF m.msg = "reply" /\ m.request = "alerts"
                    THEN [tracker EXCEPT ![w] = m.data["alerts"]] ELSE tracker
  BY DEF Shows
<1>3. /\ \A v \in Windows \ {w} : tracker'[v] = tracker[v]
      /\ \/ tracker'[w] = tracker[w] /\ ~(m.msg = "reply" /\ m.request = "alerts")
         \/ m.msg = "reply" /\ m.request = "alerts" /\ tracker'[w] = m.data["alerts"]
  BY <1>1, <1>2
<1>4. CASE m.msg = "reply" /\ m.request = "snapshot"
  <2> DEFINE new == {n \in PendingIn(m.data["alerts"]) : ToShow(w, n)}
  <2>1. open' = [open EXCEPT ![w] = @ \cup new]
    BY <1>4 DEF Shows
  <2>2. /\ \A n \in new : n \in Alerts /\ box[w][n] = None /\ m.data["alerts"][n] = "PENDING"
        /\ \A n \in Alerts : m.data["alerts"][n] = "PENDING" => n \in new \/ n \in open[w] \/ box[w][n] # None
    BY DEF PendingIn, ToShow
  <2> HIDE DEF new
  <2>3. open'[w] = open[w] \cup new /\ \A v \in Windows \ {w} : open'[v] = open[v]
    BY <1>1, <2>1
  <2> QED BY <1>2, <1>3, <1>4, <2>2, <2>3
<1>5. CASE ~(m.msg = "reply" /\ m.request = "snapshot")
  BY <1>2, <1>3, <1>5 DEF Shows
<1> QED BY <1>4, <1>5

LEMMA AcksOfWires ==
  ASSUME Desk, NEW w \in Windows,
         \/ \E i \in DOMAIN wire[w] : Without(wire[w], i, wire'[w])
         \/ \E m : wire'[w] = Append(wire[w], m) /\ ~Acks(m),
         \A v \in Windows \ {w} : wire'[v] = wire[v]
  PROVE  \A v \in Windows : AcksKept(wire[v], wire'[v])
<1>1. \A v \in Windows : IsList(wire[v])
  BY Unpacked
<1>2. AcksKept(wire[w], wire'[w]) /\ \A v \in Windows : AcksKept(wire[v], wire[v])
  BY <1>1, AcksKeptBy
<1> QED BY <1>2

LEMMA ShowStep ==
  ASSUME Desk, Answering, NEW w \in Windows, NEW i \in DOMAIN wire[w], Take(w, i), Shows(w, wire[w][i])
  PROVE  Desk' /\ Answering'
<1>1. Desk' /\ UNCHANGED scene /\ KeepsAsks
  BY TakeStep
<1>2. \A v \in Windows : AcksKept(wire[v], wire'[v])
  BY TakeStep, AcksOfWires
<1>3. UNCHANGED <<alert, box, said>>
  BY Showing
<1>4. \A v \in Windows, n \in Alerts : n \in open'[v] => n \in open[v] \/ box[v][n] = None
  BY Showing
<1> QED BY <1>1, <1>2, <1>3, <1>4, StillAnswering

LEMMA LoadStep ==
  ASSUME Desk, Answering, NEW w \in Windows, Desk', UNCHANGED scene, KeepsAsks, Loaded(w)
  PROVE  Answering'
<1>1. PICK m : /\ m.msg = "reply" /\ wire'[w] = Append(wire[w], m)
               /\ \A v \in Windows \ {w} : wire'[v] = wire[v]
               /\ UNCHANGED alertVars
  BY DEF Loaded
<1>2. \A v \in Windows : AcksKept(wire[v], wire'[v])
  BY <1>1, AcksOfWires DEF Acks
<1>3. UNCHANGED <<alert, box, said, open>>
  BY <1>1 DEF alertVars
<1> QED BY <1>2, <1>3, StillAnswering

LEMMA ReopenStep ==
  ASSUME Desk, Answering, NEW w \in Windows, Desk', Quiet, Reopened(w)
  PROVE  Answering'
<1>1. \A v \in Windows : AcksKept(wire[v], wire'[v])
  BY QuietKeepsAcks
<1>2. UNCHANGED <<alert, box, said>> /\ open' = [open EXCEPT ![w] = {}]
  BY DEF Reopened
<1>3. \A v \in Windows, n \in Alerts : n \in open'[v] => n \in open[v]
  BY <1>2 DEF Desk, AboutAlerts
<1> QED BY <1>1, <1>2, <1>3, StillAnswering DEF Quiet

\* The answer that was on the way is confirmed, or refused.
LEMMA ConfirmedStep ==
  ASSUME Desk, Answering, NEW w \in Windows, NEW i \in DOMAIN wire[w],
         wire[w][i].msg = "ack", TakeAboutAlert(w, i)
  PROVE  Answering'
<1> DEFINE n == wire[w][i].alert
<1>1. /\ UNCHANGED <<scene, alert, said, open>> /\ n \in Alerts /\ wire[w][i].ok \in BOOLEAN
      /\ box' = [box EXCEPT ![w][n] = IF wire[w][i].ok THEN None ELSE "FAILED"]
  <2>1. TakeAck(w, i) /\ UNCHANGED <<scene, alert, said>> /\ n \in Alerts /\ wire[w][i].ok \in BOOLEAN
    BY TakingAboutAlert
  <2> QED BY <2>1, Zenon DEF TakeAck
<1>2. /\ Desk' /\ KeepsAsks
      /\ Without(wire[w], i, wire'[w]) /\ \A v \in Windows \ {w} : wire'[v] = wire[v]
  BY TakeAboutAlertStep
<1>3. OneAnswer(w) /\ Acks(wire[w][i])
  BY DEF Answering, OneAnswerAtATime, Acks
<1>4. box[w][n] \in Answers /\ (wire[w][i].ok => alert[n] = box[w][n])
  BY <1>3 DEF OneAnswer
<1> HIDE DEF n
<1>5. /\ box'[w][n] = IF wire[w][i].ok THEN None ELSE "FAILED"
      /\ \A v \in Windows, k \in Alerts : v # w \/ k # n => box'[v][k] = box[v][k]
  BY <1>1 DEF Desk, AboutAlerts
<1>6. \A j \in DOMAIN wire'[w] : ~Acks(wire'[w][j])
  <2> TAKE j \in DOMAIN wire'[w]
  <2>1. /\ IsList(wire[w]) /\ i \in Nat
    BY Unpacked, Listed
  <2>2. /\ j \in Nat
        /\ j < i => j \in DOMAIN wire[w] /\ wire'[w][j] = wire[w][j]
        /\ j >= i => j + 1 \in DOMAIN wire[w] /\ wire'[w][j] = wire[w][j + 1]
    BY <1>2, <2>1, Remaining
  <2>3. PICK k \in DOMAIN wire[w] : k # i /\ wire'[w][j] = wire[w][k]
    BY <2>1, <2>2
  <2> QED BY <1>3, <2>3 DEF OneAnswer
<1>7. \A j \in DOMAIN asks'[w] : ~Responds(asks'[w][j])
  <2> TAKE j \in DOMAIN asks'[w]
  <2>1. AboutAlert(asks'[w][j]) => \E k \in DOMAIN asks[w] : asks[w][k] = asks'[w][j]
    BY <1>2 DEF KeepsAsks, AsksKept
  <2>2. Responds(asks'[w][j]) => AboutAlert(asks'[w][j])
    BY DEF Responds, AboutAlert
  <2> QED BY <1>3, <2>1, <2>2 DEF OneAnswer
<1>8. OneAnswerAtATime'
  <2>1. OneAnswer(w)'
    BY <1>6, <1>7 DEF OneAnswer, Responds, Acks
  <2>2. ASSUME NEW v \in Windows \ {w} PROVE OneAnswer(v)'
    <3>1. OneAnswer(v) /\ AsksKept(asks[v], asks'[v])
      BY <1>2 DEF Answering, OneAnswerAtATime, KeepsAsks
    <3>2. AcksKept(wire[v], wire'[v])
      BY <1>2, AcksOfWires
    <3>3. \A j \in DOMAIN asks'[v] : Responds(asks'[v][j]) => asks'[v][j].alert \in Alerts
      BY <1>1, <1>2, UnpackedNext DEF Responds, AboutAlert
    <3>4. \A j \in DOMAIN wire'[v] : Acks(wire'[v][j]) => wire'[v][j].alert \in Alerts
      BY <1>1, <1>2, UnpackedNext DEF Acks
    <3>5. \A k \in Alerts : box'[v][k] = box[v][k] \/ box[v][k] \notin Answers
      BY <1>5
    <3>6. \A k \in Alerts : alert'[k] = alert[k] \/ alert[k] \notin Answers
      BY <1>1
    <3> QED BY <3>1, <3>2, <3>3, <3>4, <3>5, <3>6, StillOneAnswerOf
  <2>3. \A v \in Windows : OneAnswer(v)'
    BY <2>1, <2>2
  <2> QED BY <2>3 DEF OneAnswerAtATime
<1>9. OneAlertAtATime'
  <2>1. \A k : alert[k] = None => alert'[k] = None
    BY <1>1
  <2> QED BY <1>1, <1>2, <2>1, StillOneAlert DEF Answering
<1>10. AnswersKept'
  <2> SUFFICES ASSUME NEW v \in Windows, NEW k \in Alerts
               PROVE  /\ box'[v][k] # None => k \notin open'[v] /\ said'[v][k] # None
                      /\ box'[v][k] \in Answers => said'[v][k] = box'[v][k]
                      /\ said'[v][k] # None => said'[v][k] = alert'[k] \/ box'[v][k] # None
    BY DEF AnswersKept
  <2>1. CASE v = w /\ k = n
    <3>1. /\ box[w][n] # None /\ None \notin Answers /\ "FAILED" \notin Answers /\ "FAILED" # None
      BY <1>4 DEF None, Answers
    <3> QED BY <1>1, <1>4, <1>5, <2>1, <3>1 DEF Answering, AnswersKept
  <2>2. CASE v # w \/ k # n
    BY <1>1, <1>5, <2>2 DEF Answering, AnswersKept
  <2> QED BY <2>1, <2>2
<1> QED BY <1>8, <1>9, <1>10 DEF Answering

\* The other messages about alerts.
LEMMA HeardStep ==
  ASSUME Desk, Answering, NEW w \in Windows, NEW i \in DOMAIN wire[w],
         wire[w][i].msg # "ack", TakeAboutAlert(w, i)
  PROVE  Answering'
<1>1. UNCHANGED <<scene, alert, said, box>>
  <2>1. /\ wire[w][i].msg \in {"alert", "answered", "sent"} /\ UNCHANGED <<scene, alert, said>>
        /\ wire[w][i].msg = "alert" => TakeAlert(w, i)
        /\ wire[w][i].msg = "answered" => TakeAnswered(w, i)
        /\ wire[w][i].msg = "sent" => TakeSent(w, i)
    BY TakingAboutAlert
  <2> QED BY <2>1 DEF TakeAlert, TakeAnswered, TakeSent
<1>2. \A v \in Windows, n \in Alerts : n \in open'[v] => n \in open[v] \/ box[v][n] = None
  <2>1. \/ UNCHANGED open
        \/ /\ open' = [open EXCEPT ![w] = @ \cup {wire[w][i].alert}]
           /\ ToShow(w, wire[w][i].alert)
    <3>1. /\ wire[w][i].msg \in {"alert", "answered", "sent"}
          /\ wire[w][i].msg = "alert" => TakeAlert(w, i)
          /\ wire[w][i].msg = "answered" => TakeAnswered(w, i)
          /\ wire[w][i].msg = "sent" => TakeSent(w, i)
      BY TakingAboutAlert
    <3> QED BY <3>1 DEF TakeAlert, TakeAnswered, TakeSent
  <2>2. open \in [Windows -> SUBSET Alerts]
    BY DEF Desk, AboutAlerts
  <2> QED BY <2>1, <2>2 DEF ToShow
<1>3. Desk' /\ KeepsAsks /\ \A v \in Windows : AcksKept(wire[v], wire'[v])
  BY TakeAboutAlertStep, AcksOfWires
<1> QED BY <1>1, <1>2, <1>3, StillAnswering

LEMMA AnsweringStep ==
  ASSUME Desk, Answering, [AlertsNext]_alertsVars
  PROVE  Desk' /\ Answering'
<1>1. CASE Desk' /\ Quiet /\ UNCHANGED alertVars
  <2>1. UNCHANGED <<alert, box, said, open>>
    BY <1>1 DEF alertVars
  <2> QED BY <1>1, <2>1, QuietKeepsAcks, StillAnswering DEF Quiet
<1>2. CASE \E w \in Windows : Desk' /\ Quiet /\ Reopened(w)
  BY <1>2, ReopenStep
<1>3. CASE \E w \in Windows : Desk' /\ UNCHANGED scene /\ KeepsAsks /\ Loaded(w)
  BY <1>3, LoadStep
<1>4. CASE \E w \in Windows : \E i \in DOMAIN wire[w] : Take(w, i) /\ Shows(w, wire[w][i])
  BY <1>4, ShowStep
<1>5. CASE \E w \in Windows : \E i \in DOMAIN wire[w] : TakeAboutAlert(w, i)
  <2>1. PICK w \in Windows : \E i \in DOMAIN wire[w] : TakeAboutAlert(w, i)
    BY <1>5
  <2>2. PICK i \in DOMAIN wire[w] : TakeAboutAlert(w, i)
    BY <2>1
  <2>3. Desk'
    BY <2>2, TakeAboutAlertStep
  <2> QED BY <2>2, <2>3, ConfirmedStep, HeardStep
<1>6. CASE \E w \in Windows, n \in Alerts :
             Notify(w, n) \/ SendAnswer(w, n) \/ \E status \in Answers : Answer(w, n, status)
  BY <1>6, NotifyStep, SendAnswerStep, AnswerStep
<1>7. CASE \E w \in Windows : Create(w) \/ Respond(w)
  BY <1>7, CreateStep, RespondStep
<1> QED BY <1>1, <1>2, <1>3, <1>4, <1>5, <1>6, <1>7, Steps

LEMMA DeskInit == AlertsInit => Desk /\ Answering
<1> SUFFICES ASSUME AlertsInit PROVE Desk /\ Answering
  OBVIOUS
<1>1. /\ scene \in Scenes /\ version = NoData /\ changes = 0 /\ faults = 0 /\ handlers = <<>>
      /\ conn = [w \in Windows |-> IF Panel(w) = Nobody THEN "down"
                                   ELSE IF scene.loaded THEN "up" ELSE "opening"]
      /\ asks = [w \in Windows |-> <<>>] /\ wire = [w \in Windows |-> <<>>]
      /\ dirty = [w \in Windows |-> {}] /\ warned = [w \in Windows |-> {}]
      /\ view = [w \in Windows |-> Blank(Panel(w))]
  BY DEF AlertsInit, ViewsInit
<1>2. /\ alert = [n \in Alerts |-> None]
      /\ open = [w \in Windows |-> {}]
      /\ box = [w \in Windows |-> [n \in Alerts |-> None]]
      /\ tracker = [w \in Windows |-> [n \in Alerts |-> None]]
      /\ said = [w \in Windows |-> [n \in Alerts |-> None]]
      /\ overtaken = [w \in Windows |-> {}]
  BY DEF AlertsInit
<1>3. \A w \in Windows : asks[w] = <<>> /\ wire[w] = <<>>
  BY <1>1
<1>4. Numbers
  <2>1. scene.most \in Nat /\ scene.faults \in Nat
    BY <1>1, DeskConstants
  <2> QED BY <1>1, <2>1 DEF Numbers, NoData
<1>5. conn \in [Windows -> Connections]
  BY <1>1 DEF Connections
<1>6. AsksTyped /\ WireTyped /\ HandlersTyped
  BY <1>1, <1>3, EmptyList DEF AsksTyped, WireTyped, HandlersTyped, AsksOK, WireOK
<1>7. Idle
  BY <1>1, <1>3, EmptyList DEF Idle
<1>8. InTheWindows
  BY <1>1 DEF InTheWindows, Blank
<1>9. AboutAlerts
  BY <1>2 DEF AboutAlerts
<1>10. Desk
  BY <1>1, <1>4, <1>5, <1>6, <1>7, <1>8, <1>9 DEF Desk
<1>11. AnswersKept
  BY <1>2 DEF AnswersKept, Answers, None
<1>12. OneAnswerAtATime
  BY <1>3, EmptyList DEF OneAnswerAtATime, OneAnswer
<1>13. OneAlertAtATime
  BY <1>3, EmptyList DEF OneAlertAtATime
<1> QED BY <1>10, <1>11, <1>12, <1>13 DEF Answering

\* In every state the requests, messages and windows are well formed, only open windows have
\* requests, and each PC's outbox has one answer on the way.
THEOREM DeskHolds == AlertsSpec => [](Desk /\ Answering)
<1>1. AlertsInit => Desk /\ Answering
  BY DeskInit
<1>2. Desk /\ Answering /\ [AlertsNext]_alertsVars => Desk' /\ Answering'
  BY AnsweringStep
<1> QED BY <1>1, <1>2, PTL DEF AlertsSpec

\* AlertsTypeOK: versions, statuses and connections have their types, and a lost connection has
\* neither requests nor messages.
THEOREM AlertsTypes == AlertsSpec => []AlertsTypeOK
BY DeskHolds, DeskTypes, PTL

\* ConfirmedStands: an answer that left a PC's outbox as confirmed is the one that stands,
\* whatever is answered on the other PCs (respond_priority_notification).
THEOREM ConfirmedAnswersStand == AlertsSpec => []ConfirmedStands
<1>1. Desk /\ Answering => ConfirmedStands
  BY DEF Answering, AnswersKept, ConfirmedStands
<1> QED BY <1>1, DeskHolds, PTL

-----------------------------------------------------------------------------
(* An answered alert is not asked again. *)

Is(m, kind, n) == m.msg = kind /\ m.alert = n
Says(m, r, n, status) == m.msg = "reply" /\ m.request = r /\ m.data["alerts"][n] = status
Mentions(m, n) ==
  \/ m.msg \in {"alert", "sent", "ack", "answered"} /\ m.alert = n
  \/ m.msg = "reply" /\ m.request \in {"snapshot", "alerts"} /\ m.data["alerts"][n] # None

\* Every message of t that matters is one of u, in the same order, and not the i-th.
Embeds(u, t, i) ==
  \E f : /\ \A j \in DOMAIN t : Matters(t[j]) => f[j] \in DOMAIN u /\ u[f[j]] = t[j] /\ f[j] # i
         /\ \A j, k \in DOMAIN t : Matters(t[j]) /\ Matters(t[k]) => (j < k <=> f[j] < f[k])

Unmentioned(s, n) == \A j \in DOMAIN s : ~Mentions(s[j], n)
Pushed(s, n) == \E j \in DOMAIN s : Is(s[j], "alert", n)
Acked(s, n) == \E j \in DOMAIN s : Is(s[j], "ack", n)
Old(s, n) == \E j \in DOMAIN s : Says(s[j], "snapshot", n, "PENDING")

\* An alert is pushed once, before any snapshot that has it.
PushedFirst(s, n) ==
  /\ \A i, j \in DOMAIN s : Is(s[i], "alert", n) /\ Is(s[j], "alert", n) => i = j
  /\ \A i, j \in DOMAIN s : Is(s[i], "alert", n) /\ Says(s[j], "snapshot", n, "PENDING") => i < j

\* The snapshots that have it as pending are ahead of the confirmation of its answer.
OldFirst(s, n) ==
  \A i, j \in DOMAIN s : Says(s[i], "snapshot", n, "PENDING") /\ Is(s[j], "ack", n) => i < j

LEMMA EmbedsBy ==
  ASSUME NEW s, IsList(s), NEW t
  PROVE  /\ Embeds(s, s, 0)
         /\ WireKept(s, t) => Embeds(s, t, 0)
         /\ \A i \in DOMAIN s : Without(s, i, t) => Embeds(s, t, i)
<1>1. DOMAIN s = 1..Len(s) /\ Len(s) \in Nat /\ 0 \notin DOMAIN s
  BY Listed
<1>2. ASSUME WireKept(s, t) PROVE Embeds(s, t, 0)
  <2>1. CASE \A j \in DOMAIN t : ~Matters(t[j])
    BY <2>1 DEF Embeds
  <2>2. CASE \E f : /\ \A j \in DOMAIN t : Matters(t[j]) => f[j] \in DOMAIN s /\ s[f[j]] = t[j]
                    /\ \A j, k \in DOMAIN t : Matters(t[j]) /\ Matters(t[k]) => (j < k <=> f[j] < f[k])
    BY <1>1, <2>2 DEF Embeds
  <2> QED BY <1>2, <2>1, <2>2 DEF WireKept
<1>3. Embeds(s, s, 0)
  <2> DEFINE f == [j \in DOMAIN s |-> j]
  <2>1. \A j \in DOMAIN s : f[j] = j
    OBVIOUS
  <2> HIDE DEF f
  <2> QED BY <1>1, <2>1 DEF Embeds
<1>4. ASSUME NEW i \in DOMAIN s, Without(s, i, t) PROVE Embeds(s, t, i)
  <2> DEFINE f == [j \in DOMAIN t |-> IF j < i THEN j ELSE j + 1]
  <2>1. i \in Nat
    BY <1>1
  <2>2. \A j \in DOMAIN t : /\ j \in Nat
                            /\ j < i => j \in DOMAIN s /\ t[j] = s[j]
                            /\ j >= i => j + 1 \in DOMAIN s /\ t[j] = s[j + 1]
    BY <1>4, Remaining
  <2>3. \A j \in DOMAIN t : f[j] = IF j < i THEN j ELSE j + 1
    OBVIOUS
  <2> HIDE DEF f
  <2>4. \A j \in DOMAIN t : f[j] \in DOMAIN s /\ s[f[j]] = t[j] /\ f[j] # i /\ f[j] \in Nat
    <3> TAKE j \in DOMAIN t
    <3>1. CASE j < i
      BY <2>1, <2>2, <2>3, <3>1
    <3>2. CASE ~(j < i)
      BY <2>1, <2>2, <2>3, <3>2
    <3> QED BY <3>1, <3>2
  <2>5. \A j, k \in DOMAIN t : j < k <=> f[j] < f[k]
    BY <2>1, <2>2, <2>3
  <2> QED BY <2>4, <2>5 DEF Embeds
<1> QED BY <1>2, <1>3, <1>4

LEMMA EmbeddedMessages ==
  ASSUME NEW u, IsList(u), NEW t, IsList(t), NEW i, Embeds(u, t, i), NEW n \in Alerts
  PROVE  /\ Unmentioned(u, n) => Unmentioned(t, n)
         /\ Acked(t, n) => Acked(u, n)
         /\ Pushed(t, n) => Pushed(u, n)
         /\ Old(t, n) => Old(u, n)
         /\ PushedFirst(u, n) => PushedFirst(t, n)
         /\ OldFirst(u, n) => OldFirst(t, n)
         /\ i \in DOMAIN u /\ Is(u[i], "alert", n) /\ PushedFirst(u, n) => ~Pushed(t, n)
<1>1. PICK f : /\ \A j \in DOMAIN t : Matters(t[j]) => f[j] \in DOMAIN u /\ u[f[j]] = t[j] /\ f[j] # i
               /\ \A j, k \in DOMAIN t : Matters(t[j]) /\ Matters(t[k]) => (j < k <=> f[j] < f[k])
  BY DEF Embeds
<1>2. /\ \A m : Mentions(m, n) => Matters(m)
      /\ \A m : Is(m, "ack", n) => Matters(m) /\ Mentions(m, n)
      /\ \A m : Is(m, "alert", n) => Matters(m) /\ Mentions(m, n)
      /\ \A m : Says(m, "snapshot", n, "PENDING") => Matters(m) /\ Mentions(m, n)
  BY DEF Mentions, Matters, Is, Says, None
<1>3. \A j \in DOMAIN t : j \in Nat
  BY Listed
<1>4. Unmentioned(u, n) => Unmentioned(t, n)
  BY <1>1, <1>2 DEF Unmentioned
<1>5. (Acked(t, n) => Acked(u, n)) /\ (Pushed(t, n) => Pushed(u, n)) /\ (Old(t, n) => Old(u, n))
  BY <1>1, <1>2 DEF Acked, Pushed, Old
<1>6. ASSUME PushedFirst(u, n) PROVE PushedFirst(t, n)
  <2>1. ASSUME NEW j \in DOMAIN t, NEW k \in DOMAIN t, Is(t[j], "alert", n), Is(t[k], "alert", n) PROVE j = k
    <3>1. f[j] = f[k] /\ f[j] \in DOMAIN u
      BY <1>1, <1>2, <1>6, <2>1 DEF PushedFirst
    <3>2. f[j] \in Nat
      BY <3>1, Listed
    <3>3. ~(j < k) /\ ~(k < j)
      BY <1>1, <1>2, <2>1, <3>1, <3>2
    <3> QED BY <1>3, <3>3
  <2>2. ASSUME NEW j \in DOMAIN t, NEW k \in DOMAIN t, Is(t[j], "alert", n), Says(t[k], "snapshot", n, "PENDING")
        PROVE  j < k
    BY <1>1, <1>2, <1>6, <2>2 DEF PushedFirst
  <2> QED BY <2>1, <2>2 DEF PushedFirst
<1>7. OldFirst(u, n) => OldFirst(t, n)
  BY <1>1, <1>2 DEF OldFirst
<1>8. ASSUME i \in DOMAIN u, Is(u[i], "alert", n), PushedFirst(u, n) PROVE ~Pushed(t, n)
  BY <1>1, <1>2, <1>8 DEF PushedFirst, Pushed
<1> QED BY <1>4, <1>5, <1>6, <1>7, <1>8

\* The first message, which is shown.
LEMMA FirstMessages ==
  ASSUME NEW u, IsList(u), 1 \in DOMAIN u, NEW n
  PROVE  Says(u[1], "snapshot", n, "PENDING") /\ PushedFirst(u, n) => ~Pushed(u, n)
<1>1. \A j \in DOMAIN u : j \in Nat /\ j >= 1
  BY Listed
<1> QED BY <1>1 DEF PushedFirst, Pushed

LEMMA AppendedMessages ==
  ASSUME NEW s, IsList(s), NEW m, NEW n
  PROVE  LET u == Append(s, m)
         IN /\ IsList(u)
            /\ Unmentioned(u, n) <=> Unmentioned(s, n) /\ ~Mentions(m, n)
            /\ Acked(u, n) <=> Acked(s, n) \/ Is(m, "ack", n)
            /\ Pushed(u, n) <=> Pushed(s, n) \/ Is(m, "alert", n)
            /\ Old(u, n) <=> Old(s, n) \/ Says(m, "snapshot", n, "PENDING")
            /\ PushedFirst(s, n) /\ (Is(m, "alert", n) => ~Pushed(s, n) /\ ~Old(s, n)) => PushedFirst(u, n)
            /\ OldFirst(s, n) /\ (Says(m, "snapshot", n, "PENDING") => ~Acked(s, n)) => OldFirst(u, n)
<1> DEFINE u == Append(s, m)
<1>1. /\ Continues(s, u) /\ Len(u) = Len(s) + 1 /\ u[Len(s) + 1] = m
  BY Appended
<1> HIDE DEF u
<1>2. /\ IsList(u) /\ Len(s) \in Nat /\ DOMAIN s = 1..Len(s) /\ DOMAIN u = 1..(Len(s) + 1)
      /\ \A j \in DOMAIN s : j \in DOMAIN u /\ u[j] = s[j]
  BY <1>1, Listed DEF Continues
<1>3. /\ \A j \in DOMAIN u : j \in DOMAIN s \/ j = Len(s) + 1
      /\ \A j \in DOMAIN s : j < Len(s) + 1 /\ j \in Nat /\ j # Len(s) + 1
      /\ Len(s) + 1 \in DOMAIN u
  BY <1>2
<1>4. Unmentioned(u, n) <=> Unmentioned(s, n) /\ ~Mentions(m, n)
  BY <1>1, <1>2, <1>3 DEF Unmentioned
<1>5. /\ Acked(u, n) <=> Acked(s, n) \/ Is(m, "ack", n)
      /\ Pushed(u, n) <=> Pushed(s, n) \/ Is(m, "alert", n)
      /\ Old(u, n) <=> Old(s, n) \/ Says(m, "snapshot", n, "PENDING")
  BY <1>1, <1>2, <1>3 DEF Acked, Pushed, Old
<1>6. ~(Is(m, "alert", n) /\ Says(m, "snapshot", n, "PENDING")) /\ ~(Is(m, "ack", n) /\ Says(m, "snapshot", n, "PENDING"))
  BY DEF Is, Says
<1>7. ASSUME PushedFirst(s, n), Is(m, "alert", n) => ~Pushed(s, n) /\ ~Old(s, n) PROVE PushedFirst(u, n)
  <2>1. ASSUME NEW i \in DOMAIN u, NEW j \in DOMAIN u, Is(u[i], "alert", n), Is(u[j], "alert", n) PROVE i = j
    BY <1>1, <1>2, <1>3, <1>7, <2>1 DEF PushedFirst, Pushed
  <2>2. ASSUME NEW i \in DOMAIN u, NEW j \in DOMAIN u, Is(u[i], "alert", n), Says(u[j], "snapshot", n, "PENDING")
        PROVE  i < j
    BY <1>1, <1>2, <1>3, <1>6, <1>7, <2>2 DEF PushedFirst, Old
  <2> QED BY <2>1, <2>2 DEF PushedFirst
<1>8. ASSUME OldFirst(s, n), Says(m, "snapshot", n, "PENDING") => ~Acked(s, n) PROVE OldFirst(u, n)
  <2> SUFFICES ASSUME NEW i \in DOMAIN u, NEW j \in DOMAIN u, Says(u[i], "snapshot", n, "PENDING"), Is(u[j], "ack", n)
               PROVE  i < j
    BY DEF OldFirst
  <2> QED BY <1>1, <1>2, <1>3, <1>6, <1>8 DEF OldFirst, Acked
<1> QED BY <1>2, <1>4, <1>5, <1>7, <1>8 DEF u

\* Of an alert nobody made nothing is known.  A PC that gave its answer asks again only when
\* the confirmation overtook an older snapshot that has it as pending.
OnceOnly(w, n) ==
  /\ alert[n] = None => /\ said[w][n] = None /\ box[w][n] = None /\ n \notin open[w]
                        /\ tracker[w][n] = None /\ Unmentioned(wire[w], n)
  /\ Acked(wire[w], n) => alert[n] # "PENDING"
  /\ Pushed(wire[w], n) => said[w][n] = None /\ n \notin open[w]
  /\ PushedFirst(wire[w], n)
  /\ said[w][n] # None /\ Old(wire[w], n) =>
       n \in overtaken[w] \/ (box[w][n] # None /\ OldFirst(wire[w], n))
  /\ n \in open[w] /\ said[w][n] # None => n \in overtaken[w]

Once == \A w \in Windows, n \in Alerts : OnceOnly(w, n)

\* A step that is not about this alert, or takes a message about it away.
LEMMA StillOnce ==
  ASSUME Desk, Desk', UNCHANGED scene, NEW v \in Windows, NEW n \in Alerts, OnceOnly(v, n), NEW i, NEW u,
         u = wire[v] \/ \E m : ~Mentions(m, n) /\ u = Append(wire[v], m), Embeds(u, wire'[v], i),
         alert'[n] = alert[n], said'[v][n] = said[v][n], box'[v][n] = box[v][n],
         n \in open'[v] => n \in open[v],
         tracker'[v][n] \in {tracker[v][n], None} \/ alert[n] # None,
         n \in overtaken[v] /\ (n \in open'[v] \/ Old(wire'[v], n)) => n \in overtaken'[v]
  PROVE  OnceOnly(v, n)'
<1>1. IsList(wire[v]) /\ IsList(wire'[v])
  BY Unpacked, UnpackedNext
<1>2. /\ IsList(u)
      /\ Unmentioned(wire[v], n) => Unmentioned(u, n)
      /\ Acked(u, n) => Acked(wire[v], n)
      /\ Pushed(u, n) => Pushed(wire[v], n)
      /\ Old(u, n) => Old(wire[v], n)
      /\ PushedFirst(wire[v], n) => PushedFirst(u, n)
      /\ OldFirst(wire[v], n) => OldFirst(u, n)
  <2>1. CASE u = wire[v]
    BY <1>1, <2>1
  <2>2. ASSUME NEW m, ~Mentions(m, n), u = Append(wire[v], m)
        PROVE  /\ IsList(u)
               /\ Unmentioned(wire[v], n) => Unmentioned(u, n)
               /\ Acked(u, n) => Acked(wire[v], n)
               /\ Pushed(u, n) => Pushed(wire[v], n)
               /\ Old(u, n) => Old(wire[v], n)
               /\ PushedFirst(wire[v], n) => PushedFirst(u, n)
               /\ OldFirst(wire[v], n) => OldFirst(u, n)
    <3>1. ~Is(m, "ack", n) /\ ~Is(m, "alert", n) /\ ~Says(m, "snapshot", n, "PENDING")
      BY <2>2 DEF Mentions, Is, Says, None
    <3> QED BY <1>1, <2>2, <3>1, AppendedMessages
  <2> QED BY <2>1, <2>2
<1>3. /\ Unmentioned(wire[v], n) => Unmentioned(wire'[v], n)
      /\ Acked(wire'[v], n) => Acked(wire[v], n)
      /\ Pushed(wire'[v], n) => Pushed(wire[v], n)
      /\ Old(wire'[v], n) => Old(wire[v], n)
      /\ PushedFirst(wire[v], n) => PushedFirst(wire'[v], n)
      /\ OldFirst(wire[v], n) => OldFirst(wire'[v], n)
  BY <1>1, <1>2, EmbeddedMessages
<1> QED BY <1>3 DEF OnceOnly

LEMMA QuietOnce ==
  ASSUME Desk, Desk', Quiet, Once, UNCHANGED <<alert, said, box>>,
         \A v \in Windows, n \in Alerts :
           /\ n \in open'[v] => n \in open[v]
           /\ tracker'[v][n] \in {tracker[v][n], None}
           /\ n \in overtaken[v] /\ (n \in open'[v] \/ Old(wire'[v], n)) => n \in overtaken'[v]
  PROVE  Once'
<1>1. ASSUME NEW v \in Windows, NEW n \in Alerts PROVE OnceOnly(v, n)'
  <2>1. IsList(wire[v]) /\ WireKept(wire[v], wire'[v]) /\ UNCHANGED scene
    BY Unpacked DEF Quiet, KeepsWire
  <2>2. Embeds(wire[v], wire'[v], 0)
    BY <2>1, EmbedsBy
  <2> QED BY <2>1, <2>2, StillOnce DEF Once
<1> QED BY <1>1 DEF Once

\* A snapshot that leaves the server has the alerts' answers, or the outbox does.
LEMMA LoadOnce ==
  ASSUME Desk, Desk', UNCHANGED scene, Answering, Once, NEW w \in Windows, Loaded(w)
  PROVE  Once'
<1>1. PICK m : /\ m.msg = "reply" /\ m.request \in {"snapshot", "alerts"} /\ m.data["alerts"] = alert
               /\ wire'[w] = Append(wire[w], m)
               /\ \A v \in Windows \ {w} : wire'[v] = wire[v]
               /\ UNCHANGED <<alert, open, box, tracker, said, overtaken>>
  BY DEF Loaded, alertVars
<1>2. ASSUME NEW v \in Windows \ {w}, NEW n \in Alerts PROVE OnceOnly(v, n)'
  <2>1. Embeds(wire[v], wire'[v], 0)
    BY <1>1, Unpacked, EmbedsBy
  <2> QED BY <1>1, <2>1, StillOnce DEF Once
<1>3. ASSUME NEW n \in Alerts PROVE OnceOnly(w, n)'
  <2>1. OnceOnly(w, n) /\ IsList(wire[w])
    BY Unpacked DEF Once
  <2>2. /\ ~Is(m, "ack", n) /\ ~Is(m, "alert", n)
        /\ Mentions(m, n) <=> alert[n] # None
        /\ Says(m, "snapshot", n, "PENDING") => alert[n] = "PENDING"
    BY <1>1 DEF Is, Mentions, Says
  <2>3. /\ Unmentioned(wire'[w], n) <=> Unmentioned(wire[w], n) /\ ~Mentions(m, n)
        /\ Acked(wire'[w], n) <=> Acked(wire[w], n)
        /\ Pushed(wire'[w], n) <=> Pushed(wire[w], n)
        /\ Old(wire'[w], n) <=> Old(wire[w], n) \/ Says(m, "snapshot", n, "PENDING")
        /\ PushedFirst(wire[w], n) => PushedFirst(wire'[w], n)
        /\ OldFirst(wire[w], n) /\ (Says(m, "snapshot", n, "PENDING") => ~Acked(wire[w], n)) => OldFirst(wire'[w], n)
    BY <1>1, <2>1, <2>2, AppendedMessages
  <2>4. ASSUME said[w][n] # None, Old(wire'[w], n)
        PROVE  n \in overtaken[w] \/ (box[w][n] # None /\ OldFirst(wire'[w], n))
    <3>1. Says(m, "snapshot", n, "PENDING") => ~Acked(wire[w], n)
      BY <2>1, <2>2 DEF OnceOnly
    <3>2. CASE Old(wire[w], n)
      BY <2>1, <2>3, <2>4, <3>1, <3>2 DEF OnceOnly
    <3>3. CASE ~Old(wire[w], n)
      <4>1. alert[n] = "PENDING"
        BY <2>2, <2>3, <2>4, <3>3
      <4>2. box[w][n] # None
        <5>1. said[w][n] \in Answers \cup {None}
          BY DEF Desk, AboutAlerts
        <5>2. said[w][n] # "PENDING"
          BY <5>1 DEF Answers, None
        <5> QED BY <2>4, <4>1, <5>2 DEF Answering, AnswersKept
      <4>3. OldFirst(wire[w], n)
        BY <3>3 DEF Old, OldFirst
      <4> QED BY <2>3, <3>1, <4>2, <4>3
    <3> QED BY <3>2, <3>3
  <2> QED BY <1>1, <2>1, <2>2, <2>3, <2>4 DEF OnceOnly
<1> QED BY <1>2, <1>3 DEF Once

LEMMA ShowOnce ==
  ASSUME Desk, Answering, Once, NEW w \in Windows, NEW i \in DOMAIN wire[w], Take(w, i), Shows(w, wire[w][i]),
         wire[w][i].msg = "reply"
  PROVE  Once'
<1>1. /\ Desk' /\ UNCHANGED scene /\ \A v \in Windows \ {w} : wire'[v] = wire[v]
      /\ Without(wire[w], i, wire'[w])
  BY TakeStep
<1> DEFINE m == wire[w][i]
<1>2. /\ UNCHANGED <<alert, box, said>>
      /\ \A v \in Windows \ {w} : open'[v] = open[v] /\ tracker'[v] = tracker[v]
      /\ \A n \in open'[w] : \/ n \in open[w]
                             \/ box[w][n] = None /\ Says(m, "snapshot", n, "PENDING")
      /\ tracker'[w] = tracker[w] \/ (m.request = "alerts" /\ tracker'[w] = m.data["alerts"])
  BY Showing DEF Says
<1>3. i = 1
  BY Taking DEF Taken, Slow
<1>6. /\ \A v \in Windows \ {w} : overtaken'[v] = overtaken[v]
      /\ \A n \in overtaken[w] : n \in open'[w] \/ Old(wire'[w], n) => n \in overtaken'[w]
  <2>1. \A n : Old(wire'[w], n) => \E j \in DOMAIN wire'[w] : ShowsPending(wire'[w][j], n)
    BY DEF Old, Says, ShowsPending
  <2> QED BY <2>1, ShownOvertaken
<1>4. ASSUME NEW v \in Windows \ {w}, NEW n \in Alerts PROVE OnceOnly(v, n)'
  <2>1. Embeds(wire[v], wire'[v], 0)
    BY <1>1, Unpacked, EmbedsBy
  <2> QED BY <1>1, <1>2, <1>6, <2>1, StillOnce DEF Once
<1>5. ASSUME NEW n \in Alerts PROVE OnceOnly(w, n)'
  <2>1. OnceOnly(w, n) /\ IsList(wire[w]) /\ IsList(wire'[w])
    BY <1>1, Unpacked, UnpackedNext DEF Once
  <2>2. Embeds(wire[w], wire'[w], i)
    BY <1>1, <2>1, EmbedsBy
  <2>3. tracker'[w][n] \in {tracker[w][n], None} \/ alert[n] # None
    BY <1>2, <2>1 DEF OnceOnly, Unmentioned, Mentions
  <2>4. CASE n \in open'[w] => n \in open[w]
    BY <1>1, <1>2, <1>6, <2>1, <2>2, <2>3, <2>4, StillOnce
  <2>5. CASE n \in open'[w] /\ n \notin open[w]
    <3>1. box[w][n] = None /\ Says(m, "snapshot", n, "PENDING")
      BY <1>2, <2>5
    <3>2. Old(wire[w], n) /\ ~Unmentioned(wire[w], n)
      BY <3>1 DEF Old, Unmentioned, Mentions, Says, None
    <3>3. ~Pushed(wire[w], n)
      BY <1>3, <2>1, <3>1, FirstMessages DEF OnceOnly
    <3>4. /\ Acked(wire'[w], n) => Acked(wire[w], n)
          /\ ~Pushed(wire'[w], n) /\ PushedFirst(wire'[w], n)
      BY <2>1, <2>2, <3>3, EmbeddedMessages DEF OnceOnly
    <3>5. said[w][n] # None => n \in overtaken[w] /\ n \in overtaken'[w]
      BY <1>6, <2>1, <2>5, <3>1, <3>2 DEF OnceOnly
    <3> QED BY <1>2, <2>1, <3>2, <3>4, <3>5 DEF OnceOnly
  <2> QED BY <2>4, <2>5
<1> QED BY <1>4, <1>5 DEF Once

LEMMA HearOnce ==
  ASSUME Desk, Answering, Once, NEW w \in Windows, NEW i \in DOMAIN wire[w], TakeAboutAlert(w, i)
  PROVE  Once'
<1>1. /\ Desk' /\ UNCHANGED scene /\ \A v \in Windows \ {w} : wire'[v] = wire[v]
      /\ Without(wire[w], i, wire'[w])
  BY TakeAboutAlertStep
<1> DEFINE k == wire[w][i].alert
<1>2. /\ UNCHANGED <<alert, said>> /\ k \in Alerts
      /\ wire[w][i].msg \in {"alert", "answered", "sent", "ack"}
      /\ wire[w][i].msg = "alert" => TakeAlert(w, i)
      /\ wire[w][i].msg = "answered" => TakeAnswered(w, i)
      /\ wire[w][i].msg = "sent" => TakeSent(w, i)
      /\ wire[w][i].msg = "ack" => TakeAck(w, i)
  BY TakingAboutAlert
<1>3. Is(wire[w][i], wire[w][i].msg, k) /\ Mentions(wire[w][i], k)
  BY <1>2 DEF Is, Mentions
<1> HIDE DEF k
<1>4. /\ \A v \in Windows, n \in Alerts : v # w \/ n # k =>
           /\ box'[v][n] = box[v][n] /\ tracker'[v][n] = tracker[v][n]
           /\ n \in open'[v] => n \in open[v]
      /\ wire[w][i].msg # "ack" => box'[w][k] = box[w][k]
      /\ wire[w][i].msg # "alert" => (k \in open'[w] => k \in open[w])
      /\ \A v \in Windows : overtaken[v] \subseteq overtaken'[v]
      /\ wire[w][i].msg = "ack" /\ (\E j \in 1..(i - 1) : ShowsPending(wire[w][j], k)) => k \in overtaken'[w]
  <2>1. /\ open \in [Windows -> SUBSET Alerts]
        /\ box \in [Windows -> [Alerts -> Answers \cup {None, "FAILED"}]]
        /\ tracker \in [Windows -> [Alerts -> Statuses \cup {None}]]
        /\ overtaken \in [Windows -> SUBSET Alerts]
    BY DEF Desk, AboutAlerts
  <2>2. CASE wire[w][i].msg = "alert"
    <3>1. /\ UNCHANGED <<box, tracker, overtaken>>
          /\ UNCHANGED open \/ open' = [open EXCEPT ![w] = @ \cup {k}]
      BY <1>2, <2>2 DEF TakeAlert, k
    <3> QED BY <2>1, <2>2, <3>1
  <2>3. CASE wire[w][i].msg = "answered"
    <3>1. /\ UNCHANGED <<box, open>> /\ overtaken' = Overtaking(w, i)
          /\ UNCHANGED tracker \/ tracker' = [tracker EXCEPT ![w][k] = wire[w][i].status]
      BY <1>2, <2>3 DEF TakeAnswered, k
    <3>2. \A v \in Windows : overtaken[v] \subseteq overtaken'[v]
      BY <1>2, <3>1, HeardOvertaken DEF k
    <3> QED BY <2>1, <2>3, <3>1, <3>2
  <2>4. CASE wire[w][i].msg = "sent"
    <3>1. /\ UNCHANGED <<box, open, overtaken>> /\ tracker' = [tracker EXCEPT ![w][k] = "PENDING"]
      BY <1>2, <2>4 DEF TakeSent, k
    <3> QED BY <2>1, <2>4, <3>1
  <2>5. CASE wire[w][i].msg = "ack"
    <3>1. /\ UNCHANGED <<open, tracker>> /\ overtaken' = Overtaking(w, i)
          /\ box' = [box EXCEPT ![w][k] = IF wire[w][i].ok THEN None ELSE "FAILED"]
      <4>1. TakeAck(w, i)
        BY <1>2, <2>5
      <4> QED BY <4>1, Zenon DEF TakeAck, k
    <3>2. \A v \in Windows : overtaken[v] \subseteq overtaken'[v]
      BY <1>2, <3>1, HeardOvertaken DEF k
    <3>3. (\E j \in 1..(i - 1) : ShowsPending(wire[w][j], k)) => k \in overtaken'[w]
      BY <1>2, <3>1, HeardOvertaken DEF k
    <3> QED BY <2>1, <2>5, <3>1, <3>2, <3>3
  <2> QED BY <1>2, <2>2, <2>3, <2>4, <2>5
<1>5. ASSUME NEW v \in Windows \ {w}, NEW n \in Alerts PROVE OnceOnly(v, n)'
  <2>1. Embeds(wire[v], wire'[v], 0)
    BY <1>1, Unpacked, EmbedsBy
  <2> QED BY <1>1, <1>2, <1>4, <2>1, StillOnce DEF Once
<1>6. ASSUME NEW n \in Alerts PROVE OnceOnly(w, n)'
  <2>1. OnceOnly(w, n) /\ IsList(wire[w]) /\ IsList(wire'[w]) /\ i \in Nat /\ i >= 1
    BY <1>1, Unpacked, UnpackedNext, Listed DEF Once
  <2>2. Embeds(wire[w], wire'[w], i)
    BY <1>1, <2>1, EmbedsBy
  <2>3. CASE n # k
    BY <1>1, <1>2, <1>4, <2>1, <2>2, <2>3, StillOnce
  <2>4. n = k => alert[n] # None
    BY <1>3, <2>1 DEF OnceOnly, Unmentioned
  <2>5. CASE n = k /\ wire[w][i].msg \in {"answered", "sent"}
    BY <1>1, <1>2, <1>4, <2>1, <2>2, <2>4, <2>5, StillOnce
  <2>6. CASE n = k /\ wire[w][i].msg = "alert"
    <3>1. Is(wire[w][i], "alert", n)
      BY <1>3, <2>6
    <3>2. said[w][n] = None
      BY <2>1, <3>1 DEF OnceOnly, Pushed
    <3>3. /\ ~Pushed(wire'[w], n) /\ PushedFirst(wire'[w], n)
          /\ Acked(wire'[w], n) => Acked(wire[w], n)
      BY <2>1, <2>2, <3>1, EmbeddedMessages DEF OnceOnly
    <3> QED BY <1>2, <2>1, <2>4, <2>6, <3>2, <3>3 DEF OnceOnly
  <2>7. CASE n = k /\ wire[w][i].msg = "ack"
    <3>1. Is(wire[w][i], "ack", n)
      BY <1>3, <2>7
    <3>2. /\ Acked(wire'[w], n) => Acked(wire[w], n)
          /\ Pushed(wire'[w], n) => Pushed(wire[w], n)
          /\ Old(wire'[w], n) => Old(wire[w], n)
          /\ PushedFirst(wire'[w], n)
      BY <2>1, <2>2, EmbeddedMessages DEF OnceOnly
    <3>3. ASSUME said[w][n] # None, Old(wire'[w], n) PROVE n \in overtaken'[w]
      <4>1. Old(wire[w], n)
        BY <3>2, <3>3
      <4>2. CASE n \in overtaken[w]
        BY <1>4, <4>2
      <4>3. CASE OldFirst(wire[w], n)
        <5>1. PICK j \in DOMAIN wire[w] : Says(wire[w][j], "snapshot", n, "PENDING")
          BY <4>1 DEF Old
        <5>2. j < i /\ ShowsPending(wire[w][j], n)
          BY <3>1, <4>3, <5>1 DEF OldFirst, Says, ShowsPending
        <5>3. j \in 1..(i - 1)
          BY <2>1, <5>1, <5>2, Listed
        <5> QED BY <1>4, <2>7, <5>2, <5>3
      <4> QED BY <2>1, <3>3, <4>1, <4>2, <4>3 DEF OnceOnly
    <3> QED BY <1>2, <1>4, <2>1, <2>4, <2>7, <3>2, <3>3 DEF OnceOnly
  <2> QED BY <1>2, <2>3, <2>5, <2>6, <2>7
<1> QED BY <1>5, <1>6 DEF Once

\* The answer is in the outbox before anything confirms it.
LEMMA AnswerOnce ==
  ASSUME Desk, Desk', Answering, Once, NEW w \in Windows, NEW k \in Alerts, NEW status \in Answers,
         Answer(w, k, status)
  PROVE  Once'
<1>1. /\ k \in open[w] /\ UNCHANGED <<alert, tracker, scene, wire>>
      /\ overtaken' = [overtaken EXCEPT ![w] = @ \ {k}]
      /\ open' = [open EXCEPT ![w] = @ \ {k}]
      /\ box' = [box EXCEPT ![w][k] = status]
      /\ said' = [said EXCEPT ![w][k] = status]
  BY DEF Answer, viewVars
<1>2. /\ overtaken \in [Windows -> SUBSET Alerts]
      /\ open \in [Windows -> SUBSET Alerts]
      /\ box \in [Windows -> [Alerts -> Answers \cup {None, "FAILED"}]]
      /\ said \in [Windows -> [Alerts -> Answers \cup {None}]]
  BY DEF Desk, AboutAlerts
<1>3. /\ \A v \in Windows, n \in Alerts : v # w \/ n # k =>
           /\ box'[v][n] = box[v][n] /\ said'[v][n] = said[v][n]
           /\ n \in overtaken[v] => n \in overtaken'[v]
      /\ \A v \in Windows, n \in Alerts : n \in open'[v] => n \in open[v]
      /\ box'[w][k] = status /\ k \notin open'[w]
  BY <1>1, <1>2
<1>4. \A v \in Windows : Embeds(wire[v], wire'[v], 0)
  BY <1>1, Unpacked, EmbedsBy
<1>5. ASSUME NEW v \in Windows, NEW n \in Alerts, v # w \/ n # k PROVE OnceOnly(v, n)'
  <2>1. /\ alert'[n] = alert[n] /\ tracker'[v][n] = tracker[v][n]
        /\ n \in overtaken[v] => n \in overtaken'[v]
        /\ said'[v][n] = said[v][n] /\ box'[v][n] = box[v][n] /\ UNCHANGED scene
        /\ n \in open'[v] => n \in open[v]
    BY <1>1, <1>3, <1>5
  <2>2. OnceOnly(v, n)
    BY DEF Once
  <2> QED BY <1>4, <2>1, <2>2, StillOnce
<1>6. OnceOnly(w, k)'
  <2>1. OnceOnly(w, k)
    BY DEF Once
  <2>2. box[w][k] = None /\ None \notin Answers
    BY <1>1 DEF Answering, AnswersKept, Answers, None
  <2>3. ~Acked(wire[w], k)
    BY <2>2 DEF Answering, OneAnswerAtATime, OneAnswer, Acked, Acks, Is
  <2>4. OldFirst(wire[w], k)
    BY <2>3 DEF Acked, OldFirst
  <2> QED BY <1>1, <1>3, <2>1, <2>2, <2>3, <2>4 DEF OnceOnly
<1> QED BY <1>5, <1>6 DEF Once

\* The alert is pushed to PCs that know nothing of it.
LEMMA CreateOnce ==
  ASSUME Desk, Answering, Once, NEW w \in Windows, Create(w)
  PROVE  Once'
<1>1. Desk' /\ UNCHANGED <<scene, open, box, tracker, said, overtaken>>
  BY CreateStep
<1>2. PICK k, message, reply :
        /\ k \in Alerts
        /\ alert[k] = None /\ alert' = [alert EXCEPT ![k] = "PENDING"]
        /\ message.msg = "alert" /\ message.alert = k /\ reply.msg = "sent" /\ reply.alert = k
        /\ wire'[w] = Append(wire[w], reply)
        /\ \A v \in Windows \ {w} : wire'[v] = wire[v] \/ wire'[v] = Append(wire[v], message)
  BY CreateStep
<1>3. alert'[k] = "PENDING" /\ \A n \in Alerts \ {k} : alert'[n] = alert[n]
  BY <1>2 DEF Desk, AboutAlerts
<1>4. \A v \in Windows : wire'[v] \in {wire[v], Append(wire[v], message), Append(wire[v], reply)}
  BY <1>2
<1>5. ASSUME NEW v \in Windows, NEW n \in Alerts \ {k} PROVE OnceOnly(v, n)'
  <2>1. ~Mentions(message, n) /\ ~Mentions(reply, n)
    BY <1>2 DEF Mentions
  <2>2. Embeds(wire'[v], wire'[v], 0)
    BY <1>1, UnpackedNext, EmbedsBy
  <2> QED BY <1>1, <1>3, <1>4, <2>1, <2>2, StillOnce DEF Once
<1>6. ASSUME NEW v \in Windows PROVE OnceOnly(v, k)'
  <2>1. /\ said[v][k] = None /\ k \notin open[v] /\ Unmentioned(wire[v], k) /\ PushedFirst(wire[v], k)
        /\ IsList(wire[v])
    BY <1>2, Unpacked DEF Once, OnceOnly
  <2>2. ~Pushed(wire[v], k) /\ ~Old(wire[v], k) /\ ~Acked(wire[v], k)
    BY <2>1 DEF Unmentioned, Mentions, Pushed, Old, Acked, Is, Says, None
  <2>3. ~Is(message, "ack", k) /\ ~Is(reply, "ack", k)
    BY <1>2 DEF Is
  <2>4. PushedFirst(wire'[v], k) /\ ~Acked(wire'[v], k)
    <3>1. ASSUME NEW m \in {message, reply}, wire'[v] = Append(wire[v], m)
          PROVE  PushedFirst(wire'[v], k) /\ ~Acked(wire'[v], k)
      <4>1. ~Is(m, "ack", k)
        BY <2>3, <3>1
      <4> QED BY <2>1, <2>2, <3>1, <4>1, AppendedMessages
    <3> QED BY <1>4, <2>1, <2>2, <3>1
  <2> QED BY <1>1, <1>3, <2>1, <2>4 DEF OnceOnly, None
<1> QED BY <1>5, <1>6 DEF Once

\* An answer is confirmed, or refused, for an alert that has one.
LEMMA RespondOnce ==
  ASSUME Desk, Answering, Once, NEW w \in Windows, Respond(w)
  PROVE  Once'
<1>1. Desk' /\ UNCHANGED <<scene, open, box, tracker, said, overtaken>>
  BY RespondStep
<1>0. PICK i, k, message, reply, ws : Responded(w, i, k, message, reply, ws)
  BY RespondStep
<1>2. /\ k \in Alerts
      /\ box[w][k] \in Answers
      /\ message.msg = "answered" /\ message.alert = k
      /\ reply.msg = "ack" /\ reply.alert = k
      /\ \/ alert' = [alert EXCEPT ![k] = box[w][k]]
         \/ alert[k] \notin {"PENDING", box[w][k]} /\ UNCHANGED alert
      /\ wire'[w] = Append(wire[w], reply)
      /\ \A v \in Windows \ {w} : wire'[v] = wire[v] \/ wire'[v] = Append(wire[v], message)
  BY <1>0 DEF Responded
<1>3. alert[k] # None
  BY <1>2 DEF Once, OnceOnly, Answers, None
<1>4. /\ \A n \in Alerts \ {k} : alert'[n] = alert[n]
      /\ alert'[k] \notin {"PENDING", None}
  BY <1>2, <1>3 DEF Desk, AboutAlerts, Answers, None
<1>5. \A v \in Windows : wire'[v] \in {wire[v], Append(wire[v], message), Append(wire[v], reply)}
  BY <1>2
<1>6. ASSUME NEW v \in Windows, NEW n \in Alerts \ {k} PROVE OnceOnly(v, n)'
  <2>1. ~Mentions(message, n) /\ ~Mentions(reply, n)
    BY <1>2 DEF Mentions
  <2>2. Embeds(wire'[v], wire'[v], 0)
    BY <1>1, UnpackedNext, EmbedsBy
  <2> QED BY <1>1, <1>4, <1>5, <2>1, <2>2, StillOnce DEF Once
<1>7. ASSUME NEW v \in Windows PROVE OnceOnly(v, k)'
  <2>1. OnceOnly(v, k) /\ IsList(wire[v])
    BY <1>2, Unpacked DEF Once
  <2>2. \A m \in {message, reply} : ~Is(m, "alert", k) /\ ~Says(m, "snapshot", k, "PENDING")
    BY <1>2 DEF Is, Says
  <2>3. /\ Pushed(wire'[v], k) => Pushed(wire[v], k)
        /\ Old(wire'[v], k) => Old(wire[v], k)
        /\ PushedFirst(wire[v], k) => PushedFirst(wire'[v], k)
        /\ OldFirst(wire[v], k) => OldFirst(wire'[v], k)
    <3>1. ASSUME NEW m \in {message, reply}, wire'[v] = Append(wire[v], m)
          PROVE  /\ Pushed(wire'[v], k) => Pushed(wire[v], k)
                 /\ Old(wire'[v], k) => Old(wire[v], k)
                 /\ PushedFirst(wire[v], k) => PushedFirst(wire'[v], k)
                 /\ OldFirst(wire[v], k) => OldFirst(wire'[v], k)
      <4>1. ~Is(m, "alert", k) /\ ~Says(m, "snapshot", k, "PENDING")
        BY <2>2, <3>1
      <4> QED BY <2>1, <3>1, <4>1, AppendedMessages
    <3> QED BY <1>5, <3>1
  <2> QED BY <1>1, <1>4, <2>1, <2>3 DEF OnceOnly
<1> QED BY <1>6, <1>7 DEF Once

LEMMA OnceStep ==
  ASSUME Desk, Answering, Once, [AlertsNext]_alertsVars
  PROVE  Once'
<1>1. CASE Desk' /\ Quiet /\ UNCHANGED alertVars
  <2>1. UNCHANGED <<alert, box, said, open, tracker, overtaken>>
    BY <1>1 DEF alertVars
  <2> QED BY <1>1, <2>1, QuietOnce
<1>2. ASSUME NEW w \in Windows, Desk', Quiet, Reopened(w) PROVE Once'
  <2>1. /\ UNCHANGED <<alert, box, said>> /\ open' = [open EXCEPT ![w] = {}]
        /\ tracker' = [tracker EXCEPT ![w] = [n \in Alerts |-> None]]
        /\ overtaken' = [overtaken EXCEPT ![w] = {}]
        /\ wire' = [wire EXCEPT ![w] = <<>>]
    BY <1>2 DEF Reopened, Restart
  <2>2. /\ open \in [Windows -> SUBSET Alerts] /\ DOMAIN tracker = Windows
        /\ overtaken \in [Windows -> SUBSET Alerts] /\ DOMAIN wire = Windows
    BY DEF Desk, AboutAlerts, WireTyped
  <2>3. \A v \in Windows, n \in Alerts :
           /\ n \in open'[v] => n \in open[v]
           /\ tracker'[v][n] \in {tracker[v][n], None}
    BY <2>1, <2>2
  <2>4. \A n : ~Old(<<>>, n)
    BY EmptyList DEF Old
  <2>5. \A v \in Windows, n \in Alerts :
          n \in overtaken[v] /\ (n \in open'[v] \/ Old(wire'[v], n)) => n \in overtaken'[v]
    <3> TAKE v \in Windows, n \in Alerts
    <3>1. CASE v = w
      BY <2>1, <2>2, <2>4, <3>1
    <3>2. CASE v # w
      BY <2>1, <2>2, <3>2
    <3> QED BY <3>1, <3>2
  <2> QED BY <1>2, <2>1, <2>3, <2>5, QuietOnce
<1>3. CASE \E w \in Windows : Desk' /\ UNCHANGED scene /\ KeepsAsks /\ Loaded(w)
  BY <1>3, LoadOnce
<1>4. CASE \E w \in Windows : \E i \in DOMAIN wire[w] :
             Take(w, i) /\ Shows(w, wire[w][i]) /\ Matters(wire[w][i])
  <2>1. PICK w \in Windows : \E i \in DOMAIN wire[w] :
             Take(w, i) /\ Shows(w, wire[w][i]) /\ Matters(wire[w][i])
    BY <1>4
  <2>2. PICK i \in DOMAIN wire[w] : Take(w, i) /\ Shows(w, wire[w][i]) /\ Matters(wire[w][i])
    BY <2>1
  <2>3. wire[w][i].msg = "reply"
    BY <2>2, Taking DEF Matters
  <2> QED BY <2>2, <2>3, ShowOnce
<1>5. CASE \E w \in Windows : \E i \in DOMAIN wire[w] : TakeAboutAlert(w, i)
  BY <1>5, HearOnce
<1>6. ASSUME NEW w \in Windows, NEW n \in Alerts, Notify(w, n) \/ SendAnswer(w, n) PROVE Once'
  <2>1. Desk' /\ UNCHANGED <<scene, wire, alert, box, said, open, tracker, overtaken>>
    BY <1>6, NotifyStep, SendAnswerStep DEF Notify, SendAnswer, alertVars
  <2>2. \A v \in Windows : Embeds(wire[v], wire'[v], 0)
    BY <2>1, Unpacked, EmbedsBy
  <2>3. ASSUME NEW v \in Windows, NEW k \in Alerts PROVE OnceOnly(v, k)'
    BY <2>1, <2>2, StillOnce DEF Once
  <2> QED BY <2>3 DEF Once
<1>7. ASSUME NEW w \in Windows, NEW n \in Alerts, NEW status \in Answers, Answer(w, n, status) PROVE Once'
  BY <1>7, AnswerStep, AnswerOnce
<1>8. CASE \E w \in Windows : Create(w) \/ Respond(w)
  BY <1>8, CreateOnce, RespondOnce
<1> QED BY <1>1, <1>2, <1>3, <1>4, <1>5, <1>6, <1>7, <1>8, Steps

LEMMA OnceInit == AlertsInit => Once
<1> SUFFICES ASSUME AlertsInit, NEW w \in Windows, NEW n \in Alerts PROVE OnceOnly(w, n)
  BY DEF Once
<1>1. /\ said[w][n] = None /\ box[w][n] = None /\ open[w] = {} /\ tracker[w][n] = None
      /\ DOMAIN wire[w] = {}
  BY EmptyList DEF AlertsInit, ViewsInit
<1> QED BY <1>1 DEF OnceOnly, Unmentioned, Acked, Pushed, PushedFirst, Old

\* A PC asks its Head again for an alert that it answered only when the confirmation overtook an
\* older snapshot that has this alert as pending (on_initial_snapshot).
THEOREM OnceHolds == AlertsSpec => []Once
<1>1. AlertsInit => Once
  BY OnceInit
<1>2. Desk /\ Answering /\ Once /\ [AlertsNext]_alertsVars => Once'
  BY OnceStep
<1> QED BY <1>1, <1>2, DeskHolds, PTL DEF AlertsSpec

\* AskedOnce: an alert answered on a PC is not asked again there (on_priority_alert), unless
\* the confirmation of that very answer was handled before a snapshot that left the server
\* before the answer was stored; what other messages overtook, and other alerts, are no excuse.
THEOREM AlertsAskedOnce == AlertsSpec => []AskedOnce
<1>1. Once => AskedOnce
  <2> SUFFICES ASSUME Once, NEW w \in Windows, NEW n \in Alerts, n \in open[w], said[w][n] # None
               PROVE  n \in overtaken[w]
    BY DEF AskedOnce
  <2> QED BY DEF Once, OnceOnly
<1> QED BY <1>1, OnceHolds, PTL

-----------------------------------------------------------------------------
(* What a step does to the requests and the messages of an open window.    *)

\* A message that leaves the server is true of the alerts at that moment.
Fresh(v, m) ==
  \/ ~Matters(m) \/ m.msg = "ack"
  \/ m.msg = "reply" /\ m.data["alerts"] = alert'
  \/ m.msg = "sent" /\ alert'[m.alert] = "PENDING"
  \/ m.msg = "alert" /\ alert'[m.alert] = "PENDING" /\ v \in Heads
  \/ m.msg = "answered" /\ m.status = alert'[m.alert]

KeepsMessages(v) == wire'[v] = wire[v] \/ \E m : Fresh(v, m) /\ wire'[v] = Append(wire[v], m)

Reloads(v) == \A r \in Range(Asked[Panel(v)]) : \E i \in DOMAIN asks'[v] : asks'[v][i] = Ask(r)

GoesOn(v) == KeepsMessages(v) /\ Continues(asks[v], asks'[v]) /\ warned'[v] = warned[v]

WritesOnly(v) ==
  /\ KeepsMessages(v) /\ warned'[v] = warned[v]
  /\ \E i \in DOMAIN asks[v] : asks[v][i].request \notin ReadRequests /\ Without(asks[v], i, asks'[v])

ReadsOn(v) ==
  /\ wire'[v] = wire[v] /\ warned'[v] = warned[v]
  /\ \E i, a :
       i \in DOMAIN asks[v] /\ a.request = asks[v][i].request /\ asks'[v] = [asks[v] EXCEPT ![i] = a]

GetsReply(v) ==
  /\ warned'[v] = warned[v]
  /\ \E i, m :
       /\ i \in DOMAIN asks[v]
       /\ m.msg = "reply" /\ m.request = asks[v][i].request
       /\ m.request \in {"snapshot", "alerts"} => m.data["alerts"] = alert'
       /\ Without(asks[v], i, asks'[v]) /\ wire'[v] = Append(wire[v], m)

GetsFailure(v) ==
  /\ warned'[v] = warned[v]
  /\ \E i, m :
       /\ i \in DOMAIN asks[v]
       /\ m.msg = "failed" /\ m.request = asks[v][i].request
       /\ Without(asks[v], i, asks'[v]) /\ wire'[v] = Append(wire[v], m)

Takes(v, i) ==
  /\ Without(wire[v], i, wire'[v]) /\ Continues(asks[v], asks'[v])
  /\ (Take(v, i) /\ Shows(v, wire[v][i])) \/ TakeAboutAlert(v, i)
  /\ \/ wire[v][i].msg = "reply" /\ warned'[v] = warned[v] \ {wire[v][i].request}
     \/ wire[v][i].msg = "failed" /\ warned'[v] = warned[v] \cup {wire[v][i].request}
     \/ wire[v][i].msg \notin {"reply", "failed"} /\ warned'[v] = warned[v]

Moves(v) ==
  \/ conn'[v] # "up"
  \/ Reloads(v) /\ KeepsMessages(v) /\ warned'[v] = warned[v] /\ conn[v] # "up"
  \/ \E i \in DOMAIN wire[v] : conn[v] # "up" /\ Reloads(v) /\ Takes(v, i)
  \/ conn[v] = "up" /\ GoesOn(v)
  \/ conn[v] = "up" /\ WritesOnly(v)
  \/ conn[v] = "up" /\ ReadsOn(v)
  \/ conn[v] = "up" /\ GetsReply(v)
  \/ conn[v] = "up" /\ GetsFailure(v)
  \/ \E i \in DOMAIN wire[v] : conn[v] = "up" /\ Takes(v, i)

\* The requests of a window that is connected after the step go on, unless it takes a message.
LEMMA Unaffected ==
  ASSUME Desk, NEW v \in Windows, conn'[v] = conn[v], Continues(asks[v], asks'[v]), KeepsMessages(v),
         warned'[v] = warned[v]
  PROVE  Moves(v)
BY DEF Moves, GoesOn

LEMMA TakeMoves ==
  ASSUME Desk, NEW v \in Windows, NEW w \in Windows, NEW i \in DOMAIN wire[w], Take(w, i), Shows(w, wire[w][i])
  PROVE  Moves(v)
<1>1. /\ Without(wire[w], i, wire'[w]) /\ \A x \in Windows \ {w} : wire'[x] = wire[x]
      /\ \A x \in Windows : Continues(asks[x], asks'[x])
  BY TakeStep
<1>2. /\ wire[w][i].msg \in {"changed", "reply", "failed", "synced", "resumed"}
      /\ wire[w][i].msg = "changed" => TakeChanged(w, i)
      /\ wire[w][i].msg = "reply" => TakeReply(w, i)
      /\ wire[w][i].msg = "failed" => TakeFailed(w, i)
      /\ wire[w][i].msg = "synced" => TakeSynced(w, i)
      /\ wire[w][i].msg = "resumed" => TakeResumed(w, i)
  BY Taking
<1>3. DOMAIN warned = Windows /\ conn \in [Windows -> Connections]
  BY DEF Desk, InTheWindows
<1>4. /\ \A x \in Windows \ {w} : warned'[x] = warned[x] /\ conn'[x] = conn[x]
      /\ wire[w][i].msg # "resumed" => conn'[w] = conn[w]
      /\ wire[w][i].msg = "reply" => warned'[w] = warned[w] \ {wire[w][i].request}
      /\ wire[w][i].msg = "failed" => warned'[w] = warned[w] \cup {wire[w][i].request}
      /\ wire[w][i].msg \notin {"reply", "failed"} => warned'[w] = warned[w]
  BY <1>2, <1>3 DEF TakeChanged, TakeReply, TakeFailed, TakeSynced, TakeResumed
<1>5. CASE v # w
  BY <1>1, <1>4, <1>5, Unaffected DEF KeepsMessages
<1>6. Takes(w, i)
  <2>1. Without(wire[w], i, wire'[w]) /\ Continues(asks[w], asks'[w])
    BY <1>1
  <2>2. CASE wire[w][i].msg = "reply"
    BY <1>4, <2>1, <2>2 DEF Takes
  <2>3. CASE wire[w][i].msg = "failed"
    BY <1>4, <2>1, <2>3 DEF Takes
  <2>4. CASE wire[w][i].msg \notin {"reply", "failed"}
    BY <1>4, <2>1, <2>4 DEF Takes
  <2> QED BY <2>2, <2>3, <2>4
<1>7. CASE v = w /\ wire[w][i].msg # "resumed"
  BY <1>4, <1>6, <1>7 DEF Moves
<1>8. CASE v = w /\ wire[w][i].msg = "resumed"
  <2>1. asks' = Put(asks, w, All(w)) /\ scene \in Scenes
    BY <1>2, <1>8 DEF TakeResumed, Desk
  <2>2. /\ FreshReads(All(w), Range(Asked[Panel(w)]))
        /\ \A r \in Range(Asked[Panel(w)]) : \E k \in DOMAIN All(w) : All(w)[k] = Ask(r)
    BY <2>1, AllAsked
  <2>3. IsList(asks[w]) /\ IsList(All(w)) /\ asks'[w] = asks[w] \o All(w)
    BY <2>1, <2>2, Unpacked DEF Put, FreshReads
  <2>4. ASSUME NEW k \in DOMAIN All(w) PROVE \E j \in DOMAIN asks'[w] : asks'[w][j] = All(w)[k]
    <3> DEFINE u == All(w)
    <3>1. IsList(u) /\ asks'[w] = asks[w] \o u /\ k \in DOMAIN u
      BY <2>3, <2>4
    <3> HIDE DEF u
    <3>2. Len(asks[w]) + k \in DOMAIN asks'[w] /\ asks'[w][Len(asks[w]) + k] = u[k]
      BY <2>3, <3>1, Joined
    <3> QED BY <3>2 DEF u
  <2>5. Reloads(w)
    BY <2>2, <2>4 DEF Reloads
  <2> QED BY <1>6, <1>8, <2>5 DEF Moves
<1> QED BY <1>5, <1>7, <1>8

LEMMA ReadMoves ==
  ASSUME Desk, NEW v \in Windows, NEW w \in Windows, Read(w, Data), UNCHANGED alertVars
  PROVE  Moves(v)
<1>1. \A x \in Windows \ {w} : asks'[x] = asks[x] /\ wire'[x] = wire[x]
  BY ReadStep
<1>2. UNCHANGED <<conn, warned, alert>>
  BY DEF Read, alertVars
<1>3. PICK i, got :
     /\ i \in Handled(w)
     /\ LET a == asks[w][i]
        IN /\ a.left # <<>>
           /\ got = Filled(a.got, Head(a.left), Data)
           /\ \/ /\ Len(a.left) > 1 /\ UNCHANGED wire
                 /\ asks'[w] = [asks[w] EXCEPT ![i] = Asking(a.request, Tail(a.left), got)]
              \/ /\ ~(Len(a.left) > 1) /\ Without(asks[w], i, asks'[w])
                 /\ wire'[w] = Append(wire[w], [msg |-> "reply", request |-> a.request, data |-> got])
                 /\ a.request \in {"snapshot", "alerts"} => got["alerts"] = alert
                 /\ a.request \notin {"snapshot", "alerts"} => KeepsWire
  BY ReadStep
<1>4. i \in DOMAIN asks[w] /\ conn[w] = "up"
  BY <1>3, Unpacked DEF Handled
<1>5. CASE v # w
  <2>1. Continues(asks[v], asks'[v]) /\ KeepsMessages(v) /\ warned'[v] = warned[v] /\ conn'[v] = conn[v]
    BY <1>1, <1>2, <1>5, Unpacked, Continued DEF KeepsMessages
  <2> QED BY <2>1, Unaffected
<1>6. CASE v = w /\ UNCHANGED wire
             /\ asks'[w] = [asks[w] EXCEPT ![i] = Asking(asks[w][i].request, Tail(asks[w][i].left), got)]
  <2> DEFINE a == Asking(asks[w][i].request, Tail(asks[w][i].left), got)
  <2>1. a.request = asks[w][i].request /\ asks'[w] = [asks[w] EXCEPT ![i] = a]
    BY <1>6 DEF Asking
  <2> HIDE DEF a
  <2>2. ReadsOn(w)
    BY <1>2, <1>4, <1>6, <2>1 DEF ReadsOn
  <2> QED BY <1>4, <1>6, <2>2 DEF Moves
<1>7. CASE /\ v = w /\ Without(asks[w], i, asks'[w])
           /\ wire'[w] = Append(wire[w], [msg |-> "reply", request |-> asks[w][i].request, data |-> got])
           /\ asks[w][i].request \in {"snapshot", "alerts"} => got["alerts"] = alert
  <2> DEFINE m == [msg |-> "reply", request |-> asks[w][i].request, data |-> got]
  <2>1. /\ m.msg = "reply" /\ m.request = asks[w][i].request /\ wire'[w] = Append(wire[w], m)
        /\ m.request \in {"snapshot", "alerts"} => m.data["alerts"] = alert'
    BY <1>2, <1>7
  <2> HIDE DEF m
  <2>2. GetsReply(w)
    BY <1>2, <1>4, <1>7, <2>1 DEF GetsReply
  <2> QED BY <1>4, <1>7, <2>2 DEF Moves
<1> QED BY <1>3, <1>5, <1>6, <1>7

LEMMA FailMoves ==
  ASSUME Desk, NEW v \in Windows, NEW w \in Windows, Fail(w), UNCHANGED alertVars
  PROVE  Moves(v)
<1>1. \A x \in Windows \ {w} : asks'[x] = asks[x] /\ wire'[x] = wire[x]
  BY FailStep
<1>2. UNCHANGED <<conn, warned>>
  BY DEF Fail
<1>3. PICK i \in Handled(w) :
        /\ Without(asks[w], i, asks'[w])
        /\ wire'[w] = Append(wire[w], [msg |-> "failed", request |-> asks[w][i].request])
  BY FailStep
<1>4. i \in DOMAIN asks[w] /\ conn[w] = "up"
  BY Unpacked DEF Handled
<1>5. CASE v # w
  <2>1. Continues(asks[v], asks'[v]) /\ KeepsMessages(v) /\ warned'[v] = warned[v] /\ conn'[v] = conn[v]
    BY <1>1, <1>2, <1>5, Unpacked, Continued DEF KeepsMessages
  <2> QED BY <2>1, Unaffected
<1>6. CASE v = w
  <2> DEFINE m == [msg |-> "failed", request |-> asks[w][i].request]
  <2>1. m.msg = "failed" /\ m.request = asks[w][i].request /\ wire'[w] = Append(wire[w], m)
    BY <1>3
  <2> HIDE DEF m
  <2>2. GetsFailure(w)
    BY <1>2, <1>3, <1>4, <2>1 DEF GetsFailure
  <2> QED BY <1>4, <1>6, <2>2 DEF Moves
<1> QED BY <1>5, <1>6

\* A request that writes is done.
LEMMA WriteMoves ==
  ASSUME Desk, NEW v \in Windows, NEW w \in Windows, NEW i \in DOMAIN asks[w],
         asks[w][i].request \notin ReadRequests, Without(asks[w], i, asks'[w]), UNCHANGED <<conn, warned>>,
         \A x \in Windows \ {w} : asks'[x] = asks[x], KeepsMessages(v)
  PROVE  Moves(v)
<1>1. conn[w] = "up"
  BY Unpacked
<1>2. CASE v # w
  <2>1. Continues(asks[v], asks'[v])
    BY <1>2, Unpacked, Continued
  <2> QED BY <2>1, Unaffected
<1>3. CASE v = w
  BY <1>1, <1>3 DEF Moves, WritesOnly
<1> QED BY <1>2, <1>3

\* COO_NOTIFY and RESPOND_NOTIFICATION send at once what is true then.
LEMMA WritesAtOnce ==
  ASSUME Desk, Answering, NEW v \in Windows, NEW w \in Windows, Create(w) \/ Respond(w)
  PROVE  Moves(v) /\ KeepsMessages(v)
<1>1. ASSUME Create(w) PROVE Moves(v) /\ KeepsMessages(v)
  <2>1. PICK i, n, message, reply :
          /\ i \in Handled(w) /\ n \in Alerts
          /\ asks[w][i].request = "notify" /\ asks[w][i].alert = n
          /\ Without(asks[w], i, asks'[w]) /\ \A x \in Windows \ {w} : asks'[x] = asks[x]
          /\ alert[n] = None /\ alert' = [alert EXCEPT ![n] = "PENDING"]
          /\ message.msg = "alert" /\ message.alert = n /\ reply.msg = "sent" /\ reply.alert = n
          /\ wire'[w] = Append(wire[w], reply)
          /\ \A x \in Windows \ {w} :
               \/ wire'[x] = wire[x] /\ (x \notin Heads \/ conn[x] = "down")
               \/ wire'[x] = Append(wire[x], message) /\ x \in Heads /\ conn[x] # "down"
    BY <1>1, CreateStep
  <2>2. i \in DOMAIN asks[w] /\ asks[w][i].request \notin ReadRequests
    BY <2>1, AlertRequest DEF ReadRequests
  <2>3. Fresh(v, reply) /\ (v \in Heads => Fresh(v, message))
    <3>1. alert'[n] = "PENDING"
      BY <2>1 DEF Desk, AboutAlerts
    <3> QED BY <2>1, <3>1 DEF Fresh
  <2>4. KeepsMessages(v) /\ UNCHANGED <<conn, warned>>
    BY <1>1, <2>1, <2>3 DEF KeepsMessages, Create
  <2> QED BY <2>1, <2>2, <2>4, WriteMoves
<1>2. ASSUME Respond(w) PROVE Moves(v) /\ KeepsMessages(v)
  <2>1. PICK i, n, message, reply, ws : Responded(w, i, n, message, reply, ws)
    BY <1>2, RespondStep
  <2>2. i \in DOMAIN asks[w] /\ asks[w][i].request \notin ReadRequests
    BY <2>1, AlertRequest DEF ReadRequests, Responded
  <2>3. Fresh(v, reply) /\ (ws # {} => Fresh(v, message))
    <3>1. ws # {} => alert'[n] = box[w][n]
      BY <2>1 DEF Desk, AboutAlerts, Responded
    <3> QED BY <2>1, <3>1 DEF Fresh, Responded
  <2>4. KeepsMessages(v) /\ UNCHANGED <<conn, warned>>
    BY <1>2, <2>1, <2>3 DEF KeepsMessages, Respond, Responded
  <2> QED BY <2>1, <2>2, <2>4, WriteMoves DEF Responded
<1> QED BY <1>1, <1>2

LEMMA ServerMoves ==
  ASSUME Desk, Answering, NEW v \in Windows, Server
  PROVE  Moves(v)
<1>0. Continues(asks[v], asks[v]) /\ DOMAIN wire = Windows
  BY Unpacked, Continued
<1>1. ASSUME NEW k \in Kinds, Change(k) PROVE Moves(v)
  <2>1. UNCHANGED <<conn, asks, wire, warned>>
    BY <1>1 DEF Change
  <2> QED BY <1>0, <2>1, Unaffected DEF KeepsMessages
<1>2. ASSUME NEW i \in DOMAIN handlers, Announce(i) PROVE Moves(v)
  <2>1. UNCHANGED <<conn, asks, warned>> /\ wire' = Send(Head(handlers[i]))
    BY <1>2 DEF Announce
  <2>2. ~Matters(Head(handlers[i]).message)
    <3>1. ItemsOK(handlers[i]) /\ handlers[i] # <<>>
      BY <1>2 DEF Announce, Desk, HandlersTyped
    <3>2. 1 \in DOMAIN handlers[i] /\ Head(handlers[i]) = handlers[i][1]
      BY <3>1, Rest DEF ItemsOK
    <3> QED BY <3>1, <3>2, ItemsDoNotMatter DEF ItemsOK
  <2>3. KeepsMessages(v)
    BY <2>1, <2>2 DEF KeepsMessages, Send, Fresh
  <2> QED BY <1>0, <2>1, <2>3, Unaffected
<1>3. ASSUME NEW w \in Windows, Store(w) PROVE Moves(v)
  <2>1. PICK i \in Handled(w) :
          asks[w][i].request \in HeadsOwn /\ asks' = [asks EXCEPT ![w] = RemoveAt(@, i)]
    BY <1>3 DEF Store
  <2>2. UNCHANGED <<scene, conn, wire, warned>>
    BY <1>3 DEF Store
  <2>3. i \in DOMAIN asks[w] /\ asks[w][i].request \notin ReadRequests
    BY <2>1, Reading, Unpacked DEF Handled, HeadsOwn, ReadRequests
  <2>4. Without(asks[w], i, asks'[w]) /\ \A x \in Windows \ {w} : asks'[x] = asks[x]
    BY <2>1, <2>2, <2>3, AsksTaken
  <2> QED BY <2>2, <2>3, <2>4, WriteMoves DEF KeepsMessages
<1> QED BY <1>1, <1>2, <1>3, WritesAtOnce, ReadMoves DEF Server

LEMMA HearMoves ==
  ASSUME Desk, NEW v \in Windows, NEW w \in Windows, NEW i \in DOMAIN wire[w], TakeAboutAlert(w, i)
  PROVE  Moves(v)
<1>1. /\ Without(wire[w], i, wire'[w]) /\ \A x \in Windows \ {w} : wire'[x] = wire[x]
      /\ \A x \in Windows : Continues(asks[x], asks'[x])
  BY TakeAboutAlertStep
<1>2. UNCHANGED <<conn, warned>> /\ wire[w][i].msg \notin {"reply", "failed"}
  <2>1. wire[w][i].msg \in {"alert", "answered", "sent", "ack"} /\ UNCHANGED <<conn, warned>>
    BY TakingAboutAlert
  <2> QED BY <2>1
<1>3. CASE v # w
  BY <1>1, <1>2, <1>3, Unaffected DEF KeepsMessages
<1>4. CASE v = w
  <2>1. Takes(w, i)
    BY <1>1, <1>2 DEF Takes
  <2>2. conn'[w] = conn[w] /\ (conn[w] # "up" => conn'[w] # "up")
    BY <1>2
  <2> QED BY <1>4, <2>1, <2>2 DEF Moves
<1> QED BY <1>3, <1>4

LEMMA WindowMoves ==
  ASSUME Desk, NEW v \in Windows, NEW w \in Windows, Window(w)
  PROVE  Moves(v)
<1>0. Continues(asks[v], asks[v]) /\ DOMAIN wire = Windows
  BY Unpacked, Continued
<1>1. ASSUME Fire(w), UNCHANGED alertVars PROVE Moves(v)
  <2>1. UNCHANGED <<conn, wire, warned>> /\ Continues(asks[v], asks'[v])
    BY <1>1, FireStep DEF Fire
  <2> QED BY <2>1, Unaffected DEF KeepsMessages
<1>2. ASSUME NEW k \in Kinds, Submit(w, k), UNCHANGED alertVars PROVE Moves(v)
  <2>1. UNCHANGED <<conn, wire, warned>> /\ Continues(asks[v], asks'[v])
    BY <1>2, SubmitStep DEF Submit
  <2> QED BY <2>1, Unaffected DEF KeepsMessages
<1>3. ASSUME OpenWorkspace(w), UNCHANGED alertVars PROVE Moves(v)
  <2>1. asks'[w] = All(w) /\ \A x \in Windows \ {w} : asks'[x] = asks[x]
    BY <1>3, OpenStep
  <2>2. UNCHANGED <<wire, warned>> /\ conn[w] = "opening" /\ conn' = [conn EXCEPT ![w] = "up"]
    BY <1>3 DEF OpenWorkspace
  <2>3. CASE v # w
    <3>1. conn'[v] = conn[v]
      BY <2>2, <2>3
    <3> QED BY <1>0, <2>1, <2>2, <2>3, <3>1, Unaffected DEF KeepsMessages
  <2>4. CASE v = w
    <3>1. \A r \in Range(Asked[Panel(w)]) : \E i \in DOMAIN All(w) : All(w)[i] = Ask(r)
      BY AllAsked DEF Desk
    <3>2. Reloads(w)
      BY <2>1, <3>1 DEF Reloads
    <3> QED BY <2>2, <2>4, <3>2 DEF Moves, KeepsMessages
  <2> QED BY <2>3, <2>4
<1>4. ASSUME NEW n \in Alerts, Notify(w, n) \/ SendAnswer(w, n) PROVE Moves(v)
  <2>1. /\ UNCHANGED <<scene, version, changes, handlers, conn, wire, dirty, view, warned, faults>>
        /\ UNCHANGED alertVars /\ conn[w] = "up"
    BY <1>4 DEF Notify, SendAnswer
  <2>2. Continues(asks[w], asks'[w]) /\ \A x \in Windows \ {w} : asks'[x] = asks[x]
    <3>1. CASE Notify(w, n)
      <4>1. /\ asks' = Put(asks, w, <<[request |-> "notify", left |-> <<>>, got |-> <<>>, alert |-> n]>>)
            /\ Panel(w) = "coo"
        BY <3>1 DEF Notify, Coos
      <4>2. PICK r \in {"notify", "respond"} : r = "notify"
        OBVIOUS
      <4>3. asks' = Put(asks, w, <<[request |-> r, left |-> <<>>, got |-> <<>>, alert |-> n]>>)
        BY <4>1, <4>2
      <4> QED BY <2>1, <4>1, <4>3, AskedAbout
    <3>2. CASE SendAnswer(w, n)
      <4>1. asks' = Put(asks, w, <<[request |-> "respond", left |-> <<>>, got |-> <<>>, alert |-> n]>>)
        BY <3>2 DEF SendAnswer
      <4>2. PICK r \in {"notify", "respond"} : r = "respond"
        OBVIOUS
      <4>3. r # "notify" /\ asks' = Put(asks, w, <<[request |-> r, left |-> <<>>, got |-> <<>>, alert |-> n]>>)
        BY <4>1, <4>2
      <4> QED BY <2>1, <4>3, AskedAbout
    <3> QED BY <1>4, <3>1, <3>2
  <2> QED BY <1>0, <2>1, <2>2, Unaffected DEF KeepsMessages
<1>5. ASSUME NEW n \in Alerts, NEW s \in Answers, Answer(w, n, s) PROVE Moves(v)
  <2>1. UNCHANGED <<conn, asks, wire, warned>>
    BY <1>5 DEF Answer, viewVars
  <2> QED BY <1>0, <2>1, Unaffected DEF KeepsMessages
<1> QED BY <1>1, <1>2, <1>3, <1>4, <1>5, TakeMoves, HearMoves DEF Window

LEMMA MovesOf ==
  ASSUME Desk, Answering, NEW v \in Windows, [AlertsNext]_alertsVars
  PROVE  Moves(v)
<1>0. Continues(asks[v], asks[v]) /\ DOMAIN wire = Windows
  BY Unpacked, Continued
<1>1. CASE UNCHANGED alertsVars
  <2>1. UNCHANGED <<conn, asks, wire, warned>>
    BY <1>1 DEF alertsVars, viewVars
  <2> QED BY <1>0, <2>1, Unaffected DEF KeepsMessages
<1>2. ASSUME NEW w \in Windows, Faults(w) PROVE Moves(v)
  <2>1. CASE Fail(w) /\ UNCHANGED alertVars
    BY <2>1, FailMoves
  <2>2. CASE Drop(w) \/ Resume(w) \/ Reopened(w)
    <3>1. /\ conn'[w] # "up" /\ \A x \in Windows \ {w} : conn'[x] = conn[x]
          /\ \A x \in Windows \ {w} : asks'[x] = asks[x] /\ wire'[x] = wire[x] /\ warned'[x] = warned[x]
      BY <2>2 DEF Drop, Resume, Reopened, Restart, Desk, AsksTyped, WireTyped, InTheWindows
    <3>2. CASE v = w
      BY <3>1, <3>2 DEF Moves
    <3>3. CASE v # w
      BY <1>0, <3>1, <3>3, Unaffected DEF KeepsMessages
    <3> QED BY <3>2, <3>3
  <2> QED BY <1>2, <2>1, <2>2 DEF Faults
<1> QED BY <1>1, <1>2, ServerMoves, WindowMoves DEF AlertsNext

-----------------------------------------------------------------------------
(* A window that has asked for something is told. *)

Failed(m, r) == m.msg = "failed" /\ m.request = r
Replies(m, r) == m.msg = "reply" /\ m.request = r

Requested(w, r) == \E i \in DOMAIN asks[w] : asks[w][i].request = r
Undelivered(w, r) == \E i \in DOMAIN wire[w] : Failed(wire[w][i], r)

\* Request r of an open window is on its way, or the last one failed.
Reload(w, r) == Requested(w, r) \/ Undelivered(w, r) \/ r \in warned[w]

\* A reply to r is sent with the alerts of that moment, or a reply is shown.
Sent(w, r) ==
  \E m : /\ Replies(m, r) /\ wire'[w] = Append(wire[w], m)
         /\ r \in {"snapshot", "alerts"} => m.data["alerts"] = alert'
Shown1(w, r) ==
  \E i \in DOMAIN wire[w] : Replies(wire[w][i], r) /\ Take(w, i) /\ Shows(w, wire[w][i])

LEMMA MessageStays ==
  ASSUME Desk, NEW v \in Windows, NEW j \in DOMAIN wire[v]
  PROVE  /\ KeepsMessages(v) => j \in DOMAIN wire'[v] /\ wire'[v][j] = wire[v][j]
         /\ \A m : wire'[v] = Append(wire[v], m) => j \in DOMAIN wire'[v] /\ wire'[v][j] = wire[v][j]
         /\ \A i \in DOMAIN wire[v] : Without(wire[v], i, wire'[v]) /\ i # j =>
              \E k \in DOMAIN wire'[v] : wire'[v][k] = wire[v][j]
<1>1. IsList(wire[v])
  BY Unpacked
<1>2. \A m : Continues(wire[v], Append(wire[v], m))
  BY <1>1, Appended
<1>3. KeepsMessages(v) => j \in DOMAIN wire'[v] /\ wire'[v][j] = wire[v][j]
  BY <1>2 DEF KeepsMessages, Continues
<1>4. ASSUME NEW i \in DOMAIN wire[v], Without(wire[v], i, wire'[v]), i # j
      PROVE  \E k \in DOMAIN wire'[v] : wire'[v][k] = wire[v][j]
  <2>1. /\ i \in Nat /\ j \in Nat
        /\ j < i => j \in DOMAIN wire'[v] /\ wire'[v][j] = wire[v][j]
        /\ j > i => j - 1 \in DOMAIN wire'[v] /\ wire'[v][j - 1] = wire[v][j]
    BY <1>1, <1>4, Remaining, Listed
  <2> QED BY <1>4, <2>1
<1> QED BY <1>2, <1>3, <1>4 DEF Continues

LEMMA RequestStays ==
  ASSUME Desk, NEW v \in Windows, NEW j \in DOMAIN asks[v]
  PROVE  /\ Continues(asks[v], asks'[v]) => j \in DOMAIN asks'[v] /\ asks'[v][j] = asks[v][j]
         /\ \A i \in DOMAIN asks[v] : Without(asks[v], i, asks'[v]) /\ i # j =>
              \E k \in DOMAIN asks'[v] : asks'[v][k] = asks[v][j]
         /\ \A i \in DOMAIN asks[v] : \A a : a.request = asks[v][i].request /\ asks'[v] = [asks[v] EXCEPT ![i] = a] =>
              \E k \in DOMAIN asks'[v] : asks'[v][k].request = asks[v][j].request
<1>1. IsList(asks[v])
  BY Unpacked
<1>2. ASSUME NEW i \in DOMAIN asks[v], Without(asks[v], i, asks'[v]), i # j
      PROVE  \E k \in DOMAIN asks'[v] : asks'[v][k] = asks[v][j]
  <2>1. /\ i \in Nat /\ j \in Nat
        /\ j < i => j \in DOMAIN asks'[v] /\ asks'[v][j] = asks[v][j]
        /\ j > i => j - 1 \in DOMAIN asks'[v] /\ asks'[v][j - 1] = asks[v][j]
    BY <1>1, <1>2, Remaining, Listed
  <2> QED BY <1>2, <2>1
<1>3. ASSUME NEW i \in DOMAIN asks[v], NEW a, a.request = asks[v][i].request, asks'[v] = [asks[v] EXCEPT ![i] = a]
      PROVE  \E k \in DOMAIN asks'[v] : asks'[v][k].request = asks[v][j].request
  <2>1. j \in DOMAIN asks'[v] /\ asks'[v][j] = IF j = i THEN a ELSE asks[v][j]
    BY <1>1, <1>3, Changed1
  <2> QED BY <1>3, <2>1
<1> QED BY <1>2, <1>3 DEF Continues

\* Until its reply is sent.
LEMMA StillRequested ==
  ASSUME Desk, NEW v \in Windows, NEW r \in ReadRequests, Moves(v), conn'[v] = "up", conn[v] = "up", Requested(v, r)
  PROVE  Reload(v, r)' \/ Sent(v, r)
<1>1. PICK j \in DOMAIN asks[v] : asks[v][j].request = r
  BY DEF Requested
<1>2. CASE Continues(asks[v], asks'[v])
  BY <1>1, <1>2, RequestStays DEF Requested, Reload
<1>3. CASE WritesOnly(v)
  <2>1. PICK i \in DOMAIN asks[v] : asks[v][i].request \notin ReadRequests /\ Without(asks[v], i, asks'[v])
    BY <1>3 DEF WritesOnly
  <2>2. i # j
    BY <1>1, <2>1
  <2> QED BY <1>1, <2>1, <2>2, RequestStays DEF Requested, Reload
<1>4. CASE ReadsOn(v)
  <2>1. PICK i, a :
          i \in DOMAIN asks[v] /\ a.request = asks[v][i].request /\ asks'[v] = [asks[v] EXCEPT ![i] = a]
    BY <1>4 DEF ReadsOn
  <2> QED BY <1>1, <2>1, RequestStays DEF Requested, Reload
<1>5. CASE GetsReply(v)
  <2>1. PICK i, m :
          /\ i \in DOMAIN asks[v]
          /\ m.msg = "reply" /\ m.request = asks[v][i].request
          /\ m.request \in {"snapshot", "alerts"} => m.data["alerts"] = alert'
          /\ Without(asks[v], i, asks'[v]) /\ wire'[v] = Append(wire[v], m)
    BY <1>5 DEF GetsReply
  <2>2. CASE i = j
    BY <1>1, <2>1, <2>2 DEF Sent, Replies
  <2>3. CASE i # j
    BY <1>1, <2>1, <2>3, RequestStays DEF Requested, Reload
  <2> QED BY <2>2, <2>3
<1>6. CASE GetsFailure(v)
  <2>1. PICK i, m :
          /\ i \in DOMAIN asks[v]
          /\ m.msg = "failed" /\ m.request = asks[v][i].request
          /\ Without(asks[v], i, asks'[v]) /\ wire'[v] = Append(wire[v], m)
    BY <1>6 DEF GetsFailure
  <2>2. CASE i = j
    <3>1. IsList(wire[v])
      BY Unpacked
    <3>2. /\ Continues(wire[v], Append(wire[v], m)) /\ Len(Append(wire[v], m)) = Len(wire[v]) + 1
          /\ Append(wire[v], m)[Len(wire[v]) + 1] = m
      BY <3>1, Appended
    <3>3. Len(wire[v]) + 1 \in DOMAIN wire'[v] /\ wire'[v][Len(wire[v]) + 1] = m
      BY <2>1, <3>1, <3>2, Listed DEF Continues
    <3> QED BY <1>1, <2>1, <2>2, <3>3 DEF Undelivered, Failed, Reload
  <2>3. CASE i # j
    BY <1>1, <2>1, <2>3, RequestStays DEF Requested, Reload
  <2> QED BY <2>2, <2>3
<1> QED BY <1>2, <1>3, <1>4, <1>5, <1>6 DEF Moves, GoesOn, Takes

\* A failure stays on the connection until it is shown, and the toast until a reply is.
LEMMA StillFailed ==
  ASSUME Desk, NEW v \in Windows, NEW r \in ReadRequests, Moves(v), conn'[v] = "up", conn[v] = "up",
         Undelivered(v, r) \/ r \in warned[v]
  PROVE  Reload(v, r)' \/ Shown1(v, r)
<1>1. CASE GoesOn(v) \/ WritesOnly(v) \/ ReadsOn(v)
  <2>1. KeepsMessages(v) /\ warned'[v] = warned[v]
    BY <1>1 DEF GoesOn, WritesOnly, ReadsOn, KeepsMessages
  <2> QED BY <2>1, MessageStays DEF Undelivered, Reload
<1>2. CASE GetsReply(v) \/ GetsFailure(v)
  <2>1. KeepsMessages(v) /\ warned'[v] = warned[v]
    BY <1>2 DEF GetsReply, GetsFailure, KeepsMessages, Fresh, Matters
  <2> QED BY <2>1, MessageStays DEF Undelivered, Reload
<1>3. ASSUME NEW i \in DOMAIN wire[v], Takes(v, i) PROVE Reload(v, r)' \/ Shown1(v, r)
  <2>1. Without(wire[v], i, wire'[v])
    BY <1>3 DEF Takes
  <2>2. CASE Failed(wire[v][i], r)
    BY <1>3, <2>2 DEF Takes, Failed, Reload
  <2>3. CASE Replies(wire[v][i], r)
    <3>1. Take(v, i) /\ Shows(v, wire[v][i])
      BY <1>3, <2>3, TakingAboutAlert DEF Takes, Replies
    <3> QED BY <2>3, <3>1 DEF Shown1
  <2>4. CASE ~Failed(wire[v][i], r) /\ ~Replies(wire[v][i], r)
    <3>1. r \in warned[v] => r \in warned'[v]
      BY <1>3, <2>4 DEF Takes, Replies
    <3>2. ASSUME NEW j \in DOMAIN wire[v], Failed(wire[v][j], r) PROVE Undelivered(v, r)'
      <4>1. i # j
        BY <2>4, <3>2
      <4> QED BY <2>1, <3>2, <4>1, MessageStays DEF Undelivered
    <3> QED BY <3>1, <3>2 DEF Undelivered, Reload
  <2> QED BY <2>2, <2>3, <2>4
<1> QED BY <1>1, <1>2, <1>3 DEF Moves

LEMMA ReloadGoesOn ==
  ASSUME Desk, NEW v \in Windows, NEW r \in ReadRequests, Moves(v), conn'[v] = "up",
         r \in Range(Asked[Panel(v)]), conn[v] # "up" \/ Reload(v, r)
  PROVE  Reload(v, r)' \/ Sent(v, r) \/ Shown1(v, r)
<1>1. CASE conn[v] # "up"
  <2>1. Reloads(v)
    BY <1>1 DEF Moves
  <2>2. PICK i \in DOMAIN asks'[v] : asks'[v][i] = Ask(r)
    BY <2>1 DEF Reloads
  <2>3. Ask(r).request = r
    BY DEF Ask, Asking
  <2> QED BY <2>2, <2>3 DEF Requested, Reload
<1> QED BY <1>1, StillRequested, StillFailed DEF Reload

-----------------------------------------------------------------------------
(* No pending alert is missed. *)

Known(w, n) == n \in open[w] \/ box[w][n] # None
Covered(w, n) == Known(w, n) \/ Pushed(wire[w], n)

\* A Head's window has a pending alert or will get it, and a snapshot that does not have it
\* cannot take the place of one that has.
NotMissed(w, n) ==
  /\ conn[w] = "up" => Reload(w, "snapshot") \/ Covered(w, n) \/ Old(wire[w], n)
  /\ \A i \in DOMAIN wire[w] :
       Replies(wire[w][i], "snapshot") /\ wire[w][i].data["alerts"][n] # "PENDING" => Covered(w, n)

NoneMissed == \A w \in Heads, n \in PendingIn(alert) : NotMissed(w, n)

LEMMA SceneStays ==
  ASSUME Desk, Answering, [AlertsNext]_alertsVars
  PROVE  Desk' /\ UNCHANGED scene /\ Heads' = Heads /\ Coos' = Coos /\ \A w \in Windows : Panel(w)' = Panel(w)
<1>1. UNCHANGED scene
  <2>1. /\ \A w \in Windows, n \in Alerts : Notify(w, n) \/ SendAnswer(w, n) => UNCHANGED scene
        /\ \A w \in Windows, n \in Alerts, s \in Answers : Answer(w, n, s) => UNCHANGED scene
    BY DEF Notify, SendAnswer, Answer, viewVars
  <2> QED BY <2>1, Steps, TakeStep, TakeAboutAlertStep, CreateStep, RespondStep DEF Quiet
<1> QED BY <1>1, AnsweringStep DEF Heads, Coos, Panel

LEMMA StillKnown ==
  ASSUME Desk, Answering, [AlertsNext]_alertsVars, NEW v \in Windows, NEW n \in Alerts,
         conn'[v] = "up", alert[n] = "PENDING", Known(v, n)
  PROVE  Known(v, n)'
<1>0. /\ open \in [Windows -> SUBSET Alerts]
      /\ box \in [Windows -> [Alerts -> Answers \cup {None, "FAILED"}]]
  BY DEF Desk, AboutAlerts
<1>1. CASE UNCHANGED <<open, box>>
  BY <1>1 DEF Known
<1>2. ASSUME NEW w \in Windows, Reopened(w) PROVE Known(v, n)'
  <2>1. v # w
    BY <1>2, ReopenedStep
  <2>2. UNCHANGED box /\ open' = [open EXCEPT ![w] = {}]
    BY <1>2 DEF Reopened
  <2> QED BY <1>0, <2>1, <2>2 DEF Known
<1>3. ASSUME NEW w \in Windows, NEW i \in DOMAIN wire[w], Take(w, i), Shows(w, wire[w][i]) PROVE Known(v, n)'
  BY <1>3, Showing DEF Known
<1>4. ASSUME NEW w \in Windows, NEW i \in DOMAIN wire[w], TakeAboutAlert(w, i) PROVE Known(v, n)'
  <2>1. /\ wire[w][i].msg \in {"alert", "answered", "sent", "ack"} /\ wire[w][i].alert \in Alerts
        /\ wire[w][i].msg = "alert" => TakeAlert(w, i)
        /\ wire[w][i].msg = "answered" => TakeAnswered(w, i)
        /\ wire[w][i].msg = "sent" => TakeSent(w, i)
        /\ wire[w][i].msg = "ack" => TakeAck(w, i)
    BY <1>4, TakingAboutAlert
  <2>2. CASE wire[w][i].msg \in {"answered", "sent"}
    BY <1>1, <2>1, <2>2 DEF TakeAnswered, TakeSent
  <2>3. CASE wire[w][i].msg = "alert"
    <3>1. UNCHANGED box /\ (UNCHANGED open \/ open' = [open EXCEPT ![w] = @ \cup {wire[w][i].alert}])
      BY <2>1, <2>3 DEF TakeAlert
    <3> QED BY <1>0, <3>1 DEF Known
  <2>4. CASE wire[w][i].msg = "ack"
    <3> DEFINE k == wire[w][i].alert
    <3>1. UNCHANGED open /\ box' = [box EXCEPT ![w][k] = IF wire[w][i].ok THEN None ELSE "FAILED"]
      <4>1. TakeAck(w, i)
        BY <2>1, <2>4
      <4> QED BY <4>1, Zenon DEF TakeAck
    <3>2. wire[w][i].ok => alert[k] \in Answers
      BY <2>4 DEF Answering, OneAnswerAtATime, OneAnswer, Acks
    <3>3. k \in Alerts
      BY <2>1
    <3> HIDE DEF k
    <3>4. v = w /\ n = k => ~wire[w][i].ok
      BY <3>2 DEF Answers
    <3>5. box'[v][n] = box[v][n] \/ box'[v][n] = "FAILED"
      BY <1>0, <3>1, <3>3, <3>4
    <3> QED BY <3>1, <3>5 DEF Known, None
  <2> QED BY <2>1, <2>2, <2>3, <2>4
<1>5. ASSUME NEW w \in Windows, NEW k \in Alerts, Notify(w, k) \/ SendAnswer(w, k) PROVE Known(v, n)'
  BY <1>1, <1>5 DEF Notify, SendAnswer, alertVars
<1>6. ASSUME NEW w \in Windows, NEW k \in Alerts, NEW status \in Answers, Answer(w, k, status) PROVE Known(v, n)'
  <2>1. open' = [open EXCEPT ![w] = @ \ {k}] /\ box' = [box EXCEPT ![w][k] = status]
    BY <1>6 DEF Answer
  <2>2. status # None
    BY DEF Answers, None
  <2>3. CASE v = w /\ n = k
    <3>1. box'[v][n] = status
      BY <1>0, <2>1, <2>3
    <3> QED BY <2>2, <3>1 DEF Known
  <2>4. CASE v # w \/ n # k
    <3>1. box'[v][n] = box[v][n] /\ (n \in open[v] => n \in open'[v])
      BY <1>0, <2>1, <2>4
    <3> QED BY <3>1 DEF Known
  <2> QED BY <2>3, <2>4
<1>7. UNCHANGED alertVars => UNCHANGED <<open, box>>
  BY DEF alertVars
<1> QED BY <1>1, <1>2, <1>3, <1>4, <1>5, <1>6, <1>7, Steps, CreateStep, RespondStep DEF Loaded

LEMMA StillCovered ==
  ASSUME Desk, Answering, [AlertsNext]_alertsVars, NEW v \in Windows, NEW n \in Alerts,
         conn'[v] = "up", alert[n] = "PENDING", Covered(v, n)
  PROVE  Covered(v, n)'
<1>1. Moves(v)
  BY MovesOf
<1>2. ASSUME NEW j \in DOMAIN wire[v], Is(wire[v][j], "alert", n) PROVE Covered(v, n)'
  <2>1. CASE KeepsMessages(v)
    BY <1>2, <2>1, MessageStays DEF Pushed, Covered
  <2>2. ASSUME NEW i \in DOMAIN wire[v], Takes(v, i) PROVE Covered(v, n)'
    <3>1. Without(wire[v], i, wire'[v])
      BY <2>2 DEF Takes
    <3>2. CASE i # j
      <4>1. \E k \in DOMAIN wire'[v] : wire'[v][k] = wire[v][j]
        BY <3>1, <3>2, MessageStays
      <4> QED BY <1>2, <4>1 DEF Pushed, Covered
    <3>3. CASE i = j
      <4>1. TakeAboutAlert(v, i)
        BY <1>2, <2>2, <3>3, Taking DEF Takes, Is
      <4>2. TakeAlert(v, i) /\ conn[v] = "up" /\ wire[v][i].alert = n
        BY <1>2, <3>3, <4>1, TakingAboutAlert DEF Is
      <4>3. UNCHANGED box /\ open' = IF ToShow(v, n) THEN [open EXCEPT ![v] = @ \cup {n}] ELSE open
        BY <4>2 DEF TakeAlert
      <4>4. DOMAIN open = Windows
        BY DEF Desk, AboutAlerts
      <4>5. n \in open'[v] \/ box'[v][n] # None
        BY <4>3, <4>4 DEF ToShow
      <4> QED BY <4>5 DEF Known, Covered
    <3> QED BY <3>2, <3>3
  <2>3. GetsReply(v) \/ GetsFailure(v) \/ ReadsOn(v) \/ WritesOnly(v) \/ GoesOn(v) => KeepsMessages(v)
    BY DEF GetsReply, GetsFailure, ReadsOn, WritesOnly, GoesOn, KeepsMessages, Fresh, Matters
  <2> QED BY <1>1, <2>1, <2>2, <2>3 DEF Moves
<1> QED BY <1>2, StillKnown DEF Covered, Pushed

\* The messages about alerts on a connection are those that were there, and fresh ones.
LEMMA MessagesOf ==
  ASSUME Desk, Answering, [AlertsNext]_alertsVars, NEW v \in Windows,
         NEW j \in DOMAIN wire'[v], Matters(wire'[v][j])
  PROVE  Fresh(v, wire'[v][j]) \/ \E i \in DOMAIN wire[v] : wire[v][i] = wire'[v][j]
<1>0. IsList(wire[v])
  BY Unpacked
<1>1. CASE wire'[v] = wire[v]
  BY <1>1
<1>2. CASE KeepsWire
  BY <1>0, <1>2 DEF KeepsWire, WireKept
<1>3. ASSUME NEW i \in DOMAIN wire[v], Without(wire[v], i, wire'[v])
      PROVE  \E k \in DOMAIN wire[v] : wire[v][k] = wire'[v][j]
  <2>1. /\ i \in Nat /\ j \in Nat
        /\ j < i => j \in DOMAIN wire[v] /\ wire'[v][j] = wire[v][j]
        /\ j >= i => j + 1 \in DOMAIN wire[v] /\ wire'[v][j] = wire[v][j + 1]
    BY <1>0, <1>3, Remaining, Listed
  <2> QED BY <2>1
<1>4. ASSUME NEW m, wire'[v] = Append(wire[v], m)
      PROVE  wire'[v][j] = m \/ \E i \in DOMAIN wire[v] : wire[v][i] = wire'[v][j]
  <2>1. Continues(wire[v], wire'[v]) /\ Len(wire'[v]) = Len(wire[v]) + 1 /\ wire'[v][Len(wire[v]) + 1] = m
    BY <1>0, <1>4, Appended
  <2>2. /\ j \in 1..Len(wire'[v]) /\ DOMAIN wire[v] = 1..Len(wire[v]) /\ Len(wire[v]) \in Nat
        /\ \A i \in DOMAIN wire[v] : wire'[v][i] = wire[v][i]
    BY <1>0, <2>1, Listed DEF Continues
  <2>3. j \in DOMAIN wire[v] \/ j = Len(wire[v]) + 1
    BY <2>1, <2>2
  <2> QED BY <2>1, <2>2, <2>3
<1>5. ASSUME NEW w \in Windows, NEW i \in DOMAIN wire[w],
             Without(wire[w], i, wire'[w]) /\ \A x \in Windows \ {w} : wire'[x] = wire[x]
      PROVE  \E k \in DOMAIN wire[v] : wire[v][k] = wire'[v][j]
  BY <1>3, <1>5
<1>6. ASSUME NEW w \in Windows, Loaded(w)
      PROVE  Fresh(v, wire'[v][j]) \/ \E i \in DOMAIN wire[v] : wire[v][i] = wire'[v][j]
  <2>1. PICK m : /\ m.msg = "reply" /\ m.data["alerts"] = alert /\ wire'[w] = Append(wire[w], m)
                 /\ \A x \in Windows \ {w} : wire'[x] = wire[x]
                 /\ UNCHANGED alertVars
    BY <1>6 DEF Loaded
  <2>2. Fresh(v, m)
    BY <2>1 DEF alertVars, Fresh
  <2> QED BY <1>1, <1>4, <2>1, <2>2
<1>7. ASSUME NEW w \in Windows, Create(w) \/ Respond(w)
      PROVE  Fresh(v, wire'[v][j]) \/ \E i \in DOMAIN wire[v] : wire[v][i] = wire'[v][j]
  <2>1. KeepsMessages(v)
    BY <1>7, WritesAtOnce
  <2> QED BY <1>1, <1>4, <2>1 DEF KeepsMessages
<1>8. /\ \A w \in Windows, n \in Alerts : Notify(w, n) \/ SendAnswer(w, n) => UNCHANGED wire
      /\ \A w \in Windows, n \in Alerts, s \in Answers : Answer(w, n, s) => UNCHANGED wire
  BY DEF Notify, SendAnswer, Answer, viewVars
<1>9. /\ \A w \in Windows : \A i \in DOMAIN wire[w] :
            TakeAboutAlert(w, i) \/ (Take(w, i) /\ Shows(w, wire[w][i])) =>
              Without(wire[w], i, wire'[w]) /\ \A x \in Windows \ {w} : wire'[x] = wire[x]
  BY TakeStep, TakeAboutAlertStep
<1> QED BY <1>1, <1>2, <1>5, <1>6, <1>7, <1>8, <1>9, Steps DEF Quiet

\* A new alert is pushed to the PCs that are connected.
LEMMA NewlyPending ==
  ASSUME Desk, Answering, [AlertsNext]_alertsVars, NEW v \in Heads, NEW n \in Alerts, alert'[n] = "PENDING"
  PROVE  alert[n] = "PENDING" \/ (alert[n] = None /\ (conn'[v] = "down" \/ Pushed(wire'[v], n)))
<1>0. alert \in [Alerts -> Statuses \cup {None}] /\ v \in Windows /\ Panel(v) = "head"
  BY DEF Desk, AboutAlerts, Heads
<1>1. CASE UNCHANGED alert
  BY <1>1
<1>2. ASSUME NEW w \in Windows, Create(w) PROVE alert[n] = "PENDING" \/ (alert[n] = None /\ (conn'[v] = "down" \/ Pushed(wire'[v], n)))
  <2>1. UNCHANGED <<scene, conn>>
    BY <1>2, CreateStep
  <2>2. PICK i, k, message, reply :
          /\ i \in Handled(w) /\ k \in Alerts
          /\ asks[w][i].request = "notify" /\ asks[w][i].alert = k
          /\ Without(asks[w], i, asks'[w]) /\ \A x \in Windows \ {w} : asks'[x] = asks[x]
          /\ alert[k] = None /\ alert' = [alert EXCEPT ![k] = "PENDING"]
          /\ message.msg = "alert" /\ message.alert = k /\ reply.msg = "sent" /\ reply.alert = k
          /\ wire'[w] = Append(wire[w], reply)
          /\ \A x \in Windows \ {w} :
               \/ wire'[x] = wire[x] /\ (x \notin Heads \/ conn[x] = "down")
               \/ wire'[x] = Append(wire[x], message) /\ x \in Heads /\ conn[x] # "down"
    BY <1>2, CreateStep
  <2>3. v # w
    <3>1. Panel(w) = "coo"
      BY <2>2, AlertRequest DEF Notifies
    <3> QED BY <1>0, <3>1
  <2>4. CASE n = k
    <3>1. CASE wire'[v] = Append(wire[v], message)
      <4>1. IsList(wire[v])
        BY <1>0, Unpacked
      <4>2. Is(message, "alert", n)
        BY <2>2, <2>4 DEF Is
      <4> QED BY <2>2, <2>4, <3>1, <4>1, <4>2, AppendedMessages
    <3> QED BY <1>0, <2>1, <2>2, <2>3, <2>4, <3>1
  <2>5. CASE n # k
    BY <1>0, <2>2, <2>5
  <2> QED BY <2>4, <2>5
<1>3. ASSUME NEW w \in Windows, Respond(w) PROVE alert[n] = "PENDING"
  <2>1. PICK i, k, message, reply, ws : Responded(w, i, k, message, reply, ws)
    BY <1>3, RespondStep
  <2>2. k \in Alerts /\ box[w][k] \in Answers /\ (alert' = [alert EXCEPT ![k] = box[w][k]] \/ UNCHANGED alert)
    BY <2>1 DEF Responded
  <2> QED BY <1>0, <2>2 DEF Answers
<1>4. /\ \A w \in Windows, k \in Alerts : Notify(w, k) \/ SendAnswer(w, k) => UNCHANGED alert
      /\ \A w \in Windows, k \in Alerts, s \in Answers : Answer(w, k, s) => UNCHANGED alert
      /\ \A w \in Windows : Loaded(w) \/ Reopened(w) => UNCHANGED alert
      /\ UNCHANGED alertVars => UNCHANGED alert
  BY DEF Notify, SendAnswer, Answer, Loaded, Reopened, alertVars
<1>5. /\ \A w \in Windows : \A i \in DOMAIN wire[w] :
            TakeAboutAlert(w, i) \/ (Take(w, i) /\ Shows(w, wire[w][i])) => UNCHANGED alert
  BY DEF TakeAboutAlert, Shows
<1> QED BY <1>1, <1>2, <1>3, <1>4, <1>5, Steps

LEMMA StillOld ==
  ASSUME Desk, Answering, [AlertsNext]_alertsVars, NEW v \in Windows, NEW n \in Alerts,
         conn'[v] = "up", Old(wire[v], n)
  PROVE  Old(wire'[v], n) \/ Known(v, n)'
<1>1. Moves(v)
  BY MovesOf
<1>2. PICK j \in DOMAIN wire[v] : Says(wire[v][j], "snapshot", n, "PENDING")
  BY DEF Old
<1>3. CASE KeepsMessages(v)
  BY <1>2, <1>3, MessageStays DEF Old
<1>4. ASSUME NEW i \in DOMAIN wire[v], Takes(v, i) PROVE Old(wire'[v], n) \/ Known(v, n)'
  <2>1. Without(wire[v], i, wire'[v])
    BY <1>4 DEF Takes
  <2>2. CASE i # j
    <3>1. \E k \in DOMAIN wire'[v] : wire'[v][k] = wire[v][j]
      BY <2>1, <2>2, MessageStays
    <3> QED BY <1>2, <3>1 DEF Old
  <2>3. CASE i = j
    <3>1. Take(v, i) /\ Shows(v, wire[v][i])
      BY <1>2, <1>4, <2>3, TakingAboutAlert DEF Takes, Says
    <3>2. /\ UNCHANGED box
          /\ wire[v][i].msg = "reply" /\ wire[v][i].request = "snapshot" =>
               \A k \in Alerts : wire[v][i].data["alerts"][k] = "PENDING" => k \in open'[v] \/ box[v][k] # None
      BY <3>1, Showing
    <3> QED BY <1>2, <2>3, <3>2 DEF Known, Says
  <2> QED BY <2>2, <2>3
<1>5. GetsReply(v) \/ GetsFailure(v) \/ ReadsOn(v) \/ WritesOnly(v) \/ GoesOn(v) => KeepsMessages(v)
  BY DEF GetsReply, GetsFailure, ReadsOn, WritesOnly, GoesOn, KeepsMessages, Fresh, Matters
<1> QED BY <1>1, <1>3, <1>4, <1>5 DEF Moves

LEMMA PendingStep ==
  ASSUME Desk, Answering, NoneMissed, [AlertsNext]_alertsVars
  PROVE  NoneMissed'
<1>1. Desk' /\ Answering' /\ Heads' = Heads
  BY SceneStays, AnsweringStep
<1> SUFFICES ASSUME NEW w \in Heads, NEW n \in Alerts, alert'[n] = "PENDING" PROVE NotMissed(w, n)'
  BY <1>1 DEF NoneMissed, PendingIn
<1>2. w \in Windows /\ Panel(w) = "head"
  BY DEF Heads
<1>3. CASE conn'[w] # "up"
  <2>1. \A i \in DOMAIN wire'[w] : wire'[w][i].msg \in Early
    BY <1>1, <1>2, <1>3 DEF Desk, Idle
  <2> QED BY <1>3, <2>1 DEF NotMissed, Replies, Early
<1>4. CASE conn'[w] = "up" /\ alert[n] # "PENDING"
  <2>1. Pushed(wire'[w], n)
    BY <1>4, NewlyPending
  <2> QED BY <2>1 DEF NotMissed, Covered
<1>5. CASE conn'[w] = "up" /\ alert[n] = "PENDING"
  <2>1. NotMissed(w, n)
    BY <1>5 DEF NoneMissed, PendingIn
  <2>2. Covered(w, n) => Covered(w, n)'
    BY <1>2, <1>5, StillCovered
  <2>3. ASSUME NEW i \in DOMAIN wire'[w], Replies(wire'[w][i], "snapshot"), wire'[w][i].data["alerts"][n] # "PENDING"
        PROVE  Covered(w, n)'
    <3>1. Matters(wire'[w][i]) /\ ~Fresh(w, wire'[w][i])
      BY <2>3 DEF Replies, Matters, Fresh
    <3>2. PICK j \in DOMAIN wire[w] : wire[w][j] = wire'[w][i]
      BY <1>2, <3>1, MessagesOf
    <3> QED BY <2>1, <2>2, <2>3, <3>2 DEF NotMissed
  <2>4. Reload(w, "snapshot")' \/ Covered(w, n)' \/ Old(wire'[w], n)
    <3>1. CASE conn[w] # "up" \/ Reload(w, "snapshot")
      <4>1. Moves(w) /\ "snapshot" \in Range(Asked[Panel(w)]) /\ "snapshot" \in ReadRequests
        BY <1>2, MovesOf, PanelsAsk DEF ReadRequests, Panels
      <4>2. Reload(w, "snapshot")' \/ Sent(w, "snapshot") \/ Shown1(w, "snapshot")
        BY <1>2, <1>5, <3>1, <4>1, ReloadGoesOn
      <4>3. ASSUME Sent(w, "snapshot") PROVE Old(wire'[w], n)
        <5>1. PICK m : Replies(m, "snapshot") /\ wire'[w] = Append(wire[w], m) /\ m.data["alerts"] = alert'
          BY <4>3 DEF Sent
        <5>2. Says(m, "snapshot", n, "PENDING") /\ IsList(wire[w])
          BY <1>2, <5>1, Unpacked DEF Says, Replies
        <5> QED BY <5>1, <5>2, AppendedMessages
      <4>4. ASSUME Shown1(w, "snapshot") PROVE Covered(w, n)'
        <5>1. PICK i \in DOMAIN wire[w] :
                Replies(wire[w][i], "snapshot") /\ Take(w, i) /\ Shows(w, wire[w][i])
          BY <4>4 DEF Shown1
        <5>2. CASE wire[w][i].data["alerts"][n] = "PENDING"
          <6>1. /\ UNCHANGED box
                /\ wire[w][i].msg = "reply" /\ wire[w][i].request = "snapshot" =>
                     \A k \in Alerts : wire[w][i].data["alerts"][k] = "PENDING" => k \in open'[w] \/ box[w][k] # None
            BY <1>2, <5>1, Showing
          <6> QED BY <5>1, <5>2, <6>1 DEF Known, Covered, Replies
        <5>3. CASE wire[w][i].data["alerts"][n] # "PENDING"
          BY <2>1, <2>2, <5>1, <5>3 DEF NotMissed
        <5> QED BY <5>2, <5>3
      <4> QED BY <4>2, <4>3, <4>4
    <3>2. CASE Covered(w, n)
      BY <2>2, <3>2
    <3>3. CASE Old(wire[w], n)
      BY <1>2, <1>5, <3>3, StillOld DEF Covered
    <3> QED BY <2>1, <3>1, <3>2, <3>3 DEF NotMissed
  <2> QED BY <2>3, <2>4 DEF NotMissed
<1> QED BY <1>3, <1>4, <1>5

\* A snapshot without a pending alert (a_snapshot) never takes the place of the only news of it.
THEOREM NoneMissedHolds == AlertsSpec => []NoneMissed
<1>1. AlertsInit => NoneMissed
  BY DEF AlertsInit, NoneMissed, PendingIn, None
<1>2. Desk /\ Answering /\ NoneMissed /\ [AlertsNext]_alertsVars => NoneMissed'
  BY PendingStep
<1> QED BY <1>1, <1>2, DeskHolds, PTL DEF AlertsSpec

\* PendingShown: a pending alert is shown on an open window of its Head, or is on its way
\* there (a_coo_notify, a_snapshot), or a reload failed.
THEOREM PendingAlertsShown == AlertsSpec => []PendingShown
<1>1. Desk /\ NoneMissed => PendingShown
  <2> SUFFICES ASSUME Desk, NoneMissed, NEW w \in Heads, NEW n \in PendingIn(alert), conn[w] = "up",
                      ~Known(w, n), "snapshot" \notin warned[w]
               PROVE  \/ \E i \in DOMAIN wire[w] :
                           \/ wire[w][i].msg = "alert" /\ wire[w][i].alert = n
                           \/ /\ wire[w][i].msg = "reply" /\ wire[w][i].request = "snapshot"
                              /\ wire[w][i].data["alerts"][n] = "PENDING"
                           \/ wire[w][i].msg = "failed" /\ wire[w][i].request = "snapshot"
                      \/ \E i \in DOMAIN asks[w] :
                           asks[w][i].request = "snapshot" /\ "alerts" \notin DOMAIN asks[w][i].got
    BY DEF PendingShown, Known
  <2>1. w \in Windows /\ scene \in Scenes
    BY DEF Heads, Desk
  <2>2. Reload(w, "snapshot") \/ Pushed(wire[w], n) \/ Old(wire[w], n)
    BY DEF NoneMissed, NotMissed, Covered
  <2>3. ASSUME NEW i \in DOMAIN asks[w], asks[w][i].request = "snapshot" PROVE "alerts" \notin DOMAIN asks[w][i].got
    <3>1. IsRead(asks[w][i], Panel(w))
      BY <2>1, <2>3, Unpacked DEF IsAsk, HeadsOwn
    <3>2. /\ Panel(w) \in Panels \cup {Nobody} /\ \A t \in Tables : Data[t] \in Nat
      BY <2>1, Unpacked, TheData
    <3> QED BY <3>1, <3>2, ReadGoesOn DEF ReadOf
  <2> QED BY <2>2, <2>3 DEF Reload, Requested, Undelivered, Failed, Pushed, Old, Is, Says
<1> QED BY <1>1, NoneMissedHolds, DeskHolds, PTL

-----------------------------------------------------------------------------
(* A COO's panel follows the alerts. *)

\* Only a Head's windows know of an alert, and can answer it.
Addressed == \A w \in Windows, n \in Alerts : Covered(w, n) => w \in Heads

Answered(w, n) == \E j \in DOMAIN wire[w] : Is(wire[w][j], "answered", n)

\* A message that would make the panel show something else than the alert's status.
Outdated(m, n, status) ==
  \/ Is(m, "sent", n) /\ status # "PENDING"
  \/ Replies(m, "alerts") /\ m.data["alerts"][n] \notin {None, status}

After(w, i, n) == n \in overtaken[w] \/ \E j \in DOMAIN wire[w] : j > i /\ Is(wire[w][j], "answered", n)

\* The answer's event is behind every message that it outdates, or has overtaken one.
EventsBehind(w, n) == \A i \in DOMAIN wire[w] : Outdated(wire[w][i], n, alert[n]) => After(w, i, n)
EventsTrue(w, n) == \A i \in DOMAIN wire[w] : Is(wire[w][i], "answered", n) => wire[w][i].status = alert[n]

\* What a panel shows of the alert, or will with a reply, is true or from before the answer.
Earlier(status) == {None, "PENDING", status}
StatusesTrue(w, n) ==
  /\ tracker[w][n] \in Earlier(alert[n])
  /\ \A i \in DOMAIN wire[w] :
       Replies(wire[w][i], "alerts") => wire[w][i].data["alerts"][n] \in Earlier(alert[n])

Loading(w) == \E i \in DOMAIN wire[w] : Replies(wire[w][i], "alerts")

Follows(w, n) ==
  \/ tracker[w][n] \in {None, alert[n]} \/ n \in overtaken[w]
  \/ Reload(w, "alerts") \/ Loading(w) \/ Answered(w, n)

PanelFollows(w, n) ==
  /\ EventsTrue(w, n) /\ StatusesTrue(w, n) /\ EventsBehind(w, n)
  /\ conn[w] = "up" => Follows(w, n)

AllFollow == Addressed /\ \A w \in Coos, n \in Alerts : PanelFollows(w, n)

LEMMA KnownBefore ==
  ASSUME Desk, Answering, Addressed, [AlertsNext]_alertsVars, NEW v \in Windows, NEW n \in Alerts, Known(v, n)'
  PROVE  v \in Heads
<1>0. /\ open \in [Windows -> SUBSET Alerts]
      /\ box \in [Windows -> [Alerts -> Answers \cup {None, "FAILED"}]]
      /\ Known(v, n) => v \in Heads
  BY DEF Desk, AboutAlerts, Addressed, Covered
<1>1. CASE UNCHANGED <<open, box>>
  BY <1>0, <1>1 DEF Known
<1>2. ASSUME NEW w \in Windows, Reopened(w) PROVE v \in Heads
  <2>1. UNCHANGED box /\ open' = [open EXCEPT ![w] = {}]
    BY <1>2 DEF Reopened
  <2> QED BY <1>0, <2>1 DEF Known
<1>3. ASSUME NEW w \in Windows, NEW i \in DOMAIN wire[w], Take(w, i), Shows(w, wire[w][i]) PROVE v \in Heads
  <2>1. /\ UNCHANGED box /\ \A x \in Windows \ {w} : open'[x] = open[x]
        /\ \A k \in open'[w] : k \in open[w] \/ Replies(wire[w][i], "snapshot")
    BY <1>3, Showing DEF Replies
  <2>2. Replies(wire[w][i], "snapshot") => w \in Heads
    <3>1. IsMessage(wire[w][i], Panel(w)) /\ Panel(w) \in Panels \cup {Nobody}
      BY Unpacked
    <3> QED BY <3>1, PanelsShow DEF IsMessage, IsReply, Replies, Heads
  <2> QED BY <1>0, <2>1, <2>2 DEF Known
<1>4. ASSUME NEW w \in Windows, NEW i \in DOMAIN wire[w], TakeAboutAlert(w, i) PROVE v \in Heads
  <2> DEFINE k == wire[w][i].alert
  <2>1. /\ wire[w][i].msg \in {"alert", "answered", "sent", "ack"} /\ k \in Alerts
        /\ wire[w][i].msg = "alert" => TakeAlert(w, i)
        /\ wire[w][i].msg = "answered" => TakeAnswered(w, i)
        /\ wire[w][i].msg = "sent" => TakeSent(w, i)
        /\ wire[w][i].msg = "ack" => TakeAck(w, i)
    BY <1>4, TakingAboutAlert
  <2>2. CASE wire[w][i].msg \in {"answered", "sent"}
    BY <1>1, <2>1, <2>2 DEF TakeAnswered, TakeSent
  <2>3. CASE wire[w][i].msg = "alert"
    <3>1. UNCHANGED box /\ (UNCHANGED open \/ open' = [open EXCEPT ![w] = @ \cup {k}])
      BY <2>1, <2>3 DEF TakeAlert
    <3>2. w \in Heads
      BY <2>1, <2>3 DEF Addressed, Covered, Pushed, Is
    <3> HIDE DEF k
    <3> QED BY <1>0, <3>1, <3>2 DEF Known
  <2>4. CASE wire[w][i].msg = "ack"
    <3>1. UNCHANGED open /\ box' = [box EXCEPT ![w][k] = IF wire[w][i].ok THEN None ELSE "FAILED"]
      <4>1. TakeAck(w, i)
        BY <2>1, <2>4
      <4> QED BY <4>1, Zenon DEF TakeAck
    <3>2. box[w][k] \in Answers
      BY <2>4 DEF Answering, OneAnswerAtATime, OneAnswer, Acks
    <3>3. w \in Heads
      BY <2>1, <3>2 DEF Addressed, Covered, Known, Answers, None
    <3> HIDE DEF k
    <3> QED BY <1>0, <3>1, <3>3 DEF Known
  <2> QED BY <2>1, <2>2, <2>3, <2>4
<1>5. ASSUME NEW w \in Windows, NEW k \in Alerts, Notify(w, k) \/ SendAnswer(w, k) PROVE v \in Heads
  BY <1>1, <1>5 DEF Notify, SendAnswer, alertVars
<1>6. ASSUME NEW w \in Windows, NEW k \in Alerts, NEW status \in Answers, Answer(w, k, status) PROVE v \in Heads
  <2>1. open' = [open EXCEPT ![w] = @ \ {k}] /\ box' = [box EXCEPT ![w][k] = status] /\ k \in open[w]
    BY <1>6 DEF Answer
  <2>2. w \in Heads
    BY <2>1 DEF Addressed, Covered, Known
  <2> QED BY <1>0, <2>1, <2>2 DEF Known
<1>7. UNCHANGED alertVars => UNCHANGED <<open, box>>
  BY DEF alertVars
<1> QED BY <1>1, <1>2, <1>3, <1>4, <1>5, <1>6, <1>7, Steps, CreateStep, RespondStep DEF Loaded

LEMMA AddressedStep ==
  ASSUME Desk, Answering, Addressed, [AlertsNext]_alertsVars
  PROVE  Addressed'
<1>1. Heads' = Heads
  BY SceneStays
<1>2. ASSUME NEW v \in Windows, NEW n \in Alerts, Pushed(wire'[v], n) PROVE v \in Heads
  <2>1. PICK j \in DOMAIN wire'[v] : Is(wire'[v][j], "alert", n)
    BY <1>2 DEF Pushed
  <2>2. Matters(wire'[v][j])
    BY <2>1 DEF Matters, Is
  <2>3. Fresh(v, wire'[v][j]) \/ \E i \in DOMAIN wire[v] : wire[v][i] = wire'[v][j]
    BY <2>2, MessagesOf
  <2> QED BY <2>1, <2>2, <2>3 DEF Fresh, Is, Addressed, Covered, Pushed
<1> QED BY <1>1, <1>2, KnownBefore DEF Addressed, Covered

\* An overtaken alert stays so for a panel that shows it as pending, or will.
LEMMA StillOvertaken ==
  ASSUME Desk, Answering, Addressed, [AlertsNext]_alertsVars, NEW v \in Coos, conn'[v] = "up",
         NEW n \in overtaken[v]
  PROVE  \/ n \in overtaken'[v]
         \/ /\ tracker'[v][n] # "PENDING"
            /\ \A j \in DOMAIN wire'[v] : ~ShowsPending(wire'[v][j], n)
<1> DEFINE Goal == \/ n \in overtaken'[v]
                   \/ /\ tracker'[v][n] # "PENDING"
                      /\ \A j \in DOMAIN wire'[v] : ~ShowsPending(wire'[v][j], n)
<1>0. overtaken \in [Windows -> SUBSET Alerts] /\ v \in Windows /\ Panel(v) = "coo"
  BY DEF Desk, AboutAlerts, Coos
<1>1. UNCHANGED overtaken => Goal
  OBVIOUS
<1>2. ASSUME NEW w \in Windows, NEW i \in DOMAIN wire[w], Take(w, i), Shows(w, wire[w][i]) PROVE Goal
  <2>1. CASE v = w
    BY <1>2, <2>1, ShownOvertaken
  <2>2. CASE v # w
    BY <1>0, <1>2, <2>2, ShownOvertaken
  <2> QED BY <2>1, <2>2
<1>3. ASSUME NEW w \in Windows, NEW i \in DOMAIN wire[w], TakeAboutAlert(w, i) PROVE Goal
  <2>1. UNCHANGED overtaken \/ overtaken' = Overtaking(w, i)
    BY <1>3 DEF TakeAboutAlert, TakeAlert, TakeAnswered, TakeSent, TakeAck
  <2>2. wire[w][i].alert \in Alerts
    BY <1>3, TakingAboutAlert
  <2> QED BY <1>0, <2>1, <2>2, HeardOvertaken
<1>4. ASSUME NEW w \in Windows, NEW k \in Alerts, NEW s \in Answers, Answer(w, k, s) PROVE Goal
  <2>1. k \in open[w] /\ overtaken' = [overtaken EXCEPT ![w] = @ \ {k}]
    BY <1>4 DEF Answer
  <2>2. w \in Heads
    BY <2>1 DEF Addressed, Covered, Known
  <2>3. v # w
    BY <1>0, <2>2 DEF Heads
  <2> QED BY <1>0, <2>1, <2>3
<1>5. ASSUME NEW w \in Windows, Reopened(w) PROVE Goal
  <2>1. v # w
    BY <1>5, ReopenedStep
  <2>2. overtaken' = [overtaken EXCEPT ![w] = {}]
    BY <1>5 DEF Reopened
  <2> QED BY <1>0, <2>1, <2>2
<1> HIDE DEF Goal
<1>6. /\ \A w \in Windows, k \in Alerts : Notify(w, k) \/ SendAnswer(w, k) => UNCHANGED overtaken
      /\ \A w \in Windows : Loaded(w) => UNCHANGED overtaken
      /\ UNCHANGED alertVars => UNCHANGED overtaken
  BY DEF Notify, SendAnswer, Loaded, alertVars
<1>7. Goal
  BY <1>1, <1>2, <1>3, <1>4, <1>5, <1>6, Steps, CreateStep, RespondStep
<1> QED BY <1>7 DEF Goal

\* An answer is final, and when one is stored its event is sent to the COO's panels.
LEMMA StatusMoves ==
  ASSUME Desk, Answering, Addressed, [AlertsNext]_alertsVars, NEW v \in Coos, NEW n \in Alerts,
         alert'[n] # alert[n]
  PROVE  /\ UNCHANGED tracker /\ alert[n] \notin Answers
         /\ \/ alert[n] = None /\ alert'[n] = "PENDING"
            \/ conn'[v] = "down"
            \/ \E m : Is(m, "answered", n) /\ wire'[v] = Append(wire[v], m)
<1>0. alert \in [Alerts -> Statuses \cup {None}] /\ v \in Windows /\ Panel(v) = "coo"
  BY DEF Desk, AboutAlerts, Coos
<1>1. \E w \in Windows : Create(w) \/ Respond(w)
  <2>1. /\ \A w \in Windows, k \in Alerts : Notify(w, k) \/ SendAnswer(w, k) => UNCHANGED alert
        /\ \A w \in Windows, k \in Alerts, s \in Answers : Answer(w, k, s) => UNCHANGED alert
        /\ \A w \in Windows : Loaded(w) \/ Reopened(w) => UNCHANGED alert
        /\ UNCHANGED alertVars => UNCHANGED alert
    BY DEF Notify, SendAnswer, Answer, Loaded, Reopened, alertVars
  <2>2. \A w \in Windows : \A i \in DOMAIN wire[w] :
          TakeAboutAlert(w, i) \/ (Take(w, i) /\ Shows(w, wire[w][i])) => UNCHANGED alert
    BY DEF TakeAboutAlert, Shows
  <2> QED BY <2>1, <2>2, Steps
<1>2. ASSUME NEW w \in Windows, Create(w)
      PROVE  UNCHANGED tracker /\ alert[n] = None /\ alert'[n] = "PENDING"
  <2>1. UNCHANGED tracker
    BY <1>2, CreateStep
  <2>2. PICK k \in Alerts : alert[k] = None /\ alert' = [alert EXCEPT ![k] = "PENDING"]
    BY <1>2, CreateStep
  <2> QED BY <1>0, <2>1, <2>2
<1>3. ASSUME NEW w \in Windows, Respond(w)
      PROVE  /\ UNCHANGED tracker /\ alert[n] \notin Answers
             /\ conn'[v] = "down" \/ \E m : Is(m, "answered", n) /\ wire'[v] = Append(wire[v], m)
  <2>1. UNCHANGED <<tracker, conn>>
    BY <1>3, RespondStep
  <2>2. PICK i, k, message, reply, ws : Responded(w, i, k, message, reply, ws)
    BY <1>3, RespondStep
  <2>3. w \in Heads
    BY <2>2 DEF Responded, Addressed, Covered, Known, Answers, None
  <2>4. v # w
    BY <1>0, <2>3 DEF Heads
  <2>5. n = k /\ ws = Coos /\ alert[k] = "PENDING"
    BY <1>0, <2>2 DEF Responded
  <2>6. Is(message, "answered", n)
    BY <2>2, <2>5 DEF Is, Responded
  <2>7. conn[v] = "down" \/ wire'[v] = Append(wire[v], message)
    BY <1>0, <2>2, <2>4, <2>5 DEF Responded
  <2> QED BY <2>1, <2>5, <2>6, <2>7 DEF Answers
<1> QED BY <1>1, <1>2, <1>3 DEF None, Answers

\* A panel's row changes with a message that it takes.
LEMMA TrackerMoves ==
  ASSUME Desk, Answering, [AlertsNext]_alertsVars, NEW v \in Windows, NEW n \in Alerts
  PROVE  \/ tracker'[v][n] \in {None, tracker[v][n]}
         \/ \E i \in DOMAIN wire[v] :
              /\ Without(wire[v], i, wire'[v])
              /\ \/ Replies(wire[v][i], "alerts") /\ tracker'[v][n] = wire[v][i].data["alerts"][n]
                 \/ Is(wire[v][i], "answered", n) /\ tracker'[v][n] = wire[v][i].status
                 \/ Is(wire[v][i], "sent", n) /\ tracker'[v][n] = "PENDING"
<1>0. tracker \in [Windows -> [Alerts -> Statuses \cup {None}]]
  BY DEF Desk, AboutAlerts
<1> DEFINE Goal == \/ tracker'[v][n] \in {None, tracker[v][n]}
                   \/ \E i \in DOMAIN wire[v] :
                        /\ Without(wire[v], i, wire'[v])
                        /\ \/ Replies(wire[v][i], "alerts") /\ tracker'[v][n] = wire[v][i].data["alerts"][n]
                           \/ Is(wire[v][i], "answered", n) /\ tracker'[v][n] = wire[v][i].status
                           \/ Is(wire[v][i], "sent", n) /\ tracker'[v][n] = "PENDING"
<1>1. UNCHANGED tracker => Goal
  OBVIOUS
<1>2. ASSUME NEW w \in Windows, Reopened(w) PROVE Goal
  <2>1. tracker' = [tracker EXCEPT ![w] = [k \in Alerts |-> None]]
    BY <1>2 DEF Reopened
  <2> QED BY <1>0, <2>1
<1>3. ASSUME NEW w \in Windows, NEW i \in DOMAIN wire[w], Take(w, i), Shows(w, wire[w][i]) PROVE Goal
  <2>1. /\ \A x \in Windows \ {w} : tracker'[x] = tracker[x]
        /\ \/ tracker'[w] = tracker[w]
           \/ Replies(wire[w][i], "alerts") /\ tracker'[w] = wire[w][i].data["alerts"]
        /\ Without(wire[w], i, wire'[w])
    BY <1>3, Showing, TakeStep DEF Replies
  <2> QED BY <2>1
<1>4. ASSUME NEW w \in Windows, NEW i \in DOMAIN wire[w], TakeAboutAlert(w, i) PROVE Goal
  <2> DEFINE k == wire[w][i].alert
  <2>1. /\ wire[w][i].msg \in {"alert", "answered", "sent", "ack"} /\ k \in Alerts
        /\ wire[w][i].msg = "alert" => TakeAlert(w, i)
        /\ wire[w][i].msg = "answered" => TakeAnswered(w, i)
        /\ wire[w][i].msg = "sent" => TakeSent(w, i)
        /\ wire[w][i].msg = "ack" => TakeAck(w, i)
        /\ Without(wire[w], i, wire'[w])
    BY <1>4, TakingAboutAlert, TakeAboutAlertStep
  <2>2. CASE wire[w][i].msg \in {"alert", "ack"}
    BY <1>1, <2>1, <2>2 DEF TakeAlert, TakeAck
  <2>3. CASE wire[w][i].msg = "answered"
    <3>1. UNCHANGED tracker \/ tracker' = [tracker EXCEPT ![w][k] = wire[w][i].status]
      BY <2>1, <2>3 DEF TakeAnswered
    <3>2. Is(wire[w][i], "answered", k)
      BY <2>3 DEF Is
    <3> HIDE DEF k
    <3>3. (v = w /\ n = k) \/ tracker'[v][n] = tracker[v][n]
      BY <1>0, <3>1
    <3>4. tracker'[w][k] \in {tracker[w][k], wire[w][i].status}
      BY <1>0, <2>1, <3>1
    <3> QED BY <2>1, <3>2, <3>3, <3>4
  <2>4. CASE wire[w][i].msg = "sent"
    <3>1. tracker' = [tracker EXCEPT ![w][k] = "PENDING"]
      BY <2>1, <2>4 DEF TakeSent
    <3>2. Is(wire[w][i], "sent", k)
      BY <2>4 DEF Is
    <3> HIDE DEF k
    <3>3. (v = w /\ n = k) \/ tracker'[v][n] = tracker[v][n]
      BY <1>0, <3>1
    <3>4. tracker'[w][k] = "PENDING"
      BY <1>0, <2>1, <3>1
    <3> QED BY <2>1, <3>2, <3>3, <3>4
  <2> QED BY <2>1, <2>2, <2>3, <2>4
<1> HIDE DEF Goal
<1>5. /\ \A w \in Windows, k \in Alerts : Notify(w, k) \/ SendAnswer(w, k) => UNCHANGED tracker
      /\ \A w \in Windows, k \in Alerts, s \in Answers : Answer(w, k, s) => UNCHANGED tracker
      /\ \A w \in Windows : Loaded(w) => UNCHANGED tracker
      /\ UNCHANGED alertVars => UNCHANGED tracker
  BY DEF Notify, SendAnswer, Answer, Loaded, alertVars
<1>6. Goal
  BY <1>1, <1>2, <1>3, <1>4, <1>5, Steps, CreateStep, RespondStep
<1> QED BY <1>6 DEF Goal

LEMMA EventsTrueStep ==
  ASSUME Desk, Answering, Addressed, [AlertsNext]_alertsVars, NEW w \in Coos, NEW n \in Alerts, EventsTrue(w, n)
  PROVE  EventsTrue(w, n)'
<1> SUFFICES ASSUME NEW i \in DOMAIN wire'[w], Is(wire'[w][i], "answered", n)
             PROVE  wire'[w][i].status = alert'[n]
  BY DEF EventsTrue
<1>1. w \in Windows /\ Matters(wire'[w][i])
  BY DEF Coos, Matters, Is
<1>2. CASE Fresh(w, wire'[w][i])
  BY <1>1, <1>2 DEF Fresh, Is
<1>3. ASSUME NEW j \in DOMAIN wire[w], wire[w][j] = wire'[w][i] PROVE wire'[w][i].status = alert'[n]
  <2>1. wire[w][j].status = alert[n] /\ IsMessage(wire[w][j], Panel(w))
    BY <1>1, <1>3, Unpacked DEF EventsTrue
  <2>2. alert[n] \in Answers
    BY <1>3, <2>1 DEF IsMessage, Is
  <2> QED BY <1>3, <2>1, <2>2, StatusMoves
<1> QED BY <1>1, <1>2, <1>3, MessagesOf

LEMMA StatusesTrueStep ==
  ASSUME Desk, Answering, Addressed, [AlertsNext]_alertsVars, NEW w \in Coos, NEW n \in Alerts,
         EventsTrue(w, n), StatusesTrue(w, n)
  PROVE  StatusesTrue(w, n)'
<1>0. w \in Windows
  BY DEF Coos
<1>1. \A x \in Earlier(alert[n]) : x \in Earlier(alert'[n])
  <2>1. alert'[n] = alert[n] \/ alert[n] \notin Answers
    BY StatusMoves
  <2>2. alert[n] \in Answers \cup {None, "PENDING"}
    BY DEF Desk, AboutAlerts, Statuses
  <2> QED BY <2>1, <2>2 DEF Earlier
<1>2. tracker'[w][n] \in Earlier(alert'[n])
  <2>1. CASE tracker'[w][n] \in {None, tracker[w][n]}
    BY <1>1, <2>1 DEF StatusesTrue, Earlier
  <2>2. ASSUME NEW i \in DOMAIN wire[w],
               \/ Replies(wire[w][i], "alerts") /\ tracker'[w][n] = wire[w][i].data["alerts"][n]
               \/ Is(wire[w][i], "answered", n) /\ tracker'[w][n] = wire[w][i].status
               \/ Is(wire[w][i], "sent", n) /\ tracker'[w][n] = "PENDING"
        PROVE  tracker'[w][n] \in Earlier(alert'[n])
    <3>1. tracker'[w][n] \in Earlier(alert[n])
      BY <2>2 DEF StatusesTrue, EventsTrue, Earlier
    <3> QED BY <1>1, <3>1
  <2> QED BY <1>0, <2>1, <2>2, TrackerMoves
<1>3. ASSUME NEW i \in DOMAIN wire'[w], Replies(wire'[w][i], "alerts")
      PROVE  wire'[w][i].data["alerts"][n] \in Earlier(alert'[n])
  <2>1. Matters(wire'[w][i])
    BY <1>3 DEF Matters, Replies
  <2>2. CASE Fresh(w, wire'[w][i])
    BY <1>3, <2>1, <2>2 DEF Fresh, Replies, Earlier
  <2>3. ASSUME NEW j \in DOMAIN wire[w], wire[w][j] = wire'[w][i]
        PROVE  wire'[w][i].data["alerts"][n] \in Earlier(alert'[n])
    BY <1>1, <1>3, <2>3 DEF StatusesTrue
  <2> QED BY <1>0, <2>1, <2>2, <2>3, MessagesOf
<1> QED BY <1>2, <1>3 DEF StatusesTrue

\* What is outdated has the alert as pending.
LEMMA OutdatedShows ==
  ASSUME NEW m, NEW n, NEW status, Outdated(m, n, status),
         Replies(m, "alerts") => m.data["alerts"][n] \in Earlier(status)
  PROVE  ShowsPending(m, n)
BY DEF Outdated, Replies, Is, Earlier, ShowsPending

\* A message that is sent outdates nothing, and one about a new alert is the first.
LEMMA BehindAppended ==
  ASSUME Desk, Answering, Once, Addressed, [AlertsNext]_alertsVars, NEW w \in Coos, NEW n \in Alerts,
         EventsBehind(w, n), StatusesTrue(w, n)', conn'[w] = "up", KeepsMessages(w)
  PROVE  EventsBehind(w, n)'
<1>0. w \in Windows /\ IsList(wire[w])
  BY Unpacked DEF Coos
<1> SUFFICES ASSUME NEW i \in DOMAIN wire'[w], Outdated(wire'[w][i], n, alert'[n]) PROVE After(w, i, n)'
  BY DEF EventsBehind
<1>1. CASE i \in DOMAIN wire[w] /\ wire'[w][i] = wire[w][i]
  <2>1. CASE alert'[n] = alert[n]
    <3>1. Outdated(wire[w][i], n, alert[n])
      BY <1>1, <2>1 DEF Outdated
    <3>2. CASE n \in overtaken[w]
      <4>1. ShowsPending(wire'[w][i], n)
        BY OutdatedShows DEF StatusesTrue
      <4> QED BY <3>2, <4>1, StillOvertaken DEF After
    <3>3. ASSUME NEW j \in DOMAIN wire[w], j > i, Is(wire[w][j], "answered", n) PROVE After(w, i, n)'
      <4>1. j \in DOMAIN wire'[w] /\ wire'[w][j] = wire[w][j]
        BY <1>0, MessageStays
      <4> QED BY <3>3, <4>1 DEF After
    <3> QED BY <1>1, <3>1, <3>2, <3>3 DEF EventsBehind, After
  <2>2. CASE alert'[n] # alert[n] /\ alert[n] = None
    <3>1. ~Mentions(wire[w][i], n)
      BY <1>0, <1>1, <2>2 DEF Once, OnceOnly, Unmentioned
    <3> QED BY <1>1, <3>1 DEF Outdated, Mentions, Is, Replies
  <2>3. ASSUME NEW m, Is(m, "answered", n), wire'[w] = Append(wire[w], m) PROVE After(w, i, n)'
    <3>1. Len(wire'[w]) = Len(wire[w]) + 1 /\ wire'[w][Len(wire[w]) + 1] = m /\ IsList(wire'[w])
      BY <1>0, <2>3, Appended DEF Continues
    <3>2. Len(wire[w]) + 1 \in DOMAIN wire'[w] /\ Len(wire[w]) + 1 > i
      BY <1>0, <1>1, <3>1, Listed
    <3> QED BY <2>3, <3>1, <3>2 DEF After
  <2> QED BY <2>1, <2>2, <2>3, StatusMoves
<1>2. ASSUME NEW m, Fresh(w, m), wire'[w][i] = m PROVE FALSE
  BY <1>2 DEF Outdated, Is, Replies, Fresh, Matters
<1>3. CASE wire'[w] = wire[w]
  BY <1>1, <1>3
<1>4. ASSUME NEW m, Fresh(w, m), wire'[w] = Append(wire[w], m)
      PROVE  wire'[w][i] = m \/ (i \in DOMAIN wire[w] /\ wire'[w][i] = wire[w][i])
  <2>1. Continues(wire[w], wire'[w]) /\ Len(wire'[w]) = Len(wire[w]) + 1 /\ wire'[w][Len(wire[w]) + 1] = m
    BY <1>0, <1>4, Appended
  <2>2. /\ i \in 1..Len(wire'[w]) /\ DOMAIN wire[w] = 1..Len(wire[w]) /\ Len(wire[w]) \in Nat
        /\ \A j \in DOMAIN wire[w] : wire'[w][j] = wire[w][j]
    BY <1>0, <2>1, Listed DEF Continues
  <2>3. i \in DOMAIN wire[w] \/ i = Len(wire[w]) + 1
    BY <2>1, <2>2
  <2> QED BY <2>1, <2>2, <2>3
<1> QED BY <1>1, <1>2, <1>3, <1>4 DEF KeepsMessages

\* An event that is taken out of order has overtaken what it outdates.
LEMMA BehindTaken ==
  ASSUME Desk, Answering, Addressed, [AlertsNext]_alertsVars, NEW w \in Coos, NEW n \in Alerts,
         EventsBehind(w, n), StatusesTrue(w, n)', conn'[w] = "up", NEW k \in DOMAIN wire[w], Takes(w, k)
  PROVE  EventsBehind(w, n)'
<1>0. /\ IsList(wire[w]) /\ k \in Nat /\ k >= 1 /\ Without(wire[w], k, wire'[w]) /\ UNCHANGED alert
      /\ w \in Windows
  BY Unpacked, Listed DEF Takes, Shows, TakeAboutAlert, Coos
<1> SUFFICES ASSUME NEW i \in DOMAIN wire'[w], Outdated(wire'[w][i], n, alert'[n]) PROVE After(w, i, n)'
  BY DEF EventsBehind
<1>6. ShowsPending(wire'[w][i], n)
  BY OutdatedShows DEF StatusesTrue
<1>1. /\ \A j \in DOMAIN wire'[w] : /\ j \in Nat /\ j >= 1
                                    /\ j < k => j \in DOMAIN wire[w] /\ wire'[w][j] = wire[w][j]
                                    /\ j >= k => j + 1 \in DOMAIN wire[w] /\ wire'[w][j] = wire[w][j + 1]
      /\ \A j \in DOMAIN wire[w] : /\ j \in Nat /\ j >= 1
                                   /\ j < k => j \in DOMAIN wire'[w] /\ wire'[w][j] = wire[w][j]
                                   /\ j > k => j - 1 \in DOMAIN wire'[w] /\ wire'[w][j - 1] = wire[w][j]
  BY <1>0, Remaining
<1>2. PICK q \in DOMAIN wire[w] : wire[w][q] = wire'[w][i] /\ ((q < k /\ i = q) \/ (q > k /\ i = q - 1))
  <2>1. CASE i < k
    BY <1>1, <2>1
  <2>2. CASE i >= k
    <3>1. i + 1 \in DOMAIN wire[w] /\ wire'[w][i] = wire[w][i + 1] /\ i + 1 > k /\ i = (i + 1) - 1
      BY <1>0, <1>1, <2>2
    <3> QED BY <3>1
  <2> QED BY <1>0, <1>1, <2>1, <2>2
<1>3. After(w, q, n)
  BY <1>0, <1>2 DEF EventsBehind, Outdated
<1>4. CASE n \in overtaken[w]
  BY <1>4, <1>6, StillOvertaken DEF After
<1>5. ASSUME NEW j \in DOMAIN wire[w], j > q, Is(wire[w][j], "answered", n) PROVE After(w, i, n)'
  <2>0. j \in Nat /\ q \in Nat /\ i \in Nat
    BY <1>1
  <2>1. CASE j < k
    BY <1>0, <1>1, <1>2, <1>5, <2>0, <2>1 DEF After
  <2>2. CASE j > k
    <3>1. j - 1 \in DOMAIN wire'[w] /\ wire'[w][j - 1] = wire[w][j]
      BY <1>1, <2>2
    <3>2. j - 1 > i
      BY <1>0, <1>2, <1>5, <2>0, <2>2
    <3> QED BY <1>5, <3>1, <3>2 DEF After
  <2>3. CASE j = k
    <3>1. q \in 1..(k - 1) /\ ShowsPending(wire[w][q], n)
      BY <1>0, <1>1, <1>2, <1>5, <1>6, <2>0, <2>3
    <3>2. TakeAnswered(w, k) /\ wire[w][k].alert = n
      BY <1>0, <1>5, <2>3, Taking, TakingAboutAlert DEF Takes, Is
    <3>3. n \in overtaken'[w]
      BY <1>0, <3>1, <3>2, HeardOvertaken DEF TakeAnswered
    <3> QED BY <3>3 DEF After
  <2> QED BY <1>0, <2>0, <2>1, <2>2, <2>3
<1> QED BY <1>3, <1>4, <1>5 DEF After

LEMMA EventsBehindStep ==
  ASSUME Desk, Answering, Once, Addressed, [AlertsNext]_alertsVars, NEW w \in Coos, NEW n \in Alerts,
         EventsBehind(w, n), StatusesTrue(w, n)'
  PROVE  EventsBehind(w, n)'
<1>1. w \in Windows /\ Moves(w)
  BY MovesOf DEF Coos
<1>2. CASE conn'[w] # "up"
  <2>1. \A i \in DOMAIN wire'[w] : wire'[w][i].msg \in Early
    BY <1>1, <1>2, SceneStays DEF Desk, Idle
  <2> QED BY <2>1 DEF EventsBehind, Outdated, Is, Replies, Early
<1>3. CASE conn'[w] = "up" /\ KeepsMessages(w)
  BY <1>3, BehindAppended
<1>4. ASSUME conn'[w] = "up", NEW k \in DOMAIN wire[w], Takes(w, k) PROVE EventsBehind(w, n)'
  BY <1>1, <1>4, BehindTaken
<1>5. GetsReply(w) \/ GetsFailure(w) \/ ReadsOn(w) \/ WritesOnly(w) \/ GoesOn(w) => KeepsMessages(w)
  BY DEF GetsReply, GetsFailure, ReadsOn, WritesOnly, GoesOn, KeepsMessages, Fresh, Matters
<1> QED BY <1>1, <1>2, <1>3, <1>4, <1>5 DEF Moves

LEMMA KeptOrTaken ==
  ASSUME Desk, NEW v \in Windows, Moves(v), conn'[v] = "up", NEW j \in DOMAIN wire[v]
  PROVE  Takes(v, j) \/ \E k \in DOMAIN wire'[v] : wire'[v][k] = wire[v][j]
<1>1. \/ KeepsMessages(v)
      \/ \E i \in DOMAIN wire[v] : Takes(v, i)
  BY DEF Moves, GetsReply, GetsFailure, ReadsOn, WritesOnly, GoesOn, KeepsMessages, Fresh, Matters
<1>2. ASSUME NEW i \in DOMAIN wire[v], Takes(v, i), i # j PROVE \E k \in DOMAIN wire'[v] : wire'[v][k] = wire[v][j]
  BY <1>2, MessageStays DEF Takes
<1> QED BY <1>1, <1>2, MessageStays

LEMMA FollowsStep ==
  ASSUME Desk, Answering, Once, [AlertsNext]_alertsVars, Addressed, NEW w \in Coos, NEW n \in Alerts,
         PanelFollows(w, n), StatusesTrue(w, n)', conn'[w] = "up"
  PROVE  Follows(w, n)'
<1>0. w \in Windows /\ Panel(w) = "coo" /\ Moves(w)
  BY MovesOf DEF Coos
<1>7. CASE n \in overtaken[w]
  <2>1. n \in overtaken'[w] \/ tracker'[w][n] # "PENDING"
    BY <1>7, StillOvertaken
  <2> QED BY <2>1 DEF StatusesTrue, Earlier, Follows
<1>1. ASSUME NEW i \in DOMAIN wire[w], After(w, i, n), Without(wire[w], i, wire'[w]) PROVE Follows(w, n)'
  <2>1. CASE n \in overtaken[w]
    BY <1>7, <2>1
  <2>2. ASSUME NEW j \in DOMAIN wire[w], j > i, Is(wire[w][j], "answered", n) PROVE Follows(w, n)'
    <3>1. i # j
      BY <1>0, <2>2, Unpacked, Listed
    <3>2. PICK k \in DOMAIN wire'[w] : wire'[w][k] = wire[w][j]
      BY <1>0, <1>1, <3>1, MessageStays
    <3> QED BY <2>2, <3>2 DEF Answered, Follows
  <2> QED BY <1>1, <2>1, <2>2 DEF After
<1>2. CASE alert'[n] # alert[n]
  <2>1. CASE alert[n] = None
    BY <1>0, <1>2, <2>1, StatusMoves DEF Once, OnceOnly, Follows
  <2>2. ASSUME NEW m, Is(m, "answered", n), wire'[w] = Append(wire[w], m) PROVE Follows(w, n)'
    <3>1. /\ Continues(wire[w], Append(wire[w], m)) /\ Len(Append(wire[w], m)) = Len(wire[w]) + 1
          /\ Append(wire[w], m)[Len(wire[w]) + 1] = m /\ IsList(wire[w])
      BY <1>0, Unpacked, Appended
    <3>2. Len(wire[w]) + 1 \in DOMAIN wire'[w] /\ wire'[w][Len(wire[w]) + 1] = m
      BY <2>2, <3>1, Listed DEF Continues
    <3> QED BY <2>2, <3>2 DEF Answered, Follows
  <2> QED BY <1>2, <2>1, <2>2, StatusMoves
<1>3. ASSUME alert'[n] = alert[n], NEW i \in DOMAIN wire[w], Replies(wire[w][i], "alerts"),
             Without(wire[w], i, wire'[w]), tracker'[w][n] = wire[w][i].data["alerts"][n]
      PROVE  Follows(w, n)'
  <2>1. CASE Outdated(wire[w][i], n, alert[n])
    BY <1>1, <1>3, <2>1 DEF PanelFollows, EventsBehind
  <2> QED BY <1>3, <2>1 DEF Outdated, Follows
<1>4. ASSUME NEW i \in DOMAIN wire[w], Replies(wire[w][i], "alerts"), Take(w, i), Shows(w, wire[w][i])
      PROVE  Without(wire[w], i, wire'[w]) /\ tracker'[w][n] = wire[w][i].data["alerts"][n]
  <2>1. wire[w][i].msg = "reply" /\ wire[w][i].request = "alerts"
    BY <1>4 DEF Replies
  <2> QED BY <1>0, <1>4, <2>1, Showing, TakeStep
<1>8. CASE tracker'[w][n] = None
  BY <1>8 DEF Follows
<1>5. CASE alert'[n] = alert[n] /\ tracker'[w][n] = tracker[w][n]
  <2>1. CASE conn[w] # "up" \/ Reload(w, "alerts")
    <3>1. "alerts" \in Range(Asked[Panel(w)]) /\ "alerts" \in ReadRequests
      BY <1>0, PanelsAsk DEF ReadRequests, Panels
    <3>2. Reload(w, "alerts")' \/ Sent(w, "alerts") \/ Shown1(w, "alerts")
      BY <1>0, <2>1, <3>1, ReloadGoesOn
    <3>3. ASSUME NEW m, Replies(m, "alerts"), wire'[w] = Append(wire[w], m) PROVE Loading(w)'
      <4>1. /\ Continues(wire[w], Append(wire[w], m)) /\ Len(Append(wire[w], m)) = Len(wire[w]) + 1
            /\ Append(wire[w], m)[Len(wire[w]) + 1] = m /\ IsList(wire[w])
        BY <1>0, Unpacked, Appended
      <4>2. Len(wire[w]) + 1 \in DOMAIN wire'[w] /\ wire'[w][Len(wire[w]) + 1] = m
        BY <3>3, <4>1, Listed DEF Continues
      <4> QED BY <3>3, <4>2 DEF Loading
    <3> QED BY <1>3, <1>4, <1>5, <3>2, <3>3 DEF Sent, Shown1, Follows
  <2>2. CASE tracker[w][n] \in {None, alert[n]} \/ n \in overtaken[w]
    BY <1>5, <1>7, <2>2 DEF Follows
  <2>3. ASSUME NEW i \in DOMAIN wire[w], Replies(wire[w][i], "alerts") PROVE Follows(w, n)'
    <3>1. CASE Takes(w, i)
      <4>1. Take(w, i) /\ Shows(w, wire[w][i])
        BY <1>0, <2>3, <3>1, TakingAboutAlert DEF Takes, Replies
      <4> QED BY <1>3, <1>4, <1>5, <2>3, <4>1
    <3>2. ASSUME NEW k \in DOMAIN wire'[w], wire'[w][k] = wire[w][i] PROVE Follows(w, n)'
      BY <2>3, <3>2 DEF Loading, Follows
    <3> QED BY <1>0, <3>1, <3>2, KeptOrTaken
  <2>4. ASSUME NEW i \in DOMAIN wire[w], Is(wire[w][i], "answered", n) PROVE Follows(w, n)'
    <3>1. CASE Takes(w, i)
      <4>1. TakeAboutAlert(w, i)
        BY <1>0, <2>4, <3>1, Taking DEF Takes, Is
      <4>2. TakeAnswered(w, i) /\ conn[w] = "up"
        BY <1>0, <2>4, <4>1, TakingAboutAlert DEF Is
      <4>3. tracker'[w][n] = wire[w][i].status
        BY <1>0, <2>4, <4>2 DEF TakeAnswered, Is, Desk, AboutAlerts
      <4> QED BY <1>5, <2>4, <4>3 DEF PanelFollows, EventsTrue, Follows
    <3>2. ASSUME NEW k \in DOMAIN wire'[w], wire'[w][k] = wire[w][i] PROVE Follows(w, n)'
      BY <2>4, <3>2 DEF Answered, Follows
    <3> QED BY <1>0, <3>1, <3>2, KeptOrTaken
  <2> QED BY <2>1, <2>2, <2>3, <2>4 DEF PanelFollows, Follows, Loading, Answered
<1>6. ASSUME alert'[n] = alert[n], NEW i \in DOMAIN wire[w], Without(wire[w], i, wire'[w]),
             \/ Is(wire[w][i], "answered", n) /\ tracker'[w][n] = wire[w][i].status
             \/ Is(wire[w][i], "sent", n) /\ tracker'[w][n] = "PENDING"
      PROVE  Follows(w, n)'
  <2>1. CASE Outdated(wire[w][i], n, alert[n])
    BY <1>1, <1>6, <2>1 DEF PanelFollows, EventsBehind
  <2> QED BY <1>6, <2>1 DEF Outdated, PanelFollows, EventsTrue, Follows
<1> QED BY <1>0, <1>2, <1>3, <1>5, <1>6, <1>8, TrackerMoves

LEMMA AllFollowStep ==
  ASSUME Desk, Answering, Once, AllFollow, [AlertsNext]_alertsVars
  PROVE  AllFollow'
<1>1. Addressed' /\ Coos' = Coos
  BY AddressedStep, SceneStays DEF AllFollow
<1>2. ASSUME NEW w \in Coos, NEW n \in Alerts PROVE PanelFollows(w, n)'
  <2>1. Addressed /\ PanelFollows(w, n)
    BY DEF AllFollow
  <2>2. EventsTrue(w, n)' /\ StatusesTrue(w, n)'
    BY <2>1, EventsTrueStep, StatusesTrueStep DEF PanelFollows
  <2> QED BY <2>1, <2>2, EventsBehindStep, FollowsStep DEF PanelFollows
<1> QED BY <1>1, <1>2 DEF AllFollow

\* The event of an answer (on_live_notif_response) comes behind every reply to the COO's panel
\* that the answer outdates.
THEOREM AllFollowHolds == AlertsSpec => []AllFollow
<1>1. AlertsInit => AllFollow
  <2> SUFFICES ASSUME AlertsInit PROVE AllFollow
    OBVIOUS
  <2>1. /\ \A w \in Windows : wire[w] = <<>> /\ open[w] = {}
        /\ \A w \in Windows, n \in Alerts : box[w][n] = None /\ tracker[w][n] = None
    BY DEF AlertsInit, ViewsInit
  <2>2. \A w \in Windows : DOMAIN wire[w] = {}
    BY <2>1, EmptyList
  <2> QED BY <2>1, <2>2 DEF AllFollow, Addressed, Covered, Known, Pushed, PanelFollows, EventsTrue, EventsBehind,
                            StatusesTrue, Earlier, Follows, Coos
<1>2. Desk /\ Answering /\ Once /\ AllFollow /\ [AlertsNext]_alertsVars => AllFollow'
  BY AllFollowStep
<1> QED BY <1>1, <1>2, DeskHolds, OnceHolds, PTL DEF AlertsSpec

\* TrackerFollows: what a COO's open panel shows of an alert (on_live_notif_response,
\* populate_responses_table) is the server's status, or the answer's event or a reload is on
\* its way, or a reload failed.  The exception is the very alert whose event was shown before a
\* reply that has it as pending and had left the server earlier.
THEOREM PanelsFollowAlerts == AlertsSpec => []TrackerFollows
<1>1. AllFollow => TrackerFollows
  <2> SUFFICES ASSUME AllFollow, NEW w \in Coos, NEW n \in Alerts, conn[w] = "up", Follows(w, n)
               PROVE  \/ tracker[w][n] = None \/ tracker[w][n] = alert[n] \/ n \in overtaken[w]
                      \/ "alerts" \in warned[w] \/ Answered(w, n) \/ Coming(w, "alerts", {})
    BY DEF TrackerFollows, RowFollows, AllFollow, PanelFollows, Answered, Is
  <2>1. \A data : Current(data, {})
    BY DEF Current
  <2>2. Requested(w, "alerts") \/ Undelivered(w, "alerts") \/ Loading(w) => Coming(w, "alerts", {})
    BY <2>1 DEF Coming, Requested, Undelivered, Loading, Failed, Replies
  <2> QED BY <2>2 DEF Follows, Reload
<1> QED BY <1>1, AllFollowHolds, PTL

-----------------------------------------------------------------------------
(* What a step does to the tables of a window, and to what is on its way to them. *)

\* New requests have read nothing.
Adds(v) ==
  /\ Continues(asks[v], asks'[v])
  /\ \A j \in DOMAIN asks'[v] : j \in DOMAIN asks[v] \/ DOMAIN asks'[v][j].got = {}

Steady(v) == view'[v] = view[v] /\ warned'[v] = warned[v] /\ dirty'[v] = dirty[v]

Speaks(v) ==
  wire'[v] = wire[v] \/ \E m : m.msg \notin {"reply", "failed"} /\ wire'[v] = Append(wire[v], m)

\* The request that is handled is done with.
Done(v) == 1 \in DOMAIN asks[v] /\ Without(asks[v], 1, asks'[v])

Grown(v, got) ==
  /\ DOMAIN asks[v][1].got \subseteq DOMAIN got
  /\ \A t \in DOMAIN got \cap Tables :
       got[t] = IF t \in DOMAIN asks[v][1].got THEN asks[v][1].got[t] ELSE version[t]

ReadsMore(v) ==
  /\ 1 \in DOMAIN asks[v] /\ wire'[v] = wire[v]
  /\ \E a : /\ a.request = asks[v][1].request /\ Grown(v, a.got)
            /\ asks'[v] = [asks[v] EXCEPT ![1] = a]

Replied(v) ==
  /\ Done(v)
  /\ \E m : /\ Replies(m, asks[v][1].request) /\ Live(m.request) \subseteq DOMAIN m.data
            /\ Grown(v, m.data) /\ wire'[v] = Append(wire[v], m)

Refused(v) ==
  /\ Done(v)
  /\ \E m : Failed(m, asks[v][1].request) /\ wire'[v] = Append(wire[v], m)

Wrote(v) == Done(v) /\ Speaks(v) /\ asks[v][1].request \notin ReadRequests

Receives(v, i) ==
  /\ Without(wire[v], i, wire'[v]) /\ Adds(v)
  /\ Take(v, i) \/ (TakeAboutAlert(v, i) /\ wire[v][i].msg # "reply" /\ Steady(v))

Quits(v) ==
  /\ conn'[v] # "up"
  /\ view'[v] = view[v] \/ (conn'[v] = "opening" /\ view'[v] = Blank(Panel(v)))

Turn(v) ==
  \/ Quits(v)
  \/ OpenWorkspace(v) /\ Adds(v)
  \/ Fire(v) /\ Adds(v)
  \/ \E i \in DOMAIN wire[v] : Receives(v, i)
  \/ Steady(v) /\ conn[v] = "up" /\ (\/ Speaks(v) /\ Adds(v)
                                     \/ Wrote(v) \/ ReadsMore(v) \/ Replied(v) \/ Refused(v))

LEMMA AddsNothing ==
  ASSUME Desk, NEW v \in Windows, asks'[v] = asks[v]
  PROVE  Adds(v)
BY Unpacked, Continued DEF Adds

\* A step of others.
LEMMA OthersTurn ==
  ASSUME Desk, NEW v \in Windows, conn'[v] = conn[v], Steady(v), Speaks(v), Adds(v)
  PROVE  Turn(v)
BY DEF Turn, Quits, Steady

LEMMA AddsPut ==
  ASSUME Desk, UNCHANGED scene, NEW w \in Windows, NEW u, AsksOK(u, Panel(w)),
         \A k \in DOMAIN u : DOMAIN u[k].got = {}, asks' = Put(asks, w, u), NEW v \in Windows
  PROVE  Adds(v)
<1>1. /\ Continues(asks[w], asks'[w]) /\ \A x \in Windows \ {w} : asks'[x] = asks[x]
      /\ \A j \in DOMAIN asks'[w] : j \notin DOMAIN asks[w] =>
           j - Len(asks[w]) \in DOMAIN u /\ asks'[w][j] = u[j - Len(asks[w])]
  BY AsksPut
<1>2. Adds(w)
  BY <1>1 DEF Adds
<1> QED BY <1>1, <1>2, AddsNothing

LEMMA AddsReads ==
  ASSUME Desk, UNCHANGED scene, NEW w \in Windows, NEW v \in Windows,
         \/ UNCHANGED asks
         \/ \E u : /\ asks' = Put(asks, w, u)
                   /\ \/ FreshReads(u, Range(Asked[Panel(w)]))
                      \/ \E r : FreshReads(u, Range(Then(Panel(w), r)))
  PROVE  Adds(v)
<1>1. ASSUME NEW u, asks' = Put(asks, w, u),
             \/ FreshReads(u, Range(Asked[Panel(w)]))
             \/ \E r : FreshReads(u, Range(Then(Panel(w), r)))
      PROVE  Adds(v)
  <2>1. AsksOK(u, Panel(w))
    BY <1>1, NothingAboutAlerts
  <2>2. \A r : DOMAIN Ask(r).got = {}
    BY EmptyList DEF Ask, Asking
  <2>3. \A k \in DOMAIN u : DOMAIN u[k].got = {}
    BY <1>1, <2>2 DEF FreshReads
  <2> QED BY <1>1, <2>1, <2>3, AddsPut
<1> QED BY <1>1, AddsNothing

LEMMA TakeAdds ==
  ASSUME Desk, NEW w \in Windows, NEW i \in DOMAIN wire[w], Take(w, i), NEW v \in Windows
  PROVE  Adds(v)
<1>1. UNCHANGED scene /\ scene \in Scenes
  BY Taking DEF Desk
<1>2. \/ UNCHANGED asks
      \/ \E u : /\ asks' = Put(asks, w, u)
                /\ \/ FreshReads(u, Range(Asked[Panel(w)]))
                   \/ \E r : FreshReads(u, Range(Then(Panel(w), r)))
  <2>1. CASE wire[w][i].msg = "changed"
    <3>1. \A scopes : FreshReads(Wanted(w, scopes), Range(Asked[Panel(w)]))
      BY <1>1, WantedAsked
    <3> QED BY <2>1, <3>1, Taking DEF TakeChanged
  <2>2. CASE wire[w][i].msg = "reply"
    <3> DEFINE r == wire[w][i].request
               next == Then(Panel(w), r)
               u == [j \in DOMAIN next |-> Ask(next[j])]
    <3>1. FreshReads(u, Range(Then(Panel(w), r)))
      BY ThenAsked
    <3>2. asks' = Put(asks, w, u)
      BY <2>2, Taking DEF TakeReply
    <3> HIDE DEF u, r
    <3> QED BY <3>1, <3>2
  <2>3. CASE wire[w][i].msg = "failed"
    BY <2>3, Taking DEF TakeFailed
  <2>4. CASE wire[w][i].msg \in {"synced", "resumed"}
    <3>1. FreshReads(All(w), Range(Asked[Panel(w)]))
      BY <1>1, AllAsked
    <3> QED BY <2>4, <3>1, Taking DEF TakeSynced, TakeResumed
  <2> QED BY <2>1, <2>2, <2>3, <2>4, Taking
<1> QED BY <1>1, <1>2, AddsReads

LEMMA TakeTurn ==
  ASSUME Desk, NEW v \in Windows, NEW w \in Windows, NEW i \in DOMAIN wire[w], Take(w, i), Shows(w, wire[w][i])
  PROVE  Turn(v)
<1>1. Without(wire[w], i, wire'[w]) /\ \A x \in Windows \ {w} : wire'[x] = wire[x]
  BY TakeStep
<1>2. Adds(v)
  BY TakeAdds
<1>3. DOMAIN warned = Windows /\ DOMAIN dirty = Windows /\ DOMAIN view = Windows /\ DOMAIN conn = Windows
  BY DEF Desk, InTheWindows
<1>4. ASSUME v # w PROVE Steady(v) /\ conn'[v] = conn[v]
  <2>1. CASE wire[w][i].msg = "changed"
    BY <1>3, <1>4, <2>1, Taking DEF TakeChanged, Steady
  <2>2. CASE wire[w][i].msg = "reply"
    BY <1>3, <1>4, <2>2, Taking DEF TakeReply, Steady
  <2>3. CASE wire[w][i].msg \in {"failed", "synced", "resumed"}
    BY <1>3, <1>4, <2>3, Taking DEF TakeFailed, TakeSynced, TakeResumed, Steady
  <2> QED BY <2>1, <2>2, <2>3, Taking
<1>5. CASE v # w
  BY <1>1, <1>2, <1>4, <1>5, OthersTurn DEF Speaks
<1>6. CASE v = w
  BY <1>1, <1>2, <1>6 DEF Turn, Receives
<1> QED BY <1>5, <1>6

LEMMA HearTurn ==
  ASSUME Desk, NEW v \in Windows, NEW w \in Windows, NEW i \in DOMAIN wire[w], TakeAboutAlert(w, i)
  PROVE  Turn(v)
<1>1. Without(wire[w], i, wire'[w]) /\ \A x \in Windows \ {w} : wire'[x] = wire[x]
  BY TakeAboutAlertStep
<1>2. /\ UNCHANGED <<scene, conn, dirty, view, warned>> /\ wire[w][i].msg # "reply"
      /\ UNCHANGED asks \/ asks' = Put(asks, w, All(w))
  <2>1. UNCHANGED <<scene, conn, dirty, view, warned>> /\ wire[w][i].msg \in {"alert", "answered", "sent", "ack"}
    BY TakingAboutAlert
  <2>2. UNCHANGED asks \/ asks' = Put(asks, w, All(w))
    <3>1. CASE wire[w][i].msg = "ack"
      <4>1. TakeAck(w, i)
        BY <3>1, TakingAboutAlert
      <4> QED BY <4>1, Zenon DEF TakeAck
    <3>2. CASE wire[w][i].msg \in {"alert", "answered", "sent"}
      BY <3>2, TakingAboutAlert DEF TakeAlert, TakeAnswered, TakeSent
    <3> QED BY <2>1, <3>1, <3>2
  <2> QED BY <2>1, <2>2
<1>3. Steady(v)
  BY <1>2 DEF Steady
<1>4. Adds(v)
  <2>1. FreshReads(All(w), Range(Asked[Panel(w)]))
    BY AllAsked DEF Desk
  <2> QED BY <1>2, <2>1, AddsReads
<1>5. CASE v # w
  BY <1>1, <1>2, <1>3, <1>4, <1>5, OthersTurn DEF Speaks
<1>6. CASE v = w
  BY <1>1, <1>2, <1>3, <1>4, <1>6 DEF Turn, Receives
<1> QED BY <1>5, <1>6

LEMMA ReadTurn ==
  ASSUME Desk, NEW v \in Windows, NEW w \in Windows, Read(w, Data), UNCHANGED alertVars
  PROVE  Turn(v)
<1>1. \A x \in Windows \ {w} : asks'[x] = asks[x] /\ wire'[x] = wire[x]
  BY ReadStep
<1>2. UNCHANGED <<conn, warned, dirty, view>>
  BY DEF Read
<1>3. PICK i, got :
     /\ i \in Handled(w)
     /\ LET a == asks[w][i]
        IN /\ a.left # <<>>
           /\ got = Filled(a.got, Head(a.left), Data)
           /\ \/ /\ Len(a.left) > 1 /\ UNCHANGED wire
                 /\ asks'[w] = [asks[w] EXCEPT ![i] = Asking(a.request, Tail(a.left), got)]
              \/ /\ ~(Len(a.left) > 1) /\ Without(asks[w], i, asks'[w])
                 /\ wire'[w] = Append(wire[w], [msg |-> "reply", request |-> a.request, data |-> got])
                 /\ a.request \in {"snapshot", "alerts"} => got["alerts"] = alert
                 /\ a.request \notin {"snapshot", "alerts"} => KeepsWire
  BY ReadStep
<1>4. i \in DOMAIN asks[w] /\ i = 1 /\ conn[w] = "up" /\ IsRead(asks[w][i], Panel(w))
  BY <1>3, Reading
<1>5. Steady(v)
  BY <1>2 DEF Steady
<1>6. CASE v # w
  BY <1>1, <1>2, <1>5, <1>6, AddsNothing, OthersTurn DEF Speaks
<1>7. /\ Grown(w, got)
      /\ ~(Len(asks[w][i].left) > 1) => Live(asks[w][i].request) \subseteq DOMAIN got
  <2> DEFINE a == asks[w][i]
  <2>1. Panel(w) \in Panels \cup {Nobody} /\ IsRead(a, Panel(w)) /\ \A t \in Tables : Data[t] \in Nat
    BY <1>4, TheData, Unpacked
  <2>6. \A t \in Tables : Data[t] = version[t]
    BY TheData
  <2>2. got = Filled(a.got, Head(a.left), Data)
    BY <1>3
  <2> HIDE DEF a
  <2>3. /\ DOMAIN a.got \subseteq DOMAIN got
        /\ \A t \in DOMAIN got : got[t] = IF t \in DOMAIN a.got THEN a.got[t] ELSE Data[t]
        /\ ~(Len(a.left) > 1) => Live(a.request) \subseteq DOMAIN got
    <3>1. ReadOf(a, Panel(w), Data, got)
      BY <2>1, <2>2, ReadGoesOn
    <3> QED BY <3>1 DEF ReadOf
  <2>4. \A t \in DOMAIN got \cap Tables : got[t] = IF t \in DOMAIN a.got THEN a.got[t] ELSE version[t]
    BY <2>3, <2>6
  <2> QED BY <1>4, <2>3, <2>4 DEF a, Grown
<1>8. CASE v = w /\ UNCHANGED wire
             /\ asks'[w] = [asks[w] EXCEPT ![i] = Asking(asks[w][i].request, Tail(asks[w][i].left), got)]
  <2> DEFINE a == Asking(asks[w][i].request, Tail(asks[w][i].left), got)
  <2>1. a.request = asks[w][i].request /\ a.got = got
    BY DEF Asking
  <2>2. asks'[w] = [asks[w] EXCEPT ![i] = a]
    BY <1>8
  <2> HIDE DEF a
  <2>3. a.request = asks[w][1].request /\ asks'[w] = [asks[w] EXCEPT ![1] = a]
    BY <1>4, <2>1, <2>2
  <2>4. ReadsMore(w)
    BY <1>4, <1>7, <1>8, <2>1, <2>3 DEF ReadsMore
  <2> QED BY <1>4, <1>5, <1>8, <2>4 DEF Turn
<1>9. CASE /\ v = w /\ Without(asks[w], i, asks'[w]) /\ ~(Len(asks[w][i].left) > 1)
           /\ wire'[w] = Append(wire[w], [msg |-> "reply", request |-> asks[w][i].request, data |-> got])
  <2> DEFINE m == [msg |-> "reply", request |-> asks[w][i].request, data |-> got]
  <2>1. Replies(m, asks[w][1].request) /\ wire'[w] = Append(wire[w], m) /\ m.data = got /\ m.request = asks[w][1].request
    BY <1>4, <1>9 DEF Replies
  <2> HIDE DEF m
  <2>2. Live(m.request) \subseteq DOMAIN m.data /\ Grown(w, m.data)
    BY <1>4, <1>7, <1>9, <2>1
  <2>3. Replied(w)
    BY <1>4, <1>9, <2>1, <2>2 DEF Replied, Done
  <2> QED BY <1>4, <1>5, <1>9, <2>3 DEF Turn
<1> QED BY <1>3, <1>6, <1>8, <1>9

LEMMA FailTurn ==
  ASSUME Desk, NEW v \in Windows, NEW w \in Windows, Fail(w), UNCHANGED alertVars
  PROVE  Turn(v)
<1>1. \A x \in Windows \ {w} : asks'[x] = asks[x] /\ wire'[x] = wire[x]
  BY FailStep
<1>2. UNCHANGED conn /\ Steady(v)
  BY DEF Fail, Steady
<1>3. PICK i \in Handled(w) :
        /\ asks[w][i].left # <<>> /\ Without(asks[w], i, asks'[w])
        /\ wire'[w] = Append(wire[w], [msg |-> "failed", request |-> asks[w][i].request])
  BY FailStep
<1>4. i \in DOMAIN asks[w] /\ i = 1 /\ conn[w] = "up"
  BY <1>3, Reading
<1>5. CASE v # w
  BY <1>1, <1>2, <1>5, AddsNothing, OthersTurn DEF Speaks
<1>6. CASE v = w
  <2> DEFINE m == [msg |-> "failed", request |-> asks[w][i].request]
  <2>1. Failed(m, asks[w][1].request) /\ wire'[w] = Append(wire[w], m)
    BY <1>3, <1>4 DEF Failed
  <2> HIDE DEF m
  <2>2. Refused(w)
    BY <1>3, <1>4, <2>1 DEF Refused, Done
  <2> QED BY <1>2, <1>4, <1>6, <2>2 DEF Turn
<1> QED BY <1>5, <1>6

LEMMA WriteTurn ==
  ASSUME Desk, NEW v \in Windows, NEW w \in Windows, NEW i \in Handled(w),
         asks[w][i].request \notin ReadRequests, Without(asks[w], i, asks'[w]),
         UNCHANGED <<conn, warned, dirty, view>>,
         \A x \in Windows \ {w} : asks'[x] = asks[x], Speaks(v)
  PROVE  Turn(v)
<1>1. conn[w] = "up" /\ i = 1 /\ i \in DOMAIN asks[w]
  BY AlertRequest
<1>2. Steady(v)
  BY DEF Steady
<1>3. CASE v # w
  BY <1>2, <1>3, AddsNothing, OthersTurn
<1>4. CASE v = w
  BY <1>1, <1>2, <1>4 DEF Turn, Wrote, Done
<1> QED BY <1>3, <1>4

LEMMA ServerTurn ==
  ASSUME Desk, Answering, NEW v \in Windows, Server
  PROVE  Turn(v)
<1>0. DOMAIN wire = Windows
  BY Unpacked
<1>1. ASSUME NEW k \in Kinds, Change(k) PROVE Turn(v)
  <2>1. UNCHANGED <<conn, asks, wire, dirty, view, warned>>
    BY <1>1 DEF Change
  <2> QED BY <2>1, AddsNothing, OthersTurn DEF Steady, Speaks
<1>2. ASSUME NEW i \in DOMAIN handlers, Announce(i) PROVE Turn(v)
  <2>1. UNCHANGED <<conn, asks, dirty, view, warned>> /\ wire' = Send(Head(handlers[i]))
    BY <1>2 DEF Announce
  <2>2. Head(handlers[i]).message.msg \notin {"reply", "failed"}
    <3>1. ItemsOK(handlers[i]) /\ handlers[i] # <<>>
      BY <1>2 DEF Announce, Desk, HandlersTyped
    <3>2. 1 \in DOMAIN handlers[i] /\ Head(handlers[i]) = handlers[i][1]
      BY <3>1, Rest DEF ItemsOK
    <3> QED BY <3>1, <3>2 DEF ItemsOK, IsItem
  <2>3. Speaks(v)
    BY <2>1, <2>2 DEF Speaks, Send
  <2> QED BY <2>1, <2>3, AddsNothing, OthersTurn DEF Steady
<1>3. ASSUME NEW w \in Windows, Store(w) PROVE Turn(v)
  <2>1. PICK i \in Handled(w) :
          asks[w][i].request \in HeadsOwn /\ asks' = [asks EXCEPT ![w] = RemoveAt(@, i)]
    BY <1>3 DEF Store
  <2>2. UNCHANGED <<scene, conn, wire, warned, dirty, view>>
    BY <1>3 DEF Store
  <2>3. i \in DOMAIN asks[w] /\ asks[w][i].request \notin ReadRequests
    BY <2>1, AlertRequest DEF HeadsOwn, ReadRequests
  <2>4. Without(asks[w], i, asks'[w]) /\ \A x \in Windows \ {w} : asks'[x] = asks[x]
    BY <2>1, <2>2, <2>3, AsksTaken
  <2> QED BY <2>2, <2>3, <2>4, WriteTurn DEF Speaks
<1>4. ASSUME NEW w \in Windows, Create(w) PROVE Turn(v)
  <2>1. PICK i, n, message, reply :
          /\ i \in Handled(w) /\ n \in Alerts
          /\ asks[w][i].request = "notify" /\ asks[w][i].alert = n
          /\ Without(asks[w], i, asks'[w]) /\ \A x \in Windows \ {w} : asks'[x] = asks[x]
          /\ alert[n] = None /\ alert' = [alert EXCEPT ![n] = "PENDING"]
          /\ message.msg = "alert" /\ message.alert = n /\ reply.msg = "sent" /\ reply.alert = n
          /\ wire'[w] = Append(wire[w], reply)
          /\ \A x \in Windows \ {w} :
               \/ wire'[x] = wire[x] /\ (x \notin Heads \/ conn[x] = "down")
               \/ wire'[x] = Append(wire[x], message) /\ x \in Heads /\ conn[x] # "down"
    BY <1>4, CreateStep
  <2>2. asks[w][i].request \notin ReadRequests /\ Speaks(v)
    BY <2>1 DEF ReadRequests, Speaks
  <2>3. UNCHANGED <<conn, warned, dirty, view>>
    BY <1>4 DEF Create
  <2> QED BY <2>1, <2>2, <2>3, WriteTurn
<1>5. ASSUME NEW w \in Windows, Respond(w) PROVE Turn(v)
  <2>1. PICK i, n, message, reply, ws : Responded(w, i, n, message, reply, ws)
    BY <1>5, RespondStep
  <2>2. asks[w][i].request \notin ReadRequests /\ Speaks(v)
    BY <2>1 DEF ReadRequests, Speaks, Responded
  <2>3. UNCHANGED <<conn, warned, dirty, view>>
    BY <1>5 DEF Respond
  <2> QED BY <2>1, <2>2, <2>3, WriteTurn DEF Responded
<1> QED BY <1>1, <1>2, <1>3, <1>4, <1>5, ReadTurn DEF Server

LEMMA WindowTurn ==
  ASSUME Desk, NEW v \in Windows, NEW w \in Windows, Window(w)
  PROVE  Turn(v)
<1>0. DOMAIN conn = Windows /\ DOMAIN dirty = Windows /\ scene \in Scenes
  BY DEF Desk, InTheWindows
<1>1. ASSUME Fire(w) PROVE Turn(v)
  <2>1. /\ UNCHANGED <<scene, conn, wire, view, warned>>
        /\ UNCHANGED asks \/ asks' = Put(asks, w, Wanted(w, dirty[w]))
        /\ dirty' = [dirty EXCEPT ![w] = {}]
    BY <1>1 DEF Fire
  <2>2. Adds(v)
    <3>1. FreshReads(Wanted(w, dirty[w]), Range(Asked[Panel(w)]))
      BY <1>0, WantedAsked
    <3> QED BY <2>1, <3>1, AddsReads
  <2>3. CASE v # w
    BY <1>0, <2>1, <2>2, <2>3, OthersTurn DEF Steady, Speaks
  <2> QED BY <1>1, <2>2, <2>3 DEF Turn
<1>2. ASSUME NEW k \in Kinds, Submit(w, k) PROVE Turn(v)
  <2>1. /\ UNCHANGED <<scene, conn, wire, dirty, view, warned>> /\ k \in HeadsOwn /\ Panel(w) = "head"
        /\ asks' = Put(asks, w, <<Asking(k, <<>>, <<>>)>>)
    BY <1>2 DEF Submit
  <2>2. Adds(v)
    <3> DEFINE a == Asking(k, <<>>, <<>>)
    <3>1. IsAsk(a, Panel(w)) /\ DOMAIN a.got = {} /\ asks' = Put(asks, w, <<a>>)
      BY <2>1, EmptyList DEF Asking, IsAsk, HeadsOwn
    <3> HIDE DEF a
    <3>2. AsksOK(<<a>>, Panel(w)) /\ \A j \in DOMAIN <<a>> : DOMAIN <<a>>[j].got = {}
      BY <3>1, Single DEF AsksOK
    <3> QED BY <2>1, <3>1, <3>2, AddsPut
  <2> QED BY <2>1, <2>2, OthersTurn DEF Steady, Speaks
<1>3. ASSUME OpenWorkspace(w) PROVE Turn(v)
  <2>1. UNCHANGED <<scene, wire, view, warned, dirty>> /\ conn[w] = "opening" /\ conn' = [conn EXCEPT ![w] = "up"]
        /\ asks' = [asks EXCEPT ![w] = All(w)]
    BY <1>3 DEF OpenWorkspace
  <2>2. asks[w] = <<>>
    BY <2>1 DEF Desk, Idle
  <2>3. \A x \in Windows \ {w} : asks'[x] = asks[x] /\ conn'[x] = conn[x]
    BY <1>0, <2>1, Unpacked
  <2>4. CASE v # w
    BY <2>1, <2>3, <2>4, AddsNothing, OthersTurn DEF Steady, Speaks
  <2>5. Adds(w)
    <3> DEFINE u == All(w)
    <3>1. FreshReads(u, Range(Asked[Panel(w)])) /\ asks'[w] = u
      BY <1>0, <2>1, AllAsked, Unpacked
    <3> HIDE DEF u
    <3>2. \A r : DOMAIN Ask(r).got = {}
      BY EmptyList DEF Ask, Asking
    <3>3. \A k \in DOMAIN u : DOMAIN u[k].got = {}
      BY <3>1, <3>2 DEF FreshReads
    <3>4. IsList(u) /\ Len(u) \in Nat
      BY <3>1, Listed DEF FreshReads
    <3>5. Continues(<<>>, u)
      BY <3>4, EmptyList DEF Continues
    <3> QED BY <2>2, <3>1, <3>3, <3>5 DEF Adds
  <2> QED BY <1>3, <2>4, <2>5 DEF Turn
<1>4. ASSUME NEW n \in Alerts, Notify(w, n) \/ SendAnswer(w, n) PROVE Turn(v)
  <2>1. UNCHANGED <<scene, conn, wire, dirty, view, warned>>
    BY <1>4 DEF Notify, SendAnswer
  <2>2. PICK r \in {"notify", "respond"} :
          /\ asks' = Put(asks, w, <<[request |-> r, left |-> <<>>, got |-> <<>>, alert |-> n]>>)
          /\ r = "notify" => Panel(w) = "coo"
    BY <1>4 DEF Notify, SendAnswer, Coos
  <2>3. Adds(v)
    <3> DEFINE a == [request |-> r, left |-> <<>>, got |-> <<>>, alert |-> n]
    <3>1. IsAsk(a, Panel(w)) /\ DOMAIN a.got = {} /\ asks' = Put(asks, w, <<a>>)
      BY <2>2, EmptyList DEF IsAsk
    <3> HIDE DEF a
    <3>2. AsksOK(<<a>>, Panel(w)) /\ \A j \in DOMAIN <<a>> : DOMAIN <<a>>[j].got = {}
      BY <3>1, Single DEF AsksOK
    <3> QED BY <2>1, <3>1, <3>2, AddsPut
  <2> QED BY <2>1, <2>3, OthersTurn DEF Steady, Speaks
<1>5. ASSUME NEW n \in Alerts, NEW s \in Answers, Answer(w, n, s) PROVE Turn(v)
  <2>1. UNCHANGED <<conn, asks, wire, dirty, view, warned>>
    BY <1>5 DEF Answer, viewVars
  <2> QED BY <2>1, AddsNothing, OthersTurn DEF Steady, Speaks
<1> QED BY <1>1, <1>2, <1>3, <1>4, <1>5, TakeTurn, HearTurn DEF Window

LEMMA TurnOf ==
  ASSUME Desk, Answering, NEW v \in Windows, [AlertsNext]_alertsVars
  PROVE  Turn(v)
<1>0. DOMAIN conn = Windows /\ DOMAIN view = Windows /\ DOMAIN asks = Windows /\ DOMAIN wire = Windows
      /\ DOMAIN warned = Windows /\ DOMAIN dirty = Windows
  BY Unpacked DEF Desk, InTheWindows
<1>1. CASE UNCHANGED alertsVars
  <2>1. UNCHANGED <<conn, asks, wire, dirty, view, warned>>
    BY <1>1 DEF alertsVars, viewVars
  <2> QED BY <2>1, AddsNothing, OthersTurn DEF Steady, Speaks
<1>2. ASSUME NEW w \in Windows, Faults(w) PROVE Turn(v)
  <2>1. CASE Fail(w) /\ UNCHANGED alertVars
    BY <2>1, FailTurn
  <2>2. CASE Drop(w) \/ Resume(w) \/ Reopened(w)
    <3>1. /\ conn'[w] # "up" /\ \A x \in Windows \ {w} : conn'[x] = conn[x]
          /\ view'[w] = view[w] \/ (conn'[w] = "opening" /\ view'[w] = Blank(Panel(w)))
      BY <1>0, <2>2 DEF Drop, Resume, Reopened, Restart
    <3>2. \A x \in Windows \ {w} : asks'[x] = asks[x] /\ wire'[x] = wire[x] /\ Steady(x)
      BY <1>0, <2>2 DEF Drop, Resume, Reopened, Restart, Steady
    <3>3. CASE v = w
      BY <3>1, <3>3 DEF Turn, Quits
    <3>4. CASE v # w
      BY <3>1, <3>2, <3>4, AddsNothing, OthersTurn DEF Speaks
    <3> QED BY <3>3, <3>4
  <2> QED BY <1>2, <2>1, <2>2 DEF Faults
<1> QED BY <1>1, <1>2, ServerTurn, WindowTurn DEF AlertsNext

-----------------------------------------------------------------------------
(* A window never goes back to older data. *)

\* The request that is handled has read table t for a reply to r.
Gets(w, r, t) == 1 \in DOMAIN asks[w] /\ asks[w][1].request = r /\ t \in DOMAIN asks[w][1].got

\* Nothing that comes after message i is older than x.
Newer(w, r, t, x, i) ==
  /\ x <= version[t]
  /\ Gets(w, r, t) => x <= asks[w][1].got[t]
  /\ \A k \in DOMAIN wire[w] : k > i /\ Replies(wire[w][k], r) => x <= wire[w][k].data[t]

\* What the window shows, its replies in their order, what is being read and the table are each
\* as new as the one before.
Forward(w, r, t) ==
  /\ view[w][r][t] \in Nat /\ Newer(w, r, t, view[w][r][t], 0)
  /\ \A i \in DOMAIN wire[w] : Replies(wire[w][i], r) => Newer(w, r, t, wire[w][i].data[t], i)
  /\ Gets(w, r, t) => asks[w][1].got[t] <= version[t]

Ordered(w) ==
  /\ \A j \in DOMAIN asks[w] : j # 1 => DOMAIN asks[w][j].got = {}
  /\ \A i \in DOMAIN wire[w] : wire[w][i].msg = "reply" => Live(wire[w][i].request) \subseteq DOMAIN wire[w][i].data
  /\ \A r \in Shown(Panel(w)) : \A t \in Live(r) : Forward(w, r, t)

AllOrdered == \A w \in Windows : Ordered(w)

\* What is new on the way is what the table holds, or what was read before.
Held(w, r, t, x) == x = version[t] \/ (Gets(w, r, t) /\ x = asks[w][1].got[t])

HeldStill(w, r, t) == Gets(w, r, t)' => Held(w, r, t, asks'[w][1].got[t])

\* The replies to r behind message k of the next state were behind message j, or are new.
Behind(w, r, t, j, k) ==
  \A h \in DOMAIN wire'[w] : h > k /\ Replies(wire'[w][h], r) =>
    \/ Held(w, r, t, wire'[w][h].data[t])
    \/ \E g \in DOMAIN wire[w] : g > j /\ wire[w][g] = wire'[w][h]

\* Replies keep their order, and a new one is the last.
Placed(w, r, t) ==
  \A k \in DOMAIN wire'[w] : Replies(wire'[w][k], r) =>
    \/ /\ Held(w, r, t, wire'[w][k].data[t]) /\ ~Gets(w, r, t)'
       /\ \A h \in DOMAIN wire'[w] : ~(h > k)
    \/ \E j \in DOMAIN wire[w] : wire[w][j] = wire'[w][k] /\ Behind(w, r, t, j, k)

LEMMA VersionsGrow ==
  ASSUME Desk, [AlertsNext]_alertsVars, NEW t \in Tables
  PROVE  version[t] \in Nat /\ version'[t] \in Nat /\ version[t] <= version'[t]
<1>1. version[t] \in Nat
  BY ScenePanels DEF Desk, Numbers
<1>2. ASSUME NEW k, NEW reply, Commit(k, reply)
      PROVE  version'[t] \in Nat /\ version[t] <= version'[t]
  <2>1. version'[t] = version[t] + (IF t \in Writes(k) THEN 1 ELSE 0)
    BY <1>2 DEF Commit
  <2>2. CASE t \in Writes(k)
    BY <1>1, <2>1, <2>2
  <2>3. CASE t \notin Writes(k)
    BY <1>1, <2>1, <2>3
  <2> QED BY <2>2, <2>3
<1>3. ASSUME UNCHANGED version PROVE version'[t] \in Nat /\ version[t] <= version'[t]
  BY <1>1, <1>3
<1>4. CASE UNCHANGED alertsVars
  BY <1>3, <1>4 DEF alertsVars, viewVars
<1>5. CASE Server
  <2>1. ASSUME NEW k \in Kinds, Change(k) PROVE version'[t] \in Nat /\ version[t] <= version'[t]
    BY <1>2, <2>1 DEF Change
  <2>2. ASSUME NEW w \in Windows, Store(w) PROVE version'[t] \in Nat /\ version[t] <= version'[t]
    BY <1>2, <2>2 DEF Store
  <2>3. ASSUME NEW i \in DOMAIN handlers, Announce(i) PROVE version'[t] \in Nat /\ version[t] <= version'[t]
    BY <1>3, <2>3 DEF Announce
  <2>4. ASSUME NEW w \in Windows, Read(w, Data) \/ Create(w) \/ Respond(w)
        PROVE  version'[t] \in Nat /\ version[t] <= version'[t]
    BY <1>3, <2>4 DEF Read, Create, Respond
  <2> QED BY <1>1, <1>5, <2>1, <2>2, <2>3, <2>4 DEF Server
<1>6. ASSUME NEW w \in Windows, Window(w) PROVE UNCHANGED version
  <2>1. ASSUME NEW i \in DOMAIN wire[w], Take(w, i) \/ TakeAboutAlert(w, i) PROVE UNCHANGED version
    BY <2>1 DEF Take, TakeAboutAlert
  <2>2. ASSUME Fire(w) \/ OpenWorkspace(w) \/ \E k \in Kinds : Submit(w, k) PROVE UNCHANGED version
    BY <2>2 DEF Fire, OpenWorkspace, Submit
  <2>3. ASSUME NEW n \in Alerts, Notify(w, n) \/ SendAnswer(w, n) \/ \E s \in Answers : Answer(w, n, s)
        PROVE UNCHANGED version
    BY <2>3 DEF Notify, SendAnswer, Answer, viewVars
  <2> QED BY <1>6, <2>1, <2>2, <2>3 DEF Window
<1>7. ASSUME NEW w \in Windows, Faults(w) PROVE UNCHANGED version
  BY <1>7 DEF Faults, Drop, Resume, Fail, Reopened, Restart
<1>8. CASE AlertsNext
  BY <1>3, <1>5, <1>6, <1>7, <1>8 DEF AlertsNext
<1> QED BY <1>1, <1>4, <1>8

LEMMA NewerStill ==
  ASSUME NEW v, NEW r, NEW t, NEW x \in Nat, NEW i, NEW h, version[t] \in Nat, version'[t] \in Nat,
         version[t] <= version'[t], Newer(v, r, t, x, i), HeldStill(v, r, t), Behind(v, r, t, i, h)
  PROVE  Newer(v, r, t, x, h)'
<1>1. \A y : Held(v, r, t, y) => x <= y
  BY DEF Newer, Held
<1>2. x <= version'[t]
  BY DEF Newer
<1>3. Gets(v, r, t)' => x <= asks'[v][1].got[t]
  BY <1>1 DEF HeldStill
<1>4. \A k \in DOMAIN wire'[v] : k > h /\ Replies(wire'[v][k], r) => x <= wire'[v][k].data[t]
  BY <1>1 DEF Newer, Behind
<1> QED BY <1>2, <1>3, <1>4 DEF Newer

LEMMA StillForward ==
  ASSUME Desk, Desk', NEW v \in Windows, NEW r \in Shown(Panel(v)), NEW t \in Live(r),
         [AlertsNext]_alertsVars, Forward(v, r, t), Placed(v, r, t), HeldStill(v, r, t),
         \/ view'[v][r][t] = view[v][r][t]
         \/ /\ 1 \in DOMAIN wire[v] /\ Replies(wire[v][1], r) /\ view'[v][r][t] = wire[v][1].data[t]
            /\ \A k \in DOMAIN wire'[v] : \E j \in DOMAIN wire[v] : j > 1 /\ wire[v][j] = wire'[v][k]
  PROVE  Forward(v, r, t)' /\ view'[v][r][t] >= view[v][r][t]
<1>1. r \in ReadRequests /\ t \in Tables
  BY Unpacked, PanelsShow, WhatIsRead
<1>2. version[t] \in Nat /\ version'[t] \in Nat /\ version[t] <= version'[t]
  BY <1>1, VersionsGrow
<1>3. \A k \in DOMAIN wire[v] : k >= 1 /\ k \in Nat
  BY Unpacked, Listed
<1>4. \A k \in DOMAIN wire[v] : Replies(wire[v][k], r) => wire[v][k].data[t] \in Nat
  BY Unpacked DEF IsMessage, IsReply, Replies
<1>5. Gets(v, r, t) => asks[v][1].got[t] \in Nat
  <2> SUFFICES ASSUME Gets(v, r, t) PROVE asks[v][1].got[t] \in Nat
    OBVIOUS
  <2>1. 1 \in DOMAIN asks[v] /\ IsAsk(asks[v][1], Panel(v)) /\ asks[v][1].request = r /\ t \in DOMAIN asks[v][1].got
    BY Unpacked DEF Gets
  <2>2. IsRead(asks[v][1], Panel(v))
    BY <1>1, <2>1 DEF IsAsk, ReadRequests, HeadsOwn
  <2> QED BY <1>1, <2>1, <2>2 DEF IsRead
<1>6. \A y : Held(v, r, t, y) => y \in Nat /\ y <= version[t]
  BY <1>2, <1>5 DEF Held, Forward
<1>7. Gets(v, r, t)' => asks'[v][1].got[t] <= version'[t]
  BY <1>2, <1>6 DEF HeldStill
<1>8. ASSUME NEW k \in DOMAIN wire'[v], Replies(wire'[v][k], r), NEW x, x = wire'[v][k].data[t]
      PROVE  Newer(v, r, t, x, k)'
  <2>1. CASE Held(v, r, t, x) /\ ~Gets(v, r, t)' /\ \A h \in DOMAIN wire'[v] : ~(h > k)
    <3>1. x \in Nat /\ x <= version'[t]
      BY <1>2, <1>6, <2>1
    <3> QED BY <2>1, <3>1 DEF Newer
  <2>2. ASSUME NEW j \in DOMAIN wire[v], wire[v][j] = wire'[v][k], Behind(v, r, t, j, k)
        PROVE  Newer(v, r, t, x, k)'
    <3>1. x = wire[v][j].data[t] /\ Replies(wire[v][j], r)
      BY <1>8, <2>2
    <3>2. x \in Nat /\ Newer(v, r, t, x, j)
      BY <1>4, <3>1 DEF Forward
    <3> QED BY <1>2, <2>2, <3>2, NewerStill
  <2> QED BY <1>8, <2>1, <2>2 DEF Placed
<1>9. PICK y : y = view'[v][r][t]
  OBVIOUS
<1>10. y \in Nat /\ view[v][r][t] \in Nat /\ y >= view[v][r][t] /\ Newer(v, r, t, y, 0)'
  <2>1. view[v][r][t] \in Nat /\ Newer(v, r, t, view[v][r][t], 0)
    BY DEF Forward
  <2>2. Behind(v, r, t, 0, 0)
    BY <1>3 DEF Placed, Behind
  <2>3. CASE y = view[v][r][t]
    BY <1>2, <2>1, <2>2, <2>3, NewerStill
  <2>4. CASE /\ 1 \in DOMAIN wire[v] /\ Replies(wire[v][1], r) /\ y = wire[v][1].data[t]
             /\ \A k \in DOMAIN wire'[v] : \E j \in DOMAIN wire[v] : j > 1 /\ wire[v][j] = wire'[v][k]
    <3>1. y \in Nat /\ Newer(v, r, t, y, 1)
      BY <1>4, <2>4 DEF Forward
    <3>2. view[v][r][t] <= y
      BY <2>1, <2>4 DEF Newer
    <3>3. Behind(v, r, t, 1, 0)
      BY <2>4 DEF Behind
    <3>4. Newer(v, r, t, y, 0)'
      BY <1>2, <3>1, <3>3, NewerStill
    <3> QED BY <2>1, <3>1, <3>2, <3>4
  <2> QED BY <1>9, <2>3, <2>4
<1>11. view'[v][r][t] \in Nat /\ Newer(v, r, t, view[v][r][t], 0)'
  BY <1>9, <1>10 DEF Newer
<1>12. (\A i \in DOMAIN wire[v] : Replies(wire[v][i], r) => Newer(v, r, t, wire[v][i].data[t], i))'
  BY <1>8 DEF Newer
<1> QED BY <1>7, <1>9, <1>10, <1>11, <1>12 DEF Forward

\* What is left when a request is done with has read nothing.
LEMMA DoneLeaves ==
  ASSUME Desk, NEW v \in Windows, Done(v), \A j \in DOMAIN asks[v] : j # 1 => DOMAIN asks[v][j].got = {}
  PROVE  \A j \in DOMAIN asks'[v] : DOMAIN asks'[v][j].got = {}
<1> SUFFICES ASSUME NEW j \in DOMAIN asks'[v] PROVE DOMAIN asks'[v][j].got = {}
  OBVIOUS
<1>1. /\ j \in Nat /\ j >= 1
      /\ j >= 1 => j + 1 \in DOMAIN asks[v] /\ asks'[v][j] = asks[v][j + 1]
  BY Unpacked, Remaining DEF Done
<1>2. j + 1 # 1
  BY <1>1
<1> QED BY <1>1, <1>2

LEMMA ReadsStill ==
  ASSUME Desk, Desk', NEW v \in Windows, Ordered(v), Turn(v)
  PROVE  /\ \A j \in DOMAIN asks'[v] : j # 1 => DOMAIN asks'[v][j].got = {}
         /\ \A r \in Shown(Panel(v)) : \A t \in Live(r) : HeldStill(v, r, t)
<1>1. \A j \in DOMAIN asks[v] : j # 1 => DOMAIN asks[v][j].got = {}
  BY DEF Ordered
<1>2. CASE \A j \in DOMAIN asks'[v] : DOMAIN asks'[v][j].got = {}
  BY <1>2 DEF HeldStill, Gets
<1>3. CASE Adds(v)
  BY <1>1, <1>3 DEF Adds, Continues, HeldStill, Held, Gets
<1>4. CASE Done(v)
  BY <1>1, <1>2, <1>4, DoneLeaves
<1>5. CASE ReadsMore(v)
  <2>1. PICK a : /\ a.request = asks[v][1].request /\ Grown(v, a.got)
                 /\ asks'[v] = [asks[v] EXCEPT ![1] = a]
    BY <1>5 DEF ReadsMore
  <2>2. /\ DOMAIN asks'[v] = DOMAIN asks[v] /\ 1 \in DOMAIN asks[v]
        /\ \A j \in DOMAIN asks[v] : asks'[v][j] = IF j = 1 THEN a ELSE asks[v][j]
    BY <1>5, <2>1, Unpacked, Changed1 DEF ReadsMore
  <2>3. \A j \in DOMAIN asks'[v] : j # 1 => DOMAIN asks'[v][j].got = {}
    BY <1>1, <2>2
  <2>4. ASSUME NEW r \in Shown(Panel(v)), NEW t \in Live(r) PROVE HeldStill(v, r, t)
    <3>1. t \in Tables
      BY Unpacked, PanelsShow, WhatIsRead
    <3>2. asks'[v][1] = a
      BY <2>2
    <3> QED BY <2>1, <2>2, <3>1, <3>2 DEF HeldStill, Held, Gets, Grown
  <2> QED BY <2>3, <2>4
<1>6. CASE conn'[v] # "up"
  <2>1. asks'[v] = <<>>
    BY <1>6 DEF Desk, Idle
  <2> QED BY <1>2, <2>1, EmptyList
<1> QED BY <1>3, <1>4, <1>5, <1>6 DEF Turn, Quits, Wrote, Replied, Refused, Receives

\* Replies stay in their order.
LEMMA PlacedBy ==
  ASSUME Desk, NEW v \in Windows, NEW r, NEW t
  PROVE  /\ wire'[v] = wire[v] => Placed(v, r, t)
         /\ \A m : m.msg # "reply" /\ wire'[v] = Append(wire[v], m) => Placed(v, r, t)
         /\ \A i \in DOMAIN wire[v] : Without(wire[v], i, wire'[v]) => Placed(v, r, t)
<1>1. IsList(wire[v]) /\ DOMAIN wire[v] = 1..Len(wire[v]) /\ Len(wire[v]) \in Nat
  BY Unpacked, Listed
<1>2. ASSUME \A k \in DOMAIN wire'[v] : Replies(wire'[v][k], r) => k \in DOMAIN wire[v] /\ wire'[v][k] = wire[v][k]
      PROVE  Placed(v, r, t)
  BY <1>2 DEF Placed, Behind
<1>3. ASSUME NEW m, m.msg # "reply", wire'[v] = Append(wire[v], m) PROVE Placed(v, r, t)
  <2>1. /\ Continues(wire[v], wire'[v]) /\ Len(wire'[v]) = Len(wire[v]) + 1
        /\ wire'[v][Len(wire[v]) + 1] = m
    BY <1>1, <1>3, Appended
  <2>2. IsList(wire'[v]) /\ DOMAIN wire'[v] = 1..Len(wire'[v])
    BY <2>1, Listed DEF Continues
  <2>3. \A k \in DOMAIN wire'[v] : k \in DOMAIN wire[v] \/ k = Len(wire[v]) + 1
    BY <1>1, <2>1, <2>2
  <2> QED BY <1>2, <1>3, <2>1, <2>3 DEF Continues, Replies
<1>4. ASSUME NEW i \in DOMAIN wire[v], Without(wire[v], i, wire'[v]) PROVE Placed(v, r, t)
  <2>1. \A j \in DOMAIN wire'[v] :
          /\ j \in Nat /\ j >= 1
          /\ j < i => j \in DOMAIN wire[v] /\ wire'[v][j] = wire[v][j]
          /\ j >= i => j + 1 \in DOMAIN wire[v] /\ wire'[v][j] = wire[v][j + 1]
    <3>1. IsList(wire[v])
      BY <1>1
    <3>2. PICK u : u = wire'[v]
      OBVIOUS
    <3>3. Without(wire[v], i, u)
      BY <1>4, <3>2
    <3>4. \A j \in DOMAIN u :
            /\ j \in Nat /\ j >= 1
            /\ j < i => j \in DOMAIN wire[v] /\ u[j] = wire[v][j]
            /\ j >= i => j + 1 \in DOMAIN wire[v] /\ u[j] = wire[v][j + 1]
      BY <3>1, <3>3, Remaining
    <3> QED BY <3>2, <3>4
  <2>2. i \in Nat
    BY <1>1
  <2>3. ASSUME NEW k \in DOMAIN wire'[v]
        PROVE  \E j \in DOMAIN wire[v] : wire[v][j] = wire'[v][k] /\ Behind(v, r, t, j, k)
    <3>1. CASE k < i
      <4>1. k \in DOMAIN wire[v] /\ wire'[v][k] = wire[v][k]
        BY <2>1, <3>1
      <4>2. Behind(v, r, t, k, k)
        <5>1. ASSUME NEW h \in DOMAIN wire'[v], h > k PROVE \E g \in DOMAIN wire[v] : g > k /\ wire[v][g] = wire'[v][h]
          <6>1. h \in Nat /\ k \in Nat
            BY <2>1
          <6>2. CASE h < i
            BY <2>1, <5>1, <6>2
          <6>3. CASE h >= i
            <7>1. h + 1 > k
              BY <5>1, <6>1
            <7> QED BY <2>1, <6>3, <7>1
          <6> QED BY <2>2, <6>1, <6>2, <6>3
        <5> QED BY <5>1 DEF Behind
      <4> QED BY <4>1, <4>2
    <3>2. CASE k >= i
      <4>1. k + 1 \in DOMAIN wire[v] /\ wire'[v][k] = wire[v][k + 1]
        BY <2>1, <3>2
      <4>2. Behind(v, r, t, k + 1, k)
        <5>1. ASSUME NEW h \in DOMAIN wire'[v], h > k PROVE \E g \in DOMAIN wire[v] : g > k + 1 /\ wire[v][g] = wire'[v][h]
          <6>1. h \in Nat /\ k \in Nat
            BY <2>1
          <6>2. h >= i /\ h + 1 > k + 1
            BY <2>2, <3>2, <5>1, <6>1
          <6> QED BY <2>1, <6>2
        <5> QED BY <5>1 DEF Behind
      <4> QED BY <4>1, <4>2
    <3> QED BY <2>1, <2>2, <3>1, <3>2
  <2> QED BY <2>3 DEF Placed
<1> QED BY <1>2, <1>3, <1>4

LEMMA NewReply ==
  ASSUME Desk, NEW v \in Windows, Ordered(v), Replied(v), NEW r \in Shown(Panel(v)), NEW t \in Live(r)
  PROVE  Placed(v, r, t)
<1>1. PICK m : /\ Replies(m, asks[v][1].request) /\ Live(m.request) \subseteq DOMAIN m.data
               /\ Grown(v, m.data) /\ wire'[v] = Append(wire[v], m)
  BY DEF Replied
<1>2. ~Gets(v, r, t)'
  BY DoneLeaves DEF Replied, Ordered, Gets
<1>3. /\ IsList(wire[v]) /\ DOMAIN wire[v] = 1..Len(wire[v]) /\ Len(wire[v]) \in Nat
      /\ Continues(wire[v], wire'[v]) /\ Len(wire'[v]) = Len(wire[v]) + 1
      /\ wire'[v][Len(wire[v]) + 1] = m
  BY <1>1, Unpacked, Listed, Appended
<1>4. IsList(wire'[v]) /\ DOMAIN wire'[v] = 1..Len(wire'[v])
  BY <1>3, Listed DEF Continues
<1>5. \A k \in DOMAIN wire'[v] : k \in DOMAIN wire[v] \/ (k = Len(wire[v]) + 1 /\ wire'[v][k] = m)
  BY <1>3, <1>4
<1>6. \A h \in DOMAIN wire'[v] : ~(h > Len(wire[v]) + 1)
  BY <1>3, <1>4
<1>7. Replies(m, r) => Held(v, r, t, m.data[t])
  <2>1. t \in Tables
    BY Unpacked, PanelsShow, WhatIsRead
  <2> QED BY <1>1, <2>1 DEF Replies, Grown, Held, Gets, Replied, Done
<1>8. \A k \in DOMAIN wire[v] : wire'[v][k] = wire[v][k] /\ Behind(v, r, t, k, k)
  BY <1>3, <1>5, <1>7 DEF Continues, Behind
<1> QED BY <1>2, <1>5, <1>6, <1>7, <1>8 DEF Placed

LEMMA TakesToTheView ==
  ASSUME Desk, NEW v \in Windows, NEW i \in DOMAIN wire[v], Take(v, i),
         NEW r \in Shown(Panel(v)), NEW t \in Live(r)
  PROVE  \/ view'[v][r][t] = view[v][r][t]
         \/ i = 1 /\ Replies(wire[v][i], r) /\ view'[v][r][t] = wire[v][i].data[t]
<1>1. t \in Tables /\ DOMAIN view = Windows /\ DOMAIN view[v] = Shown(Panel(v))
  BY Unpacked, PanelsShow, WhatIsRead DEF Desk, InTheWindows
<1>2. CASE wire[v][i].msg = "reply"
  <2>1. i = 1
    BY <1>2, Taking DEF Taken, Slow
  <2>2. PICK q, d : /\ q = wire[v][i].request
                    /\ d = [x \in Tables |-> IF x \in Live(q) THEN wire[v][i].data[x] ELSE 0]
                    /\ view' = [view EXCEPT ![v][q] = d]
    <3>1. TakeReply(v, i)
      BY <1>2, Taking
    <3>2. view' = [view EXCEPT ![v][wire[v][i].request] =
                     [x \in Tables |-> IF x \in Live(wire[v][i].request) THEN wire[v][i].data[x] ELSE 0]]
      BY <3>1 DEF TakeReply
    <3> QED BY <3>2
  <2>3. CASE r = q
    <3>1. view'[v][r] = d
      BY <1>1, <2>2, <2>3
    <3>2. d[t] = wire[v][i].data[t]
      BY <1>1, <2>2, <2>3
    <3> QED BY <1>2, <2>1, <2>2, <2>3, <3>1, <3>2 DEF Replies
  <2>4. CASE r # q
    <3>1. view'[v][r] = view[v][r]
      BY <1>1, <2>2, <2>4
    <3> QED BY <3>1
  <2> QED BY <2>3, <2>4
<1>3. CASE wire[v][i].msg # "reply"
  <2>1. UNCHANGED view
    BY <1>3, Taking DEF TakeChanged, TakeFailed, TakeSynced, TakeResumed
  <2> QED BY <2>1
<1> QED BY <1>2, <1>3

\* Where the replies of a window's next state come from.
LEMMA AllPlaced ==
  ASSUME Desk, NEW v \in Windows, Ordered(v), Turn(v), ~Quits(v), NEW r \in Shown(Panel(v)), NEW t \in Live(r)
  PROVE  Placed(v, r, t)
<1>1. CASE Speaks(v)
  BY <1>1, PlacedBy DEF Speaks
<1>2. CASE Replied(v)
  BY <1>2, NewReply
<1>3. CASE Refused(v)
  BY <1>3, PlacedBy DEF Refused, Failed
<1>4. CASE OpenWorkspace(v) \/ Fire(v) \/ ReadsMore(v)
  <2>1. wire'[v] = wire[v]
    BY <1>4 DEF OpenWorkspace, Fire, ReadsMore
  <2> QED BY <2>1, PlacedBy
<1>5. ASSUME NEW i \in DOMAIN wire[v], Receives(v, i) PROVE Placed(v, r, t)
  BY <1>5, PlacedBy DEF Receives
<1> QED BY <1>1, <1>2, <1>3, <1>4, <1>5 DEF Turn, Wrote

LEMMA FirstTaken ==
  ASSUME Desk, NEW v \in Windows, 1 \in DOMAIN wire[v], Without(wire[v], 1, wire'[v])
  PROVE  \A k \in DOMAIN wire'[v] : \E j \in DOMAIN wire[v] : j > 1 /\ wire[v][j] = wire'[v][k]
<1>1. PICK s, u : s = wire[v] /\ u = wire'[v]
  OBVIOUS
<1>2. IsList(s) /\ Without(s, 1, u) /\ 1 \in DOMAIN s
  BY <1>1, Unpacked
<1>3. \A k \in DOMAIN u : /\ k \in Nat /\ k >= 1
                          /\ k >= 1 => k + 1 \in DOMAIN s /\ u[k] = s[k + 1]
  BY <1>2, Remaining
<1>4. \A k \in DOMAIN u : \E j \in DOMAIN s : j > 1 /\ s[j] = u[k]
  <2> SUFFICES ASSUME NEW k \in DOMAIN u PROVE \E j \in DOMAIN s : j > 1 /\ s[j] = u[k]
    OBVIOUS
  <2>1. k + 1 > 1 /\ k + 1 \in DOMAIN s /\ u[k] = s[k + 1]
    BY <1>3
  <2> QED BY <2>1
<1> QED BY <1>1, <1>4

\* Replies are whole: the new ones, too.
LEMMA WholeReplies ==
  ASSUME Desk, NEW v \in Windows, Ordered(v), Turn(v), ~Quits(v),
         NEW k \in DOMAIN wire'[v], wire'[v][k].msg = "reply"
  PROVE  Live(wire'[v][k].request) \subseteq DOMAIN wire'[v][k].data
<1>1. \A i \in DOMAIN wire[v] : wire[v][i].msg = "reply" => Live(wire[v][i].request) \subseteq DOMAIN wire[v][i].data
  BY DEF Ordered
<1>2. ASSUME NEW m, wire'[v] = Append(wire[v], m)
      PROVE  wire'[v][k] = m \/ \E i \in DOMAIN wire[v] : wire[v][i] = wire'[v][k]
  <2>1. /\ IsList(wire[v]) /\ DOMAIN wire[v] = 1..Len(wire[v]) /\ Len(wire[v]) \in Nat
        /\ Continues(wire[v], wire'[v]) /\ Len(wire'[v]) = Len(wire[v]) + 1
        /\ wire'[v][Len(wire[v]) + 1] = m
    BY <1>2, Unpacked, Listed, Appended
  <2>2. IsList(wire'[v]) /\ DOMAIN wire'[v] = 1..Len(wire'[v])
    BY <2>1, Listed DEF Continues
  <2> QED BY <2>1, <2>2 DEF Continues
<1>3. ASSUME NEW i \in DOMAIN wire[v], Without(wire[v], i, wire'[v])
      PROVE  \E j \in DOMAIN wire[v] : wire[v][j] = wire'[v][k]
  <2>1. PICK s, u : s = wire[v] /\ u = wire'[v]
    OBVIOUS
  <2>2. IsList(s) /\ i \in DOMAIN s /\ Without(s, i, u) /\ k \in DOMAIN u
    BY <1>3, <2>1, Unpacked
  <2>3. /\ k \in Nat /\ i \in Nat
        /\ k < i => k \in DOMAIN s /\ u[k] = s[k]
        /\ k >= i => k + 1 \in DOMAIN s /\ u[k] = s[k + 1]
    BY <2>2, Remaining, Listed
  <2> QED BY <2>1, <2>3
<1>4. CASE Speaks(v)
  BY <1>1, <1>2, <1>4 DEF Speaks
<1>5. CASE Replied(v)
  BY <1>1, <1>2, <1>5 DEF Replied
<1>6. CASE Refused(v)
  BY <1>1, <1>2, <1>6 DEF Refused, Failed
<1>7. CASE OpenWorkspace(v) \/ Fire(v) \/ ReadsMore(v)
  <2>1. wire'[v] = wire[v]
    BY <1>7 DEF OpenWorkspace, Fire, ReadsMore
  <2> QED BY <1>1, <2>1
<1>8. ASSUME NEW i \in DOMAIN wire[v], Receives(v, i)
      PROVE  Live(wire'[v][k].request) \subseteq DOMAIN wire'[v][k].data
  BY <1>1, <1>3, <1>8 DEF Receives
<1> QED BY <1>4, <1>5, <1>6, <1>7, <1>8 DEF Turn, Wrote

\* A window that quits, or begins again, has nothing on its way.
LEMMA QuitForward ==
  ASSUME Desk, Desk', NEW v \in Windows, [AlertsNext]_alertsVars, Ordered(v), Quits(v),
         NEW r \in Shown(Panel(v)), NEW t \in Live(r)
  PROVE  /\ Forward(v, r, t)'
         /\ conn'[v] # "opening" => view'[v][r][t] >= view[v][r][t]
<1>1. t \in Tables /\ Forward(v, r, t)
  BY Unpacked, PanelsShow, WhatIsRead DEF Ordered
<1>2. version[t] \in Nat /\ version'[t] \in Nat /\ version[t] <= version'[t]
  BY <1>1, VersionsGrow
<1>3. asks'[v] = <<>> /\ \A i \in DOMAIN wire'[v] : wire'[v][i].msg # "reply"
  BY DEF Desk, Idle, Quits, Early
<1>4. ~Gets(v, r, t)' /\ \A i \in DOMAIN wire'[v] : ~Replies(wire'[v][i], r)
  BY <1>3, EmptyList DEF Gets, Replies
<1>5. ASSUME NEW x \in Nat, x <= version'[t] PROVE Newer(v, r, t, x, 0)'
  BY <1>4, <1>5 DEF Newer
<1>6. PICK x : x = view'[v][r][t]
  OBVIOUS
<1>7. x \in Nat /\ x <= version'[t] /\ view[v][r][t] \in Nat /\ (conn'[v] # "opening" => x >= view[v][r][t])
  <2>1. view[v][r][t] \in Nat /\ view[v][r][t] <= version[t]
    BY <1>1 DEF Forward, Newer
  <2>2. CASE view'[v] = view[v]
    BY <1>2, <1>6, <2>1, <2>2
  <2>3. CASE conn'[v] = "opening" /\ view'[v] = Blank(Panel(v))
    <3>1. Blank(Panel(v))[r][t] = 0
      BY <1>1 DEF Blank, NoData
    <3> QED BY <1>2, <1>6, <2>1, <2>3, <3>1
  <2> QED BY <2>2, <2>3 DEF Quits
<1>8. view'[v][r][t] \in Nat /\ Newer(v, r, t, view[v][r][t], 0)'
  BY <1>5, <1>6, <1>7 DEF Newer
<1> QED BY <1>4, <1>6, <1>7, <1>8 DEF Forward

LEMMA OrderedStep ==
  ASSUME Desk, Answering, Desk', NEW v \in Windows, Panel(v)' = Panel(v),
         [AlertsNext]_alertsVars, Ordered(v)
  PROVE  /\ Ordered(v)'
         /\ conn'[v] # "opening" => \A r \in Shown(Panel(v)) : \A t \in Live(r) : view'[v][r][t] >= view[v][r][t]
<1>1. Turn(v)
  BY TurnOf
<1>2. \A j \in DOMAIN asks'[v] : j # 1 => DOMAIN asks'[v][j].got = {}
  BY <1>1, ReadsStill
<1>3. \A k \in DOMAIN wire'[v] : wire'[v][k].msg = "reply" =>
        Live(wire'[v][k].request) \subseteq DOMAIN wire'[v][k].data
  <2>1. CASE Quits(v)
    BY <2>1 DEF Desk, Idle, Quits, Early
  <2>2. CASE ~Quits(v)
    BY <1>1, <2>2, WholeReplies
  <2> QED BY <2>1, <2>2
<1>4. ASSUME NEW r \in Shown(Panel(v)), NEW t \in Live(r)
      PROVE  Forward(v, r, t)' /\ (conn'[v] # "opening" => view'[v][r][t] >= view[v][r][t])
  <2>1. CASE Quits(v)
    BY <2>1, QuitForward
  <2>2. CASE ~Quits(v)
    <3>1. Forward(v, r, t) /\ Placed(v, r, t) /\ HeldStill(v, r, t)
      BY <1>1, <2>2, AllPlaced, ReadsStill DEF Ordered
    <3>2. CASE view'[v][r][t] = view[v][r][t]
      BY <3>1, <3>2, StillForward
    <3>3. ASSUME NEW i \in DOMAIN wire[v], Receives(v, i), Take(v, i), view'[v][r][t] # view[v][r][t]
          PROVE  Forward(v, r, t)' /\ view'[v][r][t] >= view[v][r][t]
      <4>1. i = 1 /\ Replies(wire[v][1], r) /\ view'[v][r][t] = wire[v][1].data[t]
        BY <3>3, TakesToTheView
      <4>2. \A k \in DOMAIN wire'[v] : \E j \in DOMAIN wire[v] : j > 1 /\ wire[v][j] = wire'[v][k]
        BY <3>3, <4>1, FirstTaken DEF Receives
      <4> QED BY <3>1, <3>3, <4>1, <4>2, StillForward
    <3>4. ASSUME view'[v][r][t] # view[v][r][t]
          PROVE  \E i \in DOMAIN wire[v] : Receives(v, i) /\ Take(v, i)
      <4>1. view'[v] # view[v]
        BY <3>4
      <4> QED BY <1>1, <2>2, <4>1 DEF Turn, Receives, Steady, OpenWorkspace, Fire
    <3> QED BY <3>2, <3>3, <3>4
  <2> QED BY <2>1, <2>2
<1> QED BY <1>2, <1>3, <1>4 DEF Ordered

\* Whatever a window shows, its replies in their order and the reads of the handled request are
\* each as new as the one before (CentralWebSocketServer.handler, on_initial_snapshot).
THEOREM AllOrderedHolds == AlertsSpec => []AllOrdered
<1>1. AlertsInit => AllOrdered
  <2> SUFFICES ASSUME AlertsInit, NEW w \in Windows PROVE Ordered(w)
    BY DEF AllOrdered
  <2>1. asks[w] = <<>> /\ wire[w] = <<>> /\ version = NoData /\ view[w] = Blank(Panel(w)) /\ scene \in Scenes
    BY DEF AlertsInit, ViewsInit
  <2>2. DOMAIN asks[w] = {} /\ DOMAIN wire[w] = {}
    BY <2>1, EmptyList
  <2>3. ASSUME NEW r \in Shown(Panel(w)), NEW t \in Live(r) PROVE Forward(w, r, t)
    <3>1. t \in Tables
      BY <2>1, ScenePanels, PanelsShow, WhatIsRead
    <3>2. version[t] = 0 /\ view[w][r][t] = 0
      BY <2>1, <3>1 DEF Blank, NoData
    <3> QED BY <2>2, <3>2 DEF Forward, Newer, Gets
  <2> QED BY <2>2, <2>3 DEF Ordered
<1>2. Desk /\ Answering /\ AllOrdered /\ [AlertsNext]_alertsVars => AllOrdered'
  BY SceneStays, OrderedStep DEF AllOrdered
<1> QED BY <1>1, <1>2, DeskHolds, PTL DEF AlertsSpec

\* NeverBackwards: whatever reloads cross on the way, no list of a window (on_initial_snapshot,
\* populate_project_list) is replaced by one that was read earlier.
THEOREM ViewsNeverGoBack == AlertsSpec => NeverBackwards
<1>1. Desk /\ Answering /\ AllOrdered /\ [AlertsNext]_alertsVars =>
        [\A w \in Windows : conn'[w] # "opening" /\ view'[w] # view[w] =>
           \A r \in DOMAIN view[w] : \A t \in Live(r) : view'[w][r][t] >= view[w][r][t]]_viewVars
  <2> SUFFICES ASSUME Desk, Answering, AllOrdered, [AlertsNext]_alertsVars, NEW w \in Windows, conn'[w] # "opening"
               PROVE  \A r \in DOMAIN view[w] : \A t \in Live(r) : view'[w][r][t] >= view[w][r][t]
    OBVIOUS
  <2>1. Desk' /\ Panel(w)' = Panel(w) /\ DOMAIN view[w] = Shown(Panel(w))
    BY SceneStays DEF Desk, InTheWindows
  <2> QED BY <2>1, OrderedStep DEF AllOrdered
<1> QED BY <1>1, DeskHolds, AllOrderedHolds, PTL DEF AlertsSpec, NeverBackwards

-----------------------------------------------------------------------------
(* No announced change is lost. *)

\* The scope that announces a table, and the panels that hear of it.
ScopeOf(t) == IF t = "logs" THEN "log" ELSE IF t = "entries" THEN "tasks" ELSE t
OfRequests == {"proposals", "date_changes"}
HearOf(t) ==
  CASE t \in {"projects", "disciplines", "tasks"} -> Panels
    [] t \in {"users", "logs"} -> Oversight
    [] t = "settings" -> {"super"}
    [] t = "entries" -> {"head"}
    [] t \in OfRequests -> Managers \cup {"head"}

\* Item says that table t changed, to panel p.
Tidings(item, t, p) ==
  item.message.msg = "changed" /\ ScopeOf(t) \in item.message.scopes /\ p \in item.panels

LEMMA Hearers ==
  ASSUME NEW t
  PROVE  /\ t \in {"projects", "disciplines", "tasks"} => HearOf(t) = Panels
         /\ t \in {"users", "logs"} => HearOf(t) = {"admin", "super", "coo"}
         /\ t = "settings" => HearOf(t) = {"super"}
         /\ t = "entries" => HearOf(t) = {"head"}
         /\ t \in OfRequests => HearOf(t) = {"admin", "super", "head"}
BY DEF HearOf, OfRequests, Oversight, Managers

LEMMA EveryWriteIsTold ==
  ASSUME NEW k \in Kinds, NEW t \in Writes(k), NEW p \in HearOf(t), ~(k \in HeadsOwn /\ p = "head")
  PROVE  \E j \in DOMAIN Announced(k) : Tidings(Announced(k)[j], t, p)
<1>0. k \in {"log", "first_log", "propose", "approve_proposal", "reject_proposal", "request_date",
             "approve_date", "reject_date", "discipline", "create_user", "update_user",
             "add_project", "change_project", "task", "settings"}
  BY DEF Kinds, LogAnnounced, RequestsAnnounced, AccountsAnnounced, ProjectsAnnounced, SettingsAnnounced
<1>1. ASSUME NEW scopes, NEW panels, Announced(k) = <<Tell(scopes, panels)>>, ScopeOf(t) \in scopes, p \in panels
      PROVE  \E j \in DOMAIN Announced(k) : Tidings(Announced(k)[j], t, p)
  <2>1. Tidings(Tell(scopes, panels), t, p)
    BY <1>1 DEF Tidings, Tell, Changed
  <2> QED BY <1>1, <2>1, Single
<1>2. ASSUME NEW first, NEW scopes, NEW panels, Announced(k) = <<first, Tell(scopes, panels)>>,
             ScopeOf(t) \in scopes, p \in panels
      PROVE  \E j \in DOMAIN Announced(k) : Tidings(Announced(k)[j], t, p)
  <2>1. Tidings(Tell(scopes, panels), t, p)
    BY <1>2 DEF Tidings, Tell, Changed
  <2> DEFINE second == Tell(scopes, panels)
  <2>2. 2 \in DOMAIN <<first, second>> /\ <<first, second>>[2] = second
    OBVIOUS
  <2> QED BY <1>2, <2>1, <2>2
<1>3. ASSUME NEW second, NEW scopes, NEW panels, Announced(k) = <<Tell(scopes, panels), second>>,
             ScopeOf(t) \in scopes, p \in panels
      PROVE  \E j \in DOMAIN Announced(k) : Tidings(Announced(k)[j], t, p)
  <2>1. Tidings(Tell(scopes, panels), t, p)
    BY <1>3 DEF Tidings, Tell, Changed
  <2> DEFINE first == Tell(scopes, panels)
  <2>2. 1 \in DOMAIN <<first, second>> /\ <<first, second>>[1] = first
    OBVIOUS
  <2> QED BY <1>3, <2>1, <2>2
<1>4. p \in Panels
  <2>1. t \in {"projects", "disciplines", "tasks", "users", "logs", "settings", "entries", "proposals", "date_changes"}
    BY <1>0 DEF Writes
  <2> QED BY <2>1, Hearers DEF Panels, OfRequests
<1>5. CASE k \in {"log", "first_log"}
  <2>1. t = "logs" \/ (k = "first_log" /\ t = "entries")
    BY <1>5 DEF Writes
  <2>2. CASE t = "logs"
    BY <1>1, <1>3, <1>5, <2>2, Announcements, Hearers DEF ScopeOf, Oversight, Managers
  <2>3. CASE k = "first_log" /\ t = "entries"
    BY <1>2, <2>3, Announcements, Hearers DEF ScopeOf
  <2> QED BY <2>1, <2>2, <2>3
<1>6. CASE k \in {"propose", "reject_proposal", "approve_proposal"}
  <2>1. t = "proposals" \/ (k = "approve_proposal" /\ t = "tasks")
    BY <1>6 DEF Writes
  <2>2. CASE t = "proposals"
    BY <1>1, <1>2, <1>6, <2>2, Announcements, Hearers DEF ScopeOf, Managers, OfRequests, HeadsOwn
  <2>3. CASE k = "approve_proposal" /\ t = "tasks"
    BY <1>3, <1>4, <2>3, Announcements DEF ScopeOf
  <2> QED BY <2>1, <2>2, <2>3
<1>7. CASE k \in {"request_date", "reject_date", "approve_date"}
  <2>1. t = "date_changes" \/ (k = "approve_date" /\ t = "tasks")
    BY <1>7 DEF Writes
  <2>2. CASE t = "date_changes"
    BY <1>1, <1>2, <1>7, <2>2, Announcements, Hearers DEF ScopeOf, Managers, OfRequests, HeadsOwn
  <2>3. CASE k = "approve_date" /\ t = "tasks"
    BY <1>3, <1>4, <2>3, Announcements DEF ScopeOf
  <2> QED BY <2>1, <2>2, <2>3
<1>8. CASE k \in {"discipline", "update_user", "add_project", "change_project", "task"}
  <2>1. /\ k = "discipline" => t \in {"disciplines", "tasks"}
        /\ k = "update_user" => t \in {"users", "tasks"}
        /\ k = "add_project" => t = "projects"
        /\ k = "change_project" => t \in {"projects", "tasks"}
        /\ k = "task" => t = "tasks"
    BY <1>8 DEF Writes
  <2>2. ScopeOf(t) = t
    BY <1>8, <2>1 DEF ScopeOf
  <2> QED BY <1>1, <1>4, <1>8, <2>1, <2>2, Announcements
<1>9. CASE k = "create_user"
  <2>1. t = "users"
    BY <1>9 DEF Writes
  <2> QED BY <1>1, <1>9, <2>1, Announcements, Hearers DEF ScopeOf, Oversight, Managers
<1>10. CASE k = "settings"
  <2>1. t = "settings"
    BY <1>10 DEF Writes
  <2> QED BY <1>1, <1>10, <2>1, Announcements, Hearers DEF ScopeOf
<1> QED BY <1>0, <1>5, <1>6, <1>7, <1>8, <1>9, <1>10

LEMMA LiveTables ==
  ASSUME NEW r \in ReadRequests
  PROVE  /\ r = "snapshot" => Live(r) \subseteq {"projects", "disciplines", "tasks", "entries"}
         /\ r = "settings" => Live(r) \subseteq {"settings", "users"}
         /\ r = "analytics" => Live(r) \subseteq {"logs", "tasks", "projects", "users"}
         /\ r = "timeline" => Live(r) \subseteq {"tasks"}
         /\ r \notin {"snapshot", "settings", "analytics", "timeline"} => Live(r) \subseteq {r} \ {"alerts"}
<1>1. \A t \in Live(r) : t # "alerts" /\ \E j \in DOMAIN Reads(r) : t \in Reads(r)[j]
  BY DEF Live, Range
<1>2. CASE r = "snapshot"
  <2>1. Reads(r) = <<{"projects"}, {"disciplines"}, {"projects"}, {"tasks", "entries"}, {"alerts"}>>
    BY <1>2 DEF Reads, SnapshotReads
  <2>2. \A j \in DOMAIN Reads(r) : Reads(r)[j] \subseteq {"projects", "disciplines", "tasks", "entries", "alerts"}
    BY <2>1
  <2> QED BY <1>1, <1>2, <2>2
<1>3. CASE r = "settings"
  <2>1. Reads(r) = <<{"settings"}, {"users"}>>
    BY <1>3 DEF Reads, SettingsReads
  <2>2. \A j \in DOMAIN Reads(r) : Reads(r)[j] \subseteq {"settings", "users"}
    BY <2>1
  <2> QED BY <1>1, <1>3, <2>2
<1>4. CASE r = "analytics"
  <2>1. Reads(r) = <<{"logs", "tasks", "projects", "users"}>>
    BY <1>4 DEF Reads, AnalyticsReads
  <2> QED BY <1>1, <1>4, <2>1, Single
<1>5. CASE r = "timeline"
  <2>1. Reads(r) = <<{"tasks"}>>
    BY <1>5 DEF Reads
  <2> QED BY <1>1, <1>5, <2>1, Single
<1>6. CASE r \notin {"snapshot", "settings", "analytics", "timeline"}
  <2>1. Reads(r) = <<{r}>>
    BY <1>6 DEF Reads
  <2> QED BY <1>1, <1>6, <2>1, Single
<1> QED BY <1>2, <1>3, <1>4, <1>5, <1>6

\* What a panel shows of a table it asks for when it hears of the table, or after another
\* reply that it asks for then.
LEMMA EveryTableIsHeardOf ==
  ASSUME NEW p \in Panels, NEW r \in Shown(p), NEW t \in Live(r)
  PROVE  /\ p \in HearOf(t)
         /\ p = "head" /\ t \in OfRequests => r \in OfRequests
         /\ \/ r \in DOMAIN Scopes[p] /\ ScopeOf(t) \in Scopes[p][r]
            \/ /\ p = "head" /\ r = "timeline" /\ "snapshot" \in DOMAIN Scopes[p]
               /\ ScopeOf(t) \in Scopes[p]["snapshot"]
<1>0. p \in {"admin", "super", "coo", "head"}
  BY DEF Panels
<1>1. r \in ReadRequests /\ DOMAIN Scopes[p] = Range(Asked[p])
  BY PanelsShow, PanelsAsk
<1>2. /\ r \in DOMAIN Scopes[p] \/ (r = "timeline" /\ p \in {"admin", "head"})
  <2>1. r \in Range(Asked[p]) \/ \E q : r \in Range(Then(p, q))
    BY DEF Shown
  <2>2. ASSUME NEW q, r \in Range(Then(p, q)) PROVE r = "timeline" /\ p \in {"admin", "head"}
    <3>1. Then(p, q) = <<"timeline">>
      <4>1. Range(<<>>) = {}
        BY EmptyList DEF Range
      <4> QED BY <2>2, <4>1, AfterAReply
    <3>2. r = "timeline"
      BY <2>2, <3>1, Single DEF Range
    <3>3. p \in {"admin", "head"}
      <4>1. p \notin {"admin", "head"} => Then(p, q) = <<>>
        BY DEF Then
      <4>2. <<>> # <<"timeline">>
        BY Single, EmptyList
      <4> QED BY <3>1, <4>1, <4>2
    <3> QED BY <3>2, <3>3
  <2> QED BY <1>1, <2>1, <2>2
<1>3. CASE p = "admin"
  <2>1. Scopes[p] = AdminScopes
    BY <1>3 DEF Scopes
  <2>2. /\ r \in {"disciplines", "projects", "tasks", "timeline", "users", "proposals", "date_changes", "analytics"}
        /\ r # "analytics" => AdminScopes[r] = IF r = "timeline" THEN {"tasks"} ELSE {r}
        /\ AdminScopes["analytics"] = {"log", "tasks", "projects", "users"}
        /\ r \in DOMAIN Scopes[p]
    <3>1. DOMAIN AdminScopes = {"disciplines", "projects", "tasks", "timeline", "users", "proposals",
                                "date_changes", "analytics"}
      BY DEF AdminScopes
    <3>2. /\ AdminScopes["analytics"] = {"log", "tasks", "projects", "users"}
          /\ AdminScopes["timeline"] = {"tasks"}
      BY DEF AdminScopes
    <3>3. \A x \in {"disciplines", "projects", "tasks", "users", "proposals", "date_changes"} : AdminScopes[x] = {x}
      BY DEF AdminScopes
    <3>4. r \in DOMAIN AdminScopes
      BY <1>2, <2>1, <3>1
    <3> QED BY <2>1, <3>1, <3>2, <3>3, <3>4
  <2>3. ScopeOf(t) \in Scopes[p][r]
    BY <1>1, <2>1, <2>2, LiveTables DEF ScopeOf
  <2>4. t \in {"projects", "disciplines", "tasks", "users", "logs", "proposals", "date_changes"}
    BY <1>1, <2>2, LiveTables
  <2> QED BY <1>3, <2>2, <2>3, <2>4, Hearers DEF Panels, OfRequests
<1>4. CASE p = "super"
  <2>1. Scopes[p] = SuperScopes
    BY <1>4 DEF Scopes
  <2>2. /\ r \in {"users", "disciplines", "settings"} /\ SuperScopes["users"] = {"users"}
        /\ SuperScopes["disciplines"] = {"disciplines"} /\ SuperScopes["settings"] = {"settings", "users"}
        /\ r \in DOMAIN Scopes[p]
    BY <1>2, <1>4, <2>1 DEF SuperScopes
  <2>3. ScopeOf(t) \in Scopes[p][r]
    BY <1>1, <2>1, <2>2, LiveTables DEF ScopeOf
  <2>4. t \in {"users", "disciplines", "settings"}
    BY <1>1, <2>2, LiveTables
  <2> QED BY <1>4, <2>2, <2>3, <2>4, Hearers DEF Panels
<1>5. CASE p = "coo"
  <2>1. Scopes[p] = CooScopes
    BY <1>5 DEF Scopes
  <2>2. /\ r \in {"users", "projects", "disciplines", "logs", "alerts"} /\ r \in DOMAIN Scopes[p]
        /\ CooScopes["logs"] = {"log", "users"} /\ CooScopes["users"] = {"users"}
        /\ CooScopes["projects"] = {"projects", "disciplines", "users"}
        /\ CooScopes["disciplines"] = {"projects", "disciplines", "users"}
    BY <1>2, <1>5, <2>1 DEF CooScopes
  <2>3. t = r /\ r # "alerts"
    BY <1>1, <2>2, LiveTables
  <2>4. ScopeOf(t) \in Scopes[p][r]
    BY <2>1, <2>2, <2>3 DEF ScopeOf
  <2> QED BY <1>5, <2>2, <2>3, <2>4, Hearers DEF Panels
<1>6. CASE p = "head"
  <2>1. Scopes[p] = HeadScopes
    BY <1>6 DEF Scopes
  <2>2. /\ DOMAIN HeadScopes = {"snapshot", "proposals", "date_changes"}
        /\ HeadScopes["snapshot"] = {"projects", "tasks", "disciplines", "users"}
        /\ HeadScopes["proposals"] = {"proposals"} /\ HeadScopes["date_changes"] = {"date_changes"}
        /\ r \in {"snapshot", "proposals", "date_changes", "timeline"}
    BY <1>2, <2>1 DEF HeadScopes
  <2>3. CASE r \in OfRequests
    <3>1. t = r
      BY <1>1, <2>3, LiveTables DEF OfRequests
    <3> QED BY <1>6, <2>1, <2>2, <2>3, <3>1, Hearers DEF OfRequests, ScopeOf
  <2>4. CASE r \in {"snapshot", "timeline"}
    <3>1. t \in {"projects", "disciplines", "tasks", "entries"}
      BY <1>1, <2>4, LiveTables
    <3>2. p \in HearOf(t) /\ t \notin OfRequests
      BY <1>6, <3>1, Hearers DEF Panels, OfRequests
    <3>3. ScopeOf(t) \in Scopes[p]["snapshot"]
      BY <2>1, <2>2, <3>1 DEF ScopeOf
    <3> QED BY <1>6, <2>1, <2>2, <2>4, <3>2, <3>3
  <2> QED BY <2>2, <2>3, <2>4 DEF OfRequests
<1> QED BY <1>0, <1>3, <1>4, <1>5, <1>6

\* A message that makes a window ask for r is owed to it, or is on its connection.
Owes(items, w, r) == \E j \in DOMAIN items : Reaches(items[j], w) /\ Tells(items[j].message, w, r)
Owed(w, r) == \E i \in DOMAIN handlers : Owes(handlers[i], w, r)
OnTheWire(w, r) == \E k \in DOMAIN wire[w] : Tells(wire[w][k], w, r)

Collecting(w, r) == r \in DOMAIN Scopes[Panel(w)] /\ Scopes[Panel(w)][r] \cap dirty[w] # {}

\* Request r will be made.
WillAsk(w, r) == Owed(w, r) \/ OnTheWire(w, r) \/ Collecting(w, r)

Replying(w, r) == \E k \in DOMAIN wire[w] : Replies(wire[w][k], r)

\* Request r will be made, for itself or after a reply that is on its way or has failed.
Awaited(w, r) ==
  \/ WillAsk(w, r)
  \/ \E q \in Before(w, r) : WillAsk(w, q) \/ Reload(w, q) \/ Replying(w, q)

LEMMA NobodyShows ==
  ASSUME NEW p \in Panels \cup {Nobody}, NEW r \in Shown(p)
  PROVE  p \in Panels
<1> SUFFICES ASSUME p = Nobody PROVE FALSE
  OBVIOUS
<1>1. Asked[p] = <<>>
  BY DEF Asked, Nobody
<1>2. Range(Asked[p]) = {}
  BY <1>1, EmptyList DEF Range
<1> QED BY <1>2 DEF Shown

LEMMA SameTells ==
  ASSUME UNCHANGED scene, NEW w, NEW r
  PROVE  /\ Panel(w)' = Panel(w) /\ MadeElsewhere(w)' = MadeElsewhere(w)
         /\ \A m : Tells(m, w, r)' <=> Tells(m, w, r)
         /\ \A item : Reaches(item, w)' <=> Reaches(item, w)
         /\ \A items : Owes(items, w, r)' <=> Owes(items, w, r)
BY DEF Panel, Heads, MadeElsewhere, Tells, Reaches, Owes

LEMMA SameBefore ==
  ASSUME Desk, Desk', UNCHANGED scene, NEW w \in Windows, NEW r
  PROVE  Before(w, r)' = Before(w, r) /\ Before(w, r) = {q \in Shown(Panel(w)) : r \in Range(Then(Panel(w), q))}
<1>1. Panel(w)' = Panel(w)
  BY DEF Panel
<1> QED BY <1>1 DEF Before, Desk, InTheWindows

LEMMA CommitOwes ==
  ASSUME Desk, NEW k \in Kinds, NEW reply, ItemsOK(reply), Commit(k, reply)
  PROVE  /\ \A i \in DOMAIN handlers : i \in DOMAIN handlers' /\ handlers'[i] = handlers[i]
         /\ \E i \in DOMAIN handlers' :
              /\ \A j \in DOMAIN Announced(k) : \E h \in DOMAIN handlers'[i] : handlers'[i][h] = Announced(k)[j]
              /\ \A j \in DOMAIN reply : \E h \in DOMAIN handlers'[i] : handlers'[i][h] = reply[j]
<1> DEFINE new == Announced(k) \o reply
<1>1. IsList(Announced(k)) /\ IsList(reply) /\ IsList(handlers)
  BY AnnouncedOK DEF ItemsOK, Desk, HandlersTyped
<1>2. /\ \A j \in DOMAIN Announced(k) : \E h \in DOMAIN new : new[h] = Announced(k)[j]
      /\ \A j \in DOMAIN reply : \E h \in DOMAIN new : new[h] = reply[j]
  <2>1. /\ Continues(Announced(k), new) /\ Len(new) = Len(Announced(k)) + Len(reply)
        /\ \A j \in DOMAIN reply : new[Len(Announced(k)) + j] = reply[j]
    BY <1>1, Joined
  <2>2. /\ DOMAIN new = 1..Len(new) /\ Len(Announced(k)) \in Nat /\ Len(reply) \in Nat
        /\ DOMAIN reply = 1..Len(reply)
    BY <1>1, <2>1, Listed DEF Continues
  <2> HIDE DEF new
  <2>3. \A j \in DOMAIN reply : Len(Announced(k)) + j \in DOMAIN new
    BY <2>1, <2>2
  <2> QED BY <2>1, <2>3 DEF Continues
<1> HIDE DEF new
<1>3. handlers' = Append(handlers, new)
  BY DEF Commit, new
<1>4. /\ Continues(handlers, handlers') /\ Len(handlers') = Len(handlers) + 1
      /\ handlers'[Len(handlers) + 1] = new
  BY <1>1, <1>3, Appended
<1>5. Len(handlers) + 1 \in DOMAIN handlers'
  BY <1>1, <1>4, Listed DEF Continues
<1> QED BY <1>2, <1>4, <1>5 DEF Continues

LEMMA ToldOf ==
  ASSUME Desk, Desk', UNCHANGED scene, NEW w \in Windows, NEW k \in Kinds, NEW reply, ItemsOK(reply),
         Commit(k, reply), NEW r \in Shown(Panel(w)), NEW t \in Live(r), t \in Writes(k),
         ~(k \in HeadsOwn /\ Panel(w) = "head")
  PROVE  Awaited(w, r)'
<1> DEFINE p == Panel(w)
<1>1. p \in Panels
  BY Unpacked, NobodyShows
<1>2. PICK j \in DOMAIN Announced(k) : Tidings(Announced(k)[j], t, p)
  BY <1>1, EveryTableIsHeardOf, EveryWriteIsTold
<1>3. PICK i \in DOMAIN handlers' : \E h \in DOMAIN handlers'[i] : handlers'[i][h] = Announced(k)[j]
  BY CommitOwes
<1>4. PICK item, u : item = Announced(k)[j] /\ u = handlers'[i]
  OBVIOUS
<1>5. \E h \in DOMAIN u : u[h] = item
  BY <1>3, <1>4
<1>6. ASSUME NEW q \in DOMAIN Scopes[p], ScopeOf(t) \in Scopes[p][q] PROVE Owed(w, q)'
  <2>1. Reaches(item, w) /\ Tells(item.message, w, q)
    BY <1>2, <1>4, <1>6 DEF Tidings, Reaches, Tells
  <2>2. Owes(u, w, q)
    BY <1>5, <2>1 DEF Owes
  <2>3. Owes(u, w, q)'
    BY <2>2, SameTells
  <2> QED BY <1>4, <2>3 DEF Owed, Owes
<1>7. CASE r \in DOMAIN Scopes[p] /\ ScopeOf(t) \in Scopes[p][r]
  BY <1>6, <1>7 DEF Awaited, WillAsk
<1>8. CASE p = "head" /\ r = "timeline" /\ "snapshot" \in DOMAIN Scopes[p] /\ ScopeOf(t) \in Scopes[p]["snapshot"]
  <2>1. Owed(w, "snapshot")'
    BY <1>6, <1>8
  <2>2. "snapshot" \in Shown(p) /\ Then(p, "snapshot") = <<"timeline">>
    BY <1>1, <1>8, PanelsAsk DEF Then, HeadThen, AdminThen
  <2>3. r \in Range(Then(p, "snapshot"))
    BY <1>8, <2>2, Single DEF Range
  <2>4. "snapshot" \in Before(w, r)'
    BY <2>2, <2>3, SameBefore
  <2> QED BY <2>1, <2>4 DEF Awaited, WillAsk
<1> QED BY <1>1, <1>7, <1>8, EveryTableIsHeardOf

LEMMA SameOrTold ==
  ASSUME Desk, Desk', UNCHANGED scene, [AlertsNext]_alertsVars, NEW w \in Windows,
         NEW r \in Shown(Panel(w)) \ MadeElsewhere(w)
  PROVE  (\A t \in Live(r) : version'[t] = version[t]) \/ Awaited(w, r)'
<1>0. /\ Live(r) \subseteq Tables /\ Panel(w) \in Panels
  BY Unpacked, PanelsShow, NobodyShows, WhatIsRead
<1>1. ASSUME NEW k, NEW reply, Commit(k, reply), NEW t \in Live(r), version'[t] # version[t]
      PROVE  t \in Writes(k)
  <2>1. version'[t] = version[t] + (IF t \in Writes(k) THEN 1 ELSE 0) /\ version[t] \in Nat
    BY <1>0, <1>1, ScenePanels DEF Commit, Desk, Numbers
  <2> QED BY <1>1, <2>1
<1>2. ASSUME NEW k \in Kinds, Change(k), NEW t \in Live(r), version'[t] # version[t]
      PROVE  Awaited(w, r)'
  <2>1. Commit(k, <<>>) /\ (k \in HeadsOwn => Heads = {})
    BY <1>2 DEF Change
  <2>2. ItemsOK(<<>>) /\ ~(k \in HeadsOwn /\ Panel(w) = "head")
    BY <2>1, EmptyList DEF ItemsOK, Heads
  <2> QED BY <1>1, <1>2, <2>1, <2>2, ToldOf
<1>3. ASSUME NEW u \in Windows, Store(u), NEW t \in Live(r), version'[t] # version[t]
      PROVE  Awaited(w, r)'
  <2>1. PICK i \in Handled(u) : asks[u][i].request \in HeadsOwn
                                /\ Commit(asks[u][i].request, <<Reply(u, [msg |-> "synced"])>>)
    BY <1>3 DEF Store
  <2>2. PICK k, item : k = asks[u][i].request /\ item = Reply(u, [msg |-> "synced"])
    OBVIOUS
  <2>3. /\ k \in HeadsOwn /\ k \in Kinds /\ Commit(k, <<item>>)
        /\ ItemsOK(<<item>>) /\ item.window = u /\ item.message.msg = "synced"
    <3>1. item.window = u /\ item.message.msg = "synced" /\ item.panels = {}
      BY <2>2 DEF Reply
    <3>2. ItemsOK(<<item>>)
      BY <3>1, Single DEF ItemsOK, IsItem
    <3>3. k \in Kinds
      BY <2>1, <2>2 DEF HeadsOwn, Kinds, RequestsAnnounced
    <3> QED BY <2>1, <2>2, <3>1, <3>2, <3>3
  <2>4. t \in Writes(k)
    BY <1>1, <1>3, <2>3
  <2>5. CASE Panel(w) # "head"
    BY <2>3, <2>4, <2>5, ToldOf
  <2>6. CASE Panel(w) = "head"
    <3>1. Panel(u) = "head"
      <4>1. IsAsk(asks[u][i], Panel(u)) /\ asks[u][i].request \in HeadsOwn
        BY <2>1, Unpacked DEF Handled
      <4> QED BY <4>1 DEF IsAsk, IsRead, ReadRequests, HeadsOwn
    <3>2. t \in OfRequests
      BY <2>3, <2>4 DEF Writes, HeadsOwn, OfRequests
    <3>3. r \in OfRequests
      BY <1>0, <2>6, <3>2, EveryTableIsHeardOf
    <3>4. u = w
      BY <2>6, <3>1, <3>3 DEF MadeElsewhere, OfRequests, Heads
    <3>5. r \in Range(Asked[Panel(w)])
      BY <1>0, <2>6, <3>3, PanelsAsk, EveryTableIsHeardOf DEF OfRequests
    <3>6. Reaches(item, w) /\ Tells(item.message, w, r)
      BY <2>3, <3>4, <3>5 DEF Reaches, Tells
    <3>7. PICK h \in DOMAIN handlers' : \E j \in DOMAIN handlers'[h] : handlers'[h][j] = item
      BY <2>3, CommitOwes, Single
    <3>8. PICK items : items = handlers'[h]
      OBVIOUS
    <3>9. Owes(items, w, r)
      BY <3>6, <3>7, <3>8 DEF Owes
    <3>10. Owes(items, w, r)'
      BY <3>9, SameTells
    <3> QED BY <3>8, <3>10 DEF Awaited, WillAsk, Owed, Owes
  <2> QED BY <2>5, <2>6
<1>4. CASE UNCHANGED version
  BY <1>4
<1>5. CASE Server
  <2>1. ASSUME NEW i \in DOMAIN handlers, Announce(i) PROVE UNCHANGED version
    BY <2>1 DEF Announce
  <2>2. ASSUME NEW u \in Windows, Read(u, Data) \/ Create(u) \/ Respond(u) PROVE UNCHANGED version
    BY <2>2 DEF Read, Create, Respond
  <2> QED BY <1>2, <1>3, <1>4, <1>5, <2>1, <2>2 DEF Server
<1>6. CASE UNCHANGED alertsVars \/ \E u \in Windows : Window(u) \/ Faults(u)
  <2>1. ASSUME NEW u \in Windows, Window(u) PROVE UNCHANGED version
    <3>1. ASSUME NEW i \in DOMAIN wire[u], Take(u, i) \/ TakeAboutAlert(u, i) PROVE UNCHANGED version
      BY <3>1 DEF Take, TakeAboutAlert
    <3>2. ASSUME Fire(u) \/ OpenWorkspace(u) \/ \E k \in Kinds : Submit(u, k) PROVE UNCHANGED version
      BY <3>2 DEF Fire, OpenWorkspace, Submit
    <3>3. ASSUME NEW n \in Alerts, Notify(u, n) \/ SendAnswer(u, n) \/ \E s \in Answers : Answer(u, n, s)
          PROVE UNCHANGED version
      BY <3>3 DEF Notify, SendAnswer, Answer, viewVars
    <3> QED BY <2>1, <3>1, <3>2, <3>3 DEF Window
  <2>2. ASSUME NEW u \in Windows, Faults(u) PROVE UNCHANGED version
    BY <2>2 DEF Faults, Drop, Resume, Fail, Reopened, Restart
  <2>3. UNCHANGED alertsVars => UNCHANGED version
    BY DEF alertsVars, viewVars
  <2> QED BY <1>4, <1>6, <2>1, <2>2, <2>3
<1> QED BY <1>5, <1>6 DEF AlertsNext

\* What is owed to an open window stays owed until it is sent.
LEMMA OwedStays ==
  ASSUME Desk, Desk', UNCHANGED scene, [AlertsNext]_alertsVars, NEW w \in Windows,
         conn[w] = "up", conn'[w] = "up", NEW q, Owed(w, q)
  PROVE  Owed(w, q)' \/ OnTheWire(w, q)'
<1>1. PICK i \in DOMAIN handlers : Owes(handlers[i], w, q)
  BY DEF Owed
<1>2. ASSUME NEW h \in DOMAIN handlers', NEW items, items = handlers'[h], Owes(items, w, q)
      PROVE  Owed(w, q)'
  <2>1. Owes(items, w, q)'
    BY <1>2, SameTells
  <2> QED BY <1>2, <2>1 DEF Owed, Owes
<1>3. ASSUME i \in DOMAIN handlers', handlers'[i] = handlers[i] PROVE Owed(w, q)'
  BY <1>1, <1>2, <1>3
<1>4. ASSUME UNCHANGED handlers PROVE Owed(w, q)'
  BY <1>3, <1>4
<1>5. ASSUME NEW k \in Kinds, NEW reply, ItemsOK(reply), Commit(k, reply) PROVE Owed(w, q)'
  BY <1>3, <1>5, CommitOwes
<1>6. /\ IsList(handlers) /\ DOMAIN conn = Windows
      /\ \A k \in DOMAIN handlers : IsList(handlers[k]) /\ \A j \in DOMAIN handlers[k] : IsItem(handlers[k][j])
  BY DEF Desk, HandlersTyped, ItemsOK
<1>7. ASSUME NEW x \in DOMAIN handlers, Announce(x) PROVE Owed(w, q)' \/ OnTheWire(w, q)'
  <2>1. /\ handlers[x] # <<>> /\ wire' = Send(Head(handlers[x]))
        /\ handlers' = [handlers EXCEPT ![x] = Tail(handlers[x])]
    BY <1>7 DEF Announce
  <2>2. /\ 1 \in DOMAIN handlers[x] /\ Head(handlers[x]) = handlers[x][1] /\ IsList(Tail(handlers[x]))
        /\ Len(Tail(handlers[x])) = Len(handlers[x]) - 1
        /\ \A j \in DOMAIN Tail(handlers[x]) : Tail(handlers[x])[j] = handlers[x][j + 1]
    BY <1>6, <2>1, Rest
  <2>3. CASE x # i
    <3>1. i \in DOMAIN handlers' /\ handlers'[i] = handlers[i]
      BY <2>1, <2>3
    <3> QED BY <1>3, <3>1
  <2>4. CASE x = i
    <3>1. PICK j \in DOMAIN handlers[i] : Reaches(handlers[i][j], w) /\ Tells(handlers[i][j].message, w, q)
      BY <1>1 DEF Owes
    <3>2. CASE j = 1
      <4>1. PICK m : m = handlers[i][1].message
        OBVIOUS
      <4>2. wire'[w] = Append(wire[w], m) /\ Tells(m, w, q)
        BY <2>1, <2>2, <2>4, <3>1, <3>2, <4>1 DEF Send
      <4>3. \E k \in DOMAIN wire'[w] : wire'[w][k] = m
        <5>1. /\ IsList(wire[w]) /\ Continues(wire[w], wire'[w]) /\ Len(wire'[w]) = Len(wire[w]) + 1
              /\ wire'[w][Len(wire[w]) + 1] = m
          BY <4>2, Unpacked, Appended
        <5>2. Len(wire[w]) + 1 \in DOMAIN wire'[w]
          BY <5>1, Listed DEF Continues
        <5> QED BY <5>1, <5>2
      <4>4. Tells(m, w, q)'
        BY <4>2, SameTells
      <4> QED BY <4>3, <4>4 DEF OnTheWire, Tells
    <3>3. CASE j # 1
      <4>1. PICK items : items = Tail(handlers[i])
        OBVIOUS
      <4>2. j - 1 \in DOMAIN items /\ items[j - 1] = handlers[i][j]
        <5>1. j \in 1..Len(handlers[i]) /\ Len(handlers[i]) \in Nat /\ DOMAIN items = 1..(Len(handlers[i]) - 1)
          BY <1>6, <2>2, <2>4, <4>1, Listed
        <5>2. j - 1 \in DOMAIN items /\ (j - 1) + 1 = j
          BY <3>3, <5>1
        <5> QED BY <2>2, <2>4, <4>1, <5>2
      <4>3. Owes(items, w, q)
        BY <3>1, <4>2 DEF Owes
      <4>4. i \in DOMAIN handlers' /\ handlers'[i] = items
        BY <2>1, <2>4, <4>1
      <4> QED BY <1>2, <4>3, <4>4
    <3> QED BY <3>2, <3>3
  <2> QED BY <2>3, <2>4
<1>8. ASSUME NEW u \in Windows, u # w, handlers' = Orphaned(u) PROVE Owed(w, q)'
  <2>1. PICK j \in DOMAIN handlers[i] : Reaches(handlers[i][j], w) /\ Tells(handlers[i][j].message, w, q)
    BY <1>1 DEF Owes
  <2>2. handlers[i][j].window # u
    <3>1. IsItem(handlers[i][j])
      BY <1>6
    <3>2. u # Nobody
      BY DeskConstants
    <3> QED BY <1>8, <2>1, <3>1, <3>2 DEF IsItem, Reaches
  <2>3. i \in DOMAIN handlers' /\ j \in DOMAIN handlers'[i] /\ handlers'[i][j] = handlers[i][j]
    BY <1>8, <2>2 DEF Orphaned
  <2>4. PICK items : items = handlers'[i]
    OBVIOUS
  <2>5. Owes(items, w, q)
    BY <2>1, <2>3, <2>4 DEF Owes
  <2> QED BY <1>2, <2>3, <2>4, <2>5
<1>9. CASE Server
  <2>1. ASSUME NEW k \in Kinds, Change(k) PROVE Owed(w, q)'
    BY <1>5, <2>1, EmptyList DEF Change, ItemsOK
  <2>2. ASSUME NEW u \in Windows, Store(u) PROVE Owed(w, q)'
    <3>1. PICK x \in Handled(u) : asks[u][x].request \in HeadsOwn
                                  /\ Commit(asks[u][x].request, <<Reply(u, [msg |-> "synced"])>>)
      BY <2>2 DEF Store
    <3>2. PICK k, item : k = asks[u][x].request /\ item = Reply(u, [msg |-> "synced"])
      OBVIOUS
    <3>3. k \in Kinds /\ Commit(k, <<item>>)
      BY <3>1, <3>2 DEF HeadsOwn, Kinds, RequestsAnnounced
    <3>4. item.message.msg = "synced" /\ item.panels = {}
      BY <3>2 DEF Reply
    <3>5. ItemsOK(<<item>>)
      BY <3>4, Single DEF ItemsOK, IsItem
    <3> QED BY <1>5, <3>3, <3>5
  <2>3. ASSUME NEW u \in Windows, Read(u, Data) \/ Create(u) \/ Respond(u) PROVE UNCHANGED handlers
    BY <2>3 DEF Read, Create, Respond
  <2> QED BY <1>4, <1>7, <1>9, <2>1, <2>2, <2>3 DEF Server
<1>10. ASSUME NEW u \in Windows, Window(u) PROVE UNCHANGED handlers
  <2>1. ASSUME NEW x \in DOMAIN wire[u], Take(u, x) \/ TakeAboutAlert(u, x) PROVE UNCHANGED handlers
    BY <2>1 DEF Take, TakeAboutAlert
  <2>2. ASSUME Fire(u) \/ OpenWorkspace(u) \/ \E k \in Kinds : Submit(u, k) PROVE UNCHANGED handlers
    BY <2>2 DEF Fire, OpenWorkspace, Submit
  <2>3. ASSUME NEW n \in Alerts, Notify(u, n) \/ SendAnswer(u, n) \/ \E s \in Answers : Answer(u, n, s)
        PROVE UNCHANGED handlers
    BY <2>3 DEF Notify, SendAnswer, Answer, viewVars
  <2> QED BY <1>10, <2>1, <2>2, <2>3 DEF Window
<1>11. ASSUME NEW u \in Windows, Faults(u) PROVE Owed(w, q)'
  <2>1. CASE Resume(u) \/ Fail(u)
    BY <1>4, <2>1 DEF Resume, Fail
  <2>2. CASE Drop(u) \/ Reopened(u)
    <3>1. handlers' = Orphaned(u) /\ u # w
      BY <1>6, <2>2 DEF Drop, Reopened, Restart
    <3> QED BY <1>8, <3>1
  <2> QED BY <1>11, <2>1, <2>2 DEF Faults
<1>12. UNCHANGED alertsVars => UNCHANGED handlers
  BY DEF alertsVars, viewVars
<1> QED BY <1>4, <1>9, <1>10, <1>11, <1>12 DEF AlertsNext

\* A request for r is added.
AsksAnew(w, r) == \E j \in DOMAIN asks'[w] : j \notin DOMAIN asks[w] /\ asks'[w][j].request = r

LEMMA PutAsksAgain ==
  ASSUME Desk, UNCHANGED scene, NEW w \in Windows, NEW u, asks' = Put(asks, w, u), NEW r,
         \/ FreshReads(u, Range(Asked[Panel(w)]))
         \/ \E q : FreshReads(u, Range(Then(Panel(w), q))),
         \E i \in DOMAIN u : u[i] = Ask(r)
  PROVE  AsksAnew(w, r)
<1>1. AsksOK(u, Panel(w))
  BY NothingAboutAlerts DEF Desk
<1>2. asks'[w] = asks[w] \o u /\ IsList(asks[w]) /\ IsList(u)
  BY <1>1, AsksPut, Unpacked DEF AsksOK
<1>3. PICK i \in DOMAIN u : u[i] = Ask(r)
  OBVIOUS
<1>4. Len(asks[w]) + i \in DOMAIN asks'[w] /\ asks'[w][Len(asks[w]) + i] = u[i]
  BY <1>2, Joined
<1>5. Len(asks[w]) + i \notin DOMAIN asks[w]
  <2>1. i \in Nat /\ i >= 1 /\ Len(asks[w]) \in Nat /\ DOMAIN asks[w] = 1..Len(asks[w])
    BY <1>2, Listed
  <2> QED BY <2>1
<1>6. u[i].request = r
  BY <1>3 DEF Ask, Asking
<1> QED BY <1>4, <1>5, <1>6 DEF AsksAnew

LEMMA WantsAgain ==
  ASSUME Desk, UNCHANGED scene, NEW w \in Windows, NEW scopes, asks' = Put(asks, w, Wanted(w, scopes)),
         NEW r \in DOMAIN Scopes[Panel(w)], Scopes[Panel(w)][r] \cap scopes # {}
  PROVE  AsksAnew(w, r)
<1>1. r \in Range(Asked[Panel(w)]) /\ scene \in Scenes
  BY Unpacked, PanelsAsk DEF Desk
<1> DEFINE u == Wanted(w, scopes)
<1>2. FreshReads(u, Range(Asked[Panel(w)])) /\ \E i \in DOMAIN u : u[i] = Ask(r)
  BY <1>1, WantedAsked
<1>3. asks' = Put(asks, w, u)
  OBVIOUS
<1> HIDE DEF u
<1> QED BY <1>2, <1>3, PutAsksAgain

LEMMA AsksAllAgain ==
  ASSUME Desk, UNCHANGED scene, NEW w \in Windows, asks' = Put(asks, w, All(w)),
         NEW r \in Range(Asked[Panel(w)])
  PROVE  AsksAnew(w, r)
<1> DEFINE u == All(w)
<1>1. FreshReads(u, Range(Asked[Panel(w)])) /\ \E i \in DOMAIN u : u[i] = Ask(r)
  BY AllAsked DEF Desk
<1>2. asks' = Put(asks, w, u)
  OBVIOUS
<1> HIDE DEF u
<1> QED BY <1>1, <1>2, PutAsksAgain

\* What follows a reply that is shown is asked for.
LEMMA FollowsAReply ==
  ASSUME Desk, UNCHANGED scene, NEW w \in Windows, NEW i \in DOMAIN wire[w], Take(w, i),
         NEW q, Replies(wire[w][i], q), NEW r \in Range(Then(Panel(w), q))
  PROVE  AsksAnew(w, r)
<1> DEFINE next == Then(Panel(w), q)
           u == [j \in DOMAIN next |-> Ask(next[j])]
<1>1. TakeReply(w, i) /\ wire[w][i].request = q
  BY Taking DEF Replies
<1>2. asks' = Put(asks, w, u)
  BY <1>1 DEF TakeReply
<1>3. FreshReads(u, Range(next))
  BY ThenAsked
<1>4. \E j \in DOMAIN u : u[j] = Ask(r)
  BY DEF Range
<1> HIDE DEF u
<1>5. \E x : FreshReads(u, Range(Then(Panel(w), x)))
  BY <1>3
<1> QED BY <1>2, <1>4, <1>5, PutAsksAgain

LEMMA TakenAsks ==
  ASSUME Desk, UNCHANGED scene, NEW w \in Windows, conn[w] = "up", NEW i \in DOMAIN wire[w], Take(w, i),
         NEW r, Tells(wire[w][i], w, r)
  PROVE  AsksAnew(w, r) \/ (r \in DOMAIN Scopes[Panel(w)] /\ Scopes[Panel(w)][r] \cap dirty'[w] # {})
<1>1. CASE wire[w][i].msg = "synced"
  <2>1. asks' = Put(asks, w, All(w)) /\ r \in Range(Asked[Panel(w)])
    BY <1>1, Taking DEF TakeSynced, Tells
  <2> QED BY <2>1, AsksAllAgain
<1>2. CASE wire[w][i].msg = "changed"
  <2>1. PICK scopes, late : scopes = wire[w][i].scopes /\ late = Collected(Panel(w), scopes)
    OBVIOUS
  <2>2. r \in DOMAIN Scopes[Panel(w)] /\ Scopes[Panel(w)][r] \cap scopes # {}
    BY <1>2, <2>1 DEF Tells
  <2>3. /\ dirty' = [dirty EXCEPT ![w] = dirty[w] \cup late]
        /\ asks' = Put(asks, w, Wanted(w, scopes \ late))
    BY <1>2, <2>1, Taking DEF TakeChanged
  <2>4. dirty'[w] = dirty[w] \cup late
    BY <2>3 DEF Desk, InTheWindows
  <2>5. CASE Scopes[Panel(w)][r] \cap late # {}
    BY <2>2, <2>4, <2>5
  <2>6. CASE Scopes[Panel(w)][r] \cap (scopes \ late) # {}
    BY <2>2, <2>3, <2>6, WantsAgain
  <2> QED BY <2>2, <2>5, <2>6
<1> QED BY <1>1, <1>2 DEF Tells

\* A message stays on the connection of an open window until it is taken, and the scopes that
\* its debouncer has collected until it fires.
LEMMA UntilTaken ==
  ASSUME Desk, NEW w \in Windows, Turn(w), conn[w] = "up", conn'[w] = "up"
  PROVE  /\ \A k \in DOMAIN wire[w] : Receives(w, k) \/ \E j \in DOMAIN wire'[w] : wire'[w][j] = wire[w][k]
         /\ Fire(w) \/ dirty[w] \subseteq dirty'[w]
<1>1. ASSUME \/ wire'[w] = wire[w] \/ \E m : wire'[w] = Append(wire[w], m)
             \/ \E i \in DOMAIN wire[w] : Receives(w, i)
      PROVE  \A k \in DOMAIN wire[w] : Receives(w, k) \/ \E j \in DOMAIN wire'[w] : wire'[w][j] = wire[w][k]
  <2> SUFFICES ASSUME NEW k \in DOMAIN wire[w], ~Receives(w, k)
               PROVE  \E j \in DOMAIN wire'[w] : wire'[w][j] = wire[w][k]
    OBVIOUS
  <2>1. ASSUME NEW i \in DOMAIN wire[w], Receives(w, i) PROVE \E j \in DOMAIN wire'[w] : wire'[w][j] = wire[w][k]
    <3>1. i # k /\ Without(wire[w], i, wire'[w])
      BY <2>1 DEF Receives
    <3> QED BY <3>1, MessageStays
  <2> QED BY <1>1, <2>1, MessageStays
<1>2. CASE Steady(w) /\ (Speaks(w) \/ Wrote(w) \/ ReadsMore(w) \/ Replied(w) \/ Refused(w))
  <2>1. wire'[w] = wire[w] \/ \E m : wire'[w] = Append(wire[w], m)
    BY <1>2 DEF Speaks, Wrote, ReadsMore, Replied, Refused
  <2> QED BY <1>1, <1>2, <2>1 DEF Steady
<1>3. CASE Fire(w)
  <2>1. wire'[w] = wire[w]
    BY <1>3 DEF Fire
  <2> QED BY <1>1, <1>3, <2>1
<1>4. ASSUME NEW i \in DOMAIN wire[w], Receives(w, i) PROVE dirty[w] \subseteq dirty'[w]
  <2>1. CASE Steady(w)
    BY <2>1 DEF Steady
  <2>2. CASE Take(w, i)
    <3>1. CASE TakeChanged(w, i)
      <4>1. PICK more : dirty' = [dirty EXCEPT ![w] = dirty[w] \cup more]
        BY <3>1 DEF TakeChanged
      <4> QED BY <4>1 DEF Desk, InTheWindows
    <3> QED BY <2>2, <3>1, Taking DEF TakeReply, TakeFailed, TakeSynced, TakeResumed
  <2> QED BY <1>4, <2>1, <2>2 DEF Receives
<1> QED BY <1>1, <1>2, <1>3, <1>4 DEF Turn, Quits, OpenWorkspace

LEMMA WillAskStays ==
  ASSUME Desk, Desk', Answering, UNCHANGED scene, [AlertsNext]_alertsVars, NEW w \in Windows,
         conn[w] = "up", conn'[w] = "up", NEW q, WillAsk(w, q)
  PROVE  WillAsk(w, q)' \/ AsksAnew(w, q)
<1>1. Turn(w)
  BY TurnOf
<1>2. Panel(w)' = Panel(w) /\ \A m : Tells(m, w, q)' <=> Tells(m, w, q)
  BY SameTells
<1>3. Collecting(w, q)' <=> (q \in DOMAIN Scopes[Panel(w)] /\ Scopes[Panel(w)][q] \cap dirty'[w] # {})
  BY <1>2 DEF Collecting
<1>4. CASE Owed(w, q)
  BY <1>4, OwedStays DEF WillAsk
<1>5. CASE OnTheWire(w, q)
  <2>1. PICK k \in DOMAIN wire[w] : Tells(wire[w][k], w, q)
    BY <1>5 DEF OnTheWire
  <2>2. CASE Receives(w, k)
    <3>1. Take(w, k)
      <4>1. wire[w][k].msg \in {"synced", "changed"}
        BY <2>1 DEF Tells
      <4>2. ~TakeAboutAlert(w, k)
        BY <4>1, TakingAboutAlert
      <4> QED BY <2>2, <4>2 DEF Receives
    <3> QED BY <1>3, <2>1, <3>1, TakenAsks DEF WillAsk
  <2>3. ASSUME NEW j \in DOMAIN wire'[w], wire'[w][j] = wire[w][k] PROVE OnTheWire(w, q)'
    <3>1. PICK m : m = wire[w][k]
      OBVIOUS
    <3>2. Tells(m, w, q)'
      BY <1>2, <2>1, <3>1
    <3> QED BY <2>3, <3>1, <3>2 DEF OnTheWire, Tells
  <2> QED BY <1>1, <2>2, <2>3, UntilTaken DEF WillAsk
<1>6. CASE Collecting(w, q)
  <2>1. CASE dirty[w] \subseteq dirty'[w]
    BY <1>3, <1>6, <2>1 DEF Collecting, WillAsk
  <2>2. CASE Fire(w)
    <3>1. asks' = Put(asks, w, Wanted(w, dirty[w]))
      BY <2>2 DEF Fire
    <3> QED BY <1>6, <3>1, WantsAgain DEF Collecting
  <2> QED BY <1>1, <2>1, <2>2, UntilTaken
<1> QED BY <1>4, <1>5, <1>6 DEF WillAsk

LEMMA AwaitedStays ==
  ASSUME Desk, Desk', Answering, UNCHANGED scene, [AlertsNext]_alertsVars, NEW w \in Windows,
         conn[w] = "up", conn'[w] = "up", NEW r, Awaited(w, r)
  PROVE  Awaited(w, r)' \/ AsksAnew(w, r)
<1>1. Turn(w) /\ Moves(w)
  BY TurnOf, MovesOf
<1>2. CASE WillAsk(w, r)
  BY <1>2, WillAskStays DEF Awaited
<1>3. ASSUME NEW q \in Before(w, r), WillAsk(w, q) \/ Reload(w, q) \/ Replying(w, q)
      PROVE  Awaited(w, r)' \/ AsksAnew(w, r)
  <2>1. q \in Before(w, r)' /\ q \in ReadRequests /\ r \in Range(Then(Panel(w), q))
    BY <1>3, SameBefore, PanelsShow, Unpacked
  <2>2. Reload(w, q)' \/ Replying(w, q)' \/ WillAsk(w, q)' => Awaited(w, r)'
    BY <2>1 DEF Awaited
  <2>3. CASE WillAsk(w, q)
    <3>1. AsksAnew(w, q) => Reload(w, q)'
      BY DEF AsksAnew, Requested, Reload
    <3> QED BY <2>2, <2>3, <3>1, WillAskStays
  <2>4. CASE Requested(w, q)
    <3>1. Sent(w, q) => Replying(w, q)'
      <4> SUFFICES ASSUME NEW m, Replies(m, q), wire'[w] = Append(wire[w], m) PROVE Replying(w, q)'
        BY DEF Sent
      <4>1. IsList(wire[w]) /\ Continues(wire[w], wire'[w]) /\ Len(wire'[w]) = Len(wire[w]) + 1
            /\ wire'[w][Len(wire[w]) + 1] = m
        BY Unpacked, Appended
      <4>2. Len(wire[w]) + 1 \in DOMAIN wire'[w]
        BY <4>1, Listed DEF Continues
      <4> QED BY <4>1, <4>2 DEF Replying, Replies
    <3> QED BY <1>1, <2>1, <2>2, <2>4, <3>1, StillRequested
  <2>5. CASE Undelivered(w, q) \/ q \in warned[w]
    <3>1. Reload(w, q)' \/ Shown1(w, q)
      BY <1>1, <2>1, <2>5, StillFailed
    <3> QED BY <2>1, <2>2, <3>1, FollowsAReply DEF Shown1
  <2>6. CASE Replying(w, q)
    <3>1. PICK k \in DOMAIN wire[w] : Replies(wire[w][k], q)
      BY <2>6 DEF Replying
    <3>2. CASE Receives(w, k)
      <4>1. Take(w, k)
        BY <3>1, <3>2 DEF Receives, Replies
      <4> QED BY <2>1, <3>1, <4>1, FollowsAReply
    <3>3. ASSUME NEW j \in DOMAIN wire'[w], wire'[w][j] = wire[w][k] PROVE Replying(w, q)'
      BY <3>1, <3>3 DEF Replying, Replies
    <3> QED BY <1>1, <2>2, <3>2, <3>3, UntilTaken
  <2> QED BY <1>3, <2>3, <2>4, <2>5, <2>6 DEF Reload
<1> QED BY <1>2, <1>3 DEF Awaited

\* Message m brings the current tables for r, or the news that r failed.
Settles(m, r) == Failed(m, r) \/ (Replies(m, r) /\ Current(m.data, Live(r)))

\* Request r will be made, waits at the server, or is settled behind message i.
Due(w, r, i) ==
  \/ Awaited(w, r) \/ Requested(w, r)
  \/ \E k \in DOMAIN wire[w] : k > i /\ Settles(wire[w][k], r)

AskedTwice(w, r) == \E j \in DOMAIN asks[w] : j # 1 /\ asks[w][j].request = r

\* What the window shows, what a reply brings and what is being read for one are current, or
\* there is more to come; or the user was told of a failure.
ViewCatchesUp(w, r) == Current(view[w][r], Live(r)) \/ r \in warned[w] \/ Due(w, r, 0)
RepliesCatchUp(w, r) ==
  \A i \in DOMAIN wire[w] :
    Replies(wire[w][i], r) => Current(wire[w][i].data, Live(r)) \/ Due(w, r, i)
ReadCatchesUp(w, r) ==
  1 \in DOMAIN asks[w] /\ asks[w][1].request = r =>
    Current(asks[w][1].got, Live(r)) \/ Awaited(w, r) \/ AskedTwice(w, r)

CatchesUp(w, r) == ViewCatchesUp(w, r) /\ RepliesCatchUp(w, r) /\ ReadCatchesUp(w, r)

AllCatchUp ==
  \A w \in Windows : conn[w] = "up" =>
    \A r \in Shown(Panel(w)) \ MadeElsewhere(w) : CatchesUp(w, r)

LEMMA SameCurrent ==
  ASSUME NEW r, \A t \in Live(r) : version'[t] = version[t]
  PROVE  \A d : /\ Current(d, Live(r))' <=> Current(d, Live(r))
                /\ Settles(d, r)' <=> Settles(d, r)
BY DEF Current, Settles, Failed, Replies

LEMMA GrownCurrent ==
  ASSUME NEW w \in Windows, NEW r, Live(r) \subseteq Tables, NEW got, Grown(w, got),
         Current(asks[w][1].got, Live(r))
  PROVE  Current(got, Live(r))
BY DEF Grown, Current

\* A request waits at the server until it is settled, or it is made again.
LEMMA RequestedStays ==
  ASSUME Desk, NEW w \in Windows, Turn(w), conn[w] = "up", conn'[w] = "up",
         NEW r \in ReadRequests, ReadCatchesUp(w, r), Requested(w, r)
  PROVE  \/ Requested(w, r)' \/ Awaited(w, r)
         \/ \E m : Settles(m, r) /\ wire'[w] = Append(wire[w], m)
<1>1. PICK j \in DOMAIN asks[w] : asks[w][j].request = r
  BY DEF Requested
<1>2. CASE Adds(w)
  BY <1>1, <1>2, RequestStays DEF Adds, Requested
<1>3. CASE ReadsMore(w)
  <2>1. PICK a : 1 \in DOMAIN asks[w] /\ a.request = asks[w][1].request /\ asks'[w] = [asks[w] EXCEPT ![1] = a]
    BY <1>3 DEF ReadsMore
  <2> QED BY <1>1, <2>1, RequestStays DEF Requested
<1>4. ASSUME Done(w), AskedTwice(w, r) \/ asks[w][1].request # r PROVE Requested(w, r)'
  <2>1. PICK k \in DOMAIN asks[w] : k # 1 /\ asks[w][k].request = r
    BY <1>1, <1>4 DEF AskedTwice
  <2> QED BY <1>4, <2>1, RequestStays DEF Requested, Done
<1>5. CASE Wrote(w)
  BY <1>4, <1>5 DEF Wrote
<1>6. CASE Replied(w) /\ asks[w][1].request = r
  <2>1. PICK m : Replies(m, r) /\ Grown(w, m.data) /\ wire'[w] = Append(wire[w], m)
    BY <1>6 DEF Replied
  <2>2. CASE Current(asks[w][1].got, Live(r))
    BY <2>1, <2>2, GrownCurrent, WhatIsRead DEF Settles
  <2> QED BY <1>4, <1>6, <2>2 DEF ReadCatchesUp, Replied, Done
<1>7. CASE Refused(w) /\ asks[w][1].request = r
  BY <1>7 DEF Refused, Settles
<1> QED BY <1>2, <1>3, <1>4, <1>5, <1>6, <1>7 DEF Turn, Quits, Receives, Replied, Refused

\* What settles r behind message i comes behind message h of the next state.
KeptBehind(w, r, i, h) ==
  \A k \in DOMAIN wire[w] : k > i /\ Settles(wire[w][k], r) =>
    \E j \in DOMAIN wire'[w] : j > h /\ wire'[w][j] = wire[w][k]

LEMMA KeptByTaking ==
  ASSUME Desk, NEW w \in Windows, NEW r, NEW x \in DOMAIN wire[w], Receives(w, x)
  PROVE  /\ \A h \in DOMAIN wire'[w] : \E k \in DOMAIN wire[w] :
              wire[w][k] = wire'[w][h] /\ KeptBehind(w, r, k, h)
         /\ ~Settles(wire[w][x], r) => KeptBehind(w, r, 0, 0)
         /\ x = 1 => KeptBehind(w, r, 1, 0)
<1>1. PICK s, u : s = wire[w] /\ u = wire'[w]
  OBVIOUS
<1>2. IsList(s) /\ x \in DOMAIN s /\ Without(s, x, u)
  BY <1>1, Unpacked DEF Receives
<1>3. x \in Nat /\ x >= 1
  BY <1>2, Remaining
<1>4. \A j \in DOMAIN u : /\ j \in Nat /\ j >= 1
                          /\ j < x => j \in DOMAIN s /\ u[j] = s[j]
                          /\ j >= x => j + 1 \in DOMAIN s /\ u[j] = s[j + 1]
  BY <1>2, Remaining
<1>5. \A j \in DOMAIN s : /\ j \in Nat /\ j >= 1
                          /\ j < x => j \in DOMAIN u /\ u[j] = s[j]
                          /\ j > x => j - 1 \in DOMAIN u /\ u[j - 1] = s[j]
  BY <1>2, Remaining
<1>6. Settles(s[x], r) => x = 1
  <2> SUFFICES ASSUME Settles(s[x], r) PROVE x = 1
    OBVIOUS
  <2>1. s[x].msg \in {"reply", "failed"}
    BY DEF Settles, Failed, Replies
  <2>2. x \in Taken(w)
    BY <1>1 DEF Receives, Take, TakeAboutAlert
  <2> QED BY <1>1, <2>1, <2>2 DEF Taken, Slow
<1>7. ASSUME NEW i \in Nat, NEW h \in Nat,
             \A k \in DOMAIN s : k > i /\ Settles(s[k], r) => k # x,
             \/ i = h /\ (i < x \/ i = 0)
             \/ i = h + 1 /\ h + 1 >= x
      PROVE  KeptBehind(w, r, i, h)
  <2> SUFFICES ASSUME NEW k \in DOMAIN s, k > i, Settles(s[k], r) PROVE \E j \in DOMAIN u : j > h /\ u[j] = s[k]
    BY <1>1 DEF KeptBehind
  <2>1. k \in Nat /\ k >= 1 /\ k # x
    BY <1>5, <1>7
  <2>2. CASE k < x
    <3>1. k > h
      BY <1>3, <1>7, <2>1, <2>2
    <3> QED BY <1>5, <2>2, <3>1
  <2>3. CASE k > x
    <3>1. k - 1 > h
      BY <1>3, <1>7, <2>1, <2>3
    <3> QED BY <1>5, <2>3, <3>1
  <2> QED BY <1>3, <2>1, <2>2, <2>3
<1>8. ASSUME NEW h \in DOMAIN u PROVE \E k \in DOMAIN s : s[k] = u[h] /\ KeptBehind(w, r, k, h)
  <2>1. h \in Nat /\ h >= 1
    BY <1>4
  <2>2. CASE h < x
    <3>1. \A k \in DOMAIN s : k > h /\ Settles(s[k], r) => k # x
      BY <1>6, <2>1, <2>2
    <3> QED BY <1>4, <1>7, <2>1, <2>2, <3>1
  <2>3. CASE h >= x
    <3>1. \A k \in DOMAIN s : k > h + 1 => k # x
      BY <1>3, <2>1, <2>3
    <3>2. KeptBehind(w, r, h + 1, h)
      BY <1>3, <1>7, <2>1, <2>3, <3>1
    <3> QED BY <1>4, <2>3, <3>2
  <2> QED BY <1>3, <2>1, <2>2, <2>3
<1>9. ~Settles(s[x], r) => KeptBehind(w, r, 0, 0)
  BY <1>7
<1>10. x = 1 => KeptBehind(w, r, 1, 0)
  <2>1. x = 1 => \A k \in DOMAIN s : k > 1 => k # x
    BY <1>3
  <2> QED BY <1>7, <2>1
<1> QED BY <1>1, <1>8, <1>9, <1>10

\* What is due stays due.
LEMMA StillDue ==
  ASSUME Desk, Desk', Answering, UNCHANGED scene, [AlertsNext]_alertsVars, NEW w \in Windows,
         conn[w] = "up", conn'[w] = "up", NEW r \in ReadRequests, ReadCatchesUp(w, r),
         \A t \in Live(r) : version'[t] = version[t],
         NEW i, NEW h \in Nat, h <= Len(wire[w]), KeptBehind(w, r, i, h), Due(w, r, i)
  PROVE  Due(w, r, h)'
<1>1. Turn(w)
  BY TurnOf
<1>2. CASE Awaited(w, r)' \/ Requested(w, r)'
  BY <1>2 DEF Due
<1>3. AsksAnew(w, r) => Requested(w, r)'
  BY DEF AsksAnew, Requested
<1>4. CASE Awaited(w, r)
  BY <1>2, <1>3, <1>4, AwaitedStays
<1>5. ASSUME NEW j \in DOMAIN wire'[w], j > h, Settles(wire'[w][j], r) PROVE Due(w, r, h)'
  <2>1. PICK m : m = wire'[w][j]
    OBVIOUS
  <2>2. Settles(m, r)'
    BY <1>5, <2>1, SameCurrent
  <2>3. (\E k \in DOMAIN wire[w] : k > h /\ Settles(wire[w][k], r))'
    BY <1>5, <2>1, <2>2 DEF Settles, Failed, Replies, Current
  <2> QED BY <2>3 DEF Due
<1>6. ASSUME NEW m, Settles(m, r), wire'[w] = Append(wire[w], m) PROVE Due(w, r, h)'
  <2>1. /\ IsList(wire[w]) /\ Continues(wire[w], wire'[w]) /\ Len(wire'[w]) = Len(wire[w]) + 1
        /\ wire'[w][Len(wire[w]) + 1] = m
    BY <1>6, Unpacked, Appended
  <2>2. Len(wire[w]) + 1 \in DOMAIN wire'[w] /\ Len(wire[w]) \in Nat
    BY <2>1, Listed DEF Continues
  <2>3. Len(wire[w]) + 1 > h
    BY <2>2
  <2> QED BY <1>5, <1>6, <2>1, <2>2, <2>3
<1>7. CASE Requested(w, r)
  BY <1>1, <1>2, <1>4, <1>6, <1>7, RequestedStays
<1>8. ASSUME NEW k \in DOMAIN wire[w], k > i, Settles(wire[w][k], r) PROVE Due(w, r, h)'
  BY <1>5, <1>8 DEF KeptBehind
<1> QED BY <1>4, <1>7, <1>8 DEF Due

\* The case that nothing r shows has changed, or that it has been asked for again.
LEMMA ReadCatchUpStep ==
  ASSUME Desk, Desk', Answering, UNCHANGED scene, [AlertsNext]_alertsVars, NEW w \in Windows,
         conn[w] = "up", conn'[w] = "up", NEW r \in ReadRequests, Ordered(w), ReadCatchesUp(w, r),
         \A t \in Live(r) : version'[t] = version[t]
  PROVE  ReadCatchesUp(w, r)'
<1>1. Turn(w) /\ \A j \in DOMAIN asks[w] : j # 1 => DOMAIN asks[w][j].got = {}
  BY TurnOf DEF Ordered
<1>2. CASE Awaited(w, r)'
  BY <1>2 DEF ReadCatchesUp
<1>3. CASE \A j \in DOMAIN asks'[w] : DOMAIN asks'[w][j].got = {}
  BY <1>3 DEF ReadCatchesUp, Current
<1>4. CASE Done(w)
  BY <1>1, <1>3, <1>4, DoneLeaves
<1>5. ASSUME 1 \in DOMAIN asks[w], 1 \in DOMAIN asks'[w], asks'[w][1].request = asks[w][1].request,
             \A j \in DOMAIN asks[w] \ {1} : j \in DOMAIN asks'[w] /\ asks'[w][j] = asks[w][j],
             NEW got, got = asks'[w][1].got, Current(asks[w][1].got, Live(r)) => Current(got, Live(r))
      PROVE  ReadCatchesUp(w, r)'
  <2>1. AskedTwice(w, r) => AskedTwice(w, r)'
    BY <1>5 DEF AskedTwice
  <2>2. AsksAnew(w, r) => AskedTwice(w, r)'
    BY <1>5 DEF AsksAnew, AskedTwice
  <2>3. Current(got, Live(r)) => Current(got, Live(r))'
    BY SameCurrent
  <2> QED BY <1>2, <1>5, <2>1, <2>2, <2>3, AwaitedStays DEF ReadCatchesUp, Current
<1>6. CASE Adds(w)
  <2>1. CASE 1 \in DOMAIN asks[w]
    <3>1. \A j \in DOMAIN asks[w] : j \in DOMAIN asks'[w] /\ asks'[w][j] = asks[w][j]
      BY <1>6 DEF Adds, Continues
    <3> QED BY <1>5, <2>1, <3>1
  <2>2. CASE 1 \notin DOMAIN asks[w]
    BY <1>6, <2>2 DEF Adds, ReadCatchesUp, Current
  <2> QED BY <2>1, <2>2
<1>7. CASE ReadsMore(w)
  <2>1. PICK a : /\ a.request = asks[w][1].request /\ Grown(w, a.got)
                 /\ asks'[w] = [asks[w] EXCEPT ![1] = a]
    BY <1>7 DEF ReadsMore
  <2>2. /\ DOMAIN asks'[w] = DOMAIN asks[w] /\ 1 \in DOMAIN asks[w]
        /\ \A j \in DOMAIN asks[w] : asks'[w][j] = IF j = 1 THEN a ELSE asks[w][j]
    BY <1>7, <2>1, Unpacked, Changed1 DEF ReadsMore
  <2>3. asks'[w][1] = a /\ \A j \in DOMAIN asks[w] \ {1} : asks'[w][j] = asks[w][j]
    BY <2>2
  <2>4. Current(asks[w][1].got, Live(r)) => Current(a.got, Live(r))
    BY <2>1, GrownCurrent, WhatIsRead
  <2> QED BY <1>5, <2>1, <2>2, <2>3, <2>4
<1> QED BY <1>1, <1>4, <1>6, <1>7 DEF Turn, Quits, Wrote, Replied, Refused, Receives

\* The replies of an open window that it does not show by this step.
LEMMA KeptBySending ==
  ASSUME Desk, NEW w \in Windows, wire'[w] = wire[w] \/ \E m : wire'[w] = Append(wire[w], m)
  PROVE  \A r : \A i : KeptBehind(w, r, i, i)
<1> SUFFICES ASSUME NEW r, NEW i, NEW k \in DOMAIN wire[w], k > i
             PROVE  \E j \in DOMAIN wire'[w] : j > i /\ wire'[w][j] = wire[w][k]
  BY DEF KeptBehind
<1>1. k \in DOMAIN wire'[w] /\ wire'[w][k] = wire[w][k]
  BY MessageStays
<1> QED BY <1>1

LEMMA RepliesCatchUpStep ==
  ASSUME Desk, Desk', Answering, UNCHANGED scene, [AlertsNext]_alertsVars, NEW w \in Windows,
         conn[w] = "up", conn'[w] = "up", NEW r \in ReadRequests, ReadCatchesUp(w, r), RepliesCatchUp(w, r),
         \A t \in Live(r) : version'[t] = version[t]
  PROVE  RepliesCatchUp(w, r)'
<1>1. Turn(w)
  BY TurnOf
<1>2. /\ IsList(wire[w]) /\ Len(wire[w]) \in Nat /\ DOMAIN wire[w] = 1..Len(wire[w])
      /\ IsList(wire'[w]) /\ Len(wire'[w]) \in Nat /\ DOMAIN wire'[w] = 1..Len(wire'[w])
  BY Unpacked, UnpackedNext, Listed
<1>3. ASSUME NEW h \in DOMAIN wire'[w], NEW k \in DOMAIN wire[w], wire'[w][h] = wire[w][k],
             KeptBehind(w, r, k, h), h <= Len(wire[w]), NEW m, m = wire[w][k], Replies(m, r)
      PROVE  Current(m.data, Live(r))' \/ Due(w, r, h)'
  <2>1. CASE Current(m.data, Live(r))
    BY <2>1, SameCurrent
  <2>2. CASE Due(w, r, k)
    <3>1. h \in Nat
      BY <1>2
    <3> QED BY <1>3, <2>2, <3>1, StillDue
  <2> QED BY <1>3, <2>1, <2>2 DEF RepliesCatchUp
<1>4. ASSUME \A h \in DOMAIN wire'[w] : \A m : m = wire'[w][h] /\ Replies(m, r) =>
               Current(m.data, Live(r))' \/ Due(w, r, h)'
      PROVE  RepliesCatchUp(w, r)'
  BY <1>4 DEF RepliesCatchUp, Replies, Current
<1>5. ASSUME \/ wire'[w] = wire[w]
             \/ \E m : /\ wire'[w] = Append(wire[w], m)
                       /\ Replies(m, r) => Current(m.data, Live(r)) \/ Awaited(w, r) \/ Requested(w, r)'
      PROVE  RepliesCatchUp(w, r)'
  <2> SUFFICES ASSUME NEW h \in DOMAIN wire'[w], NEW x, x = wire'[w][h], Replies(x, r)
               PROVE  Current(x.data, Live(r))' \/ Due(w, r, h)'
    BY <1>4
  <2>1. CASE h \in DOMAIN wire[w]
    <3>1. wire'[w][h] = wire[w][h] /\ KeptBehind(w, r, h, h)
      BY <1>5, <2>1, MessageStays, KeptBySending
    <3> QED BY <1>2, <1>3, <2>1, <3>1
  <2>2. CASE h \notin DOMAIN wire[w]
    <3>1. PICK m : /\ wire'[w] = Append(wire[w], m)
                   /\ Replies(m, r) => Current(m.data, Live(r)) \/ Awaited(w, r) \/ Requested(w, r)'
      BY <1>5, <2>2
    <3>2. h = Len(wire[w]) + 1 /\ x = m
      <4>1. Len(wire'[w]) = Len(wire[w]) + 1 /\ wire'[w][Len(wire[w]) + 1] = m
        BY <1>2, <3>1, Appended
      <4> QED BY <1>2, <2>2, <4>1
    <3>3. AsksAnew(w, r) => Requested(w, r)'
      BY DEF AsksAnew, Requested
    <3> QED BY <3>1, <3>2, <3>3, AwaitedStays, SameCurrent DEF Due
  <2> QED BY <2>1, <2>2
<1>6. CASE Speaks(w)
  BY <1>5, <1>6 DEF Speaks, Replies
<1>7. CASE Fire(w) \/ ReadsMore(w)
  BY <1>5, <1>7 DEF Fire, ReadsMore
<1>8. CASE Refused(w)
  BY <1>5, <1>8 DEF Refused, Failed, Replies
<1>9. CASE Replied(w)
  <2>1. PICK m : /\ Replies(m, asks[w][1].request) /\ Grown(w, m.data) /\ wire'[w] = Append(wire[w], m)
    BY <1>9 DEF Replied
  <2>2. ASSUME Replies(m, r) PROVE Current(m.data, Live(r)) \/ Awaited(w, r) \/ Requested(w, r)'
    <3>1. Done(w) /\ 1 \in DOMAIN asks[w] /\ asks[w][1].request = r
      BY <1>9, <2>1, <2>2 DEF Replied, Done, Replies
    <3>2. Current(asks[w][1].got, Live(r)) => Current(m.data, Live(r))
      BY <2>1, GrownCurrent, WhatIsRead
    <3>3. AskedTwice(w, r) => Requested(w, r)'
      <4> SUFFICES ASSUME NEW k \in DOMAIN asks[w], k # 1, asks[w][k].request = r PROVE Requested(w, r)'
        BY DEF AskedTwice
      <4> QED BY <3>1, RequestStays DEF Requested, Done
    <3> QED BY <3>1, <3>2, <3>3 DEF ReadCatchesUp
  <2> QED BY <1>5, <2>1, <2>2
<1>10. ASSUME NEW x \in DOMAIN wire[w], Receives(w, x) PROVE RepliesCatchUp(w, r)'
  <2>1. Len(wire'[w]) = Len(wire[w]) - 1
    BY <1>10 DEF Receives, Without
  <2> SUFFICES ASSUME NEW h \in DOMAIN wire'[w], NEW m, m = wire'[w][h], Replies(m, r)
               PROVE  Current(m.data, Live(r))' \/ Due(w, r, h)'
    BY <1>4
  <2>2. h <= Len(wire[w])
    BY <1>2, <2>1
  <2> QED BY <1>3, <1>10, <2>2, KeptByTaking
<1> QED BY <1>1, <1>6, <1>7, <1>8, <1>9, <1>10 DEF Turn, Quits, OpenWorkspace, Wrote

\* A reply is shown as it is; everything else leaves what the window shows for r.
LEMMA TakenShown ==
  ASSUME Desk, NEW w \in Windows, Ordered(w), NEW x \in DOMAIN wire[w], Take(w, x),
         NEW r \in Shown(Panel(w)), r \in ReadRequests
  PROVE  /\ Replies(wire[w][x], r) =>
              x = 1 /\ (Current(wire[w][x].data, Live(r)) => Current(view'[w][r], Live(r)))
         /\ Failed(wire[w][x], r) => r \in warned'[w]
         /\ ~Replies(wire[w][x], r) =>
              view'[w][r] = view[w][r] /\ (r \in warned[w] => r \in warned'[w])
<1>1. DOMAIN view = Windows /\ DOMAIN view[w] = Shown(Panel(w)) /\ DOMAIN warned = Windows
  BY DEF Desk, InTheWindows
<1>2. CASE wire[w][x].msg = "reply"
  <2>1. PICK q, data, d : /\ q = wire[w][x].request /\ data = wire[w][x].data
                          /\ d = [t \in Tables |-> IF t \in Live(q) THEN data[t] ELSE 0]
                          /\ view' = [view EXCEPT ![w][q] = d] /\ warned' = [warned EXCEPT ![w] = @ \ {q}]
    <3>1. TakeReply(w, x)
      BY <1>2, Taking
    <3>2. /\ view' = [view EXCEPT ![w][wire[w][x].request] =
                        [t \in Tables |-> IF t \in Live(wire[w][x].request) THEN wire[w][x].data[t] ELSE 0]]
          /\ warned' = [warned EXCEPT ![w] = @ \ {wire[w][x].request}]
      BY <3>1 DEF TakeReply
    <3> QED BY <3>2
  <2>2. view' = [view EXCEPT ![w][q] = d] /\ warned' = [warned EXCEPT ![w] = warned[w] \ {q}]
    BY <2>1
  <2>3. CASE r = q
    <3>1. view'[w][r] = d /\ x = 1
      <4>1. x \in Taken(w)
        BY DEF Take
      <4> QED BY <1>1, <1>2, <2>2, <2>3, <4>1 DEF Taken, Slow
    <3>2. Live(r) \subseteq DOMAIN data
      BY <1>2, <2>1, <2>3 DEF Ordered
    <3>3. Current(data, Live(r)) => Current(d, Live(r))
      BY <2>1, <2>3, <3>2 DEF Current
    <3> QED BY <1>2, <2>1, <2>3, <3>1, <3>3 DEF Replies, Failed
  <2>4. CASE r # q
    <3>1. view'[w][r] = view[w][r] /\ (r \in warned[w] => r \in warned'[w])
      BY <1>1, <2>2, <2>4
    <3> QED BY <1>2, <2>1, <2>4, <3>1 DEF Replies, Failed
  <2> QED BY <2>3, <2>4
<1>3. CASE wire[w][x].msg = "failed"
  <2>1. warned' = [warned EXCEPT ![w] = warned[w] \cup {wire[w][x].request}] /\ UNCHANGED view
    BY <1>3, Taking DEF TakeFailed
  <2> QED BY <1>1, <1>3, <2>1 DEF Replies, Failed
<1>4. CASE wire[w][x].msg \in {"changed", "synced", "resumed"}
  <2>1. UNCHANGED <<view, warned>>
    BY <1>4, Taking DEF TakeChanged, TakeSynced, TakeResumed
  <2> QED BY <1>4, <2>1 DEF Replies, Failed
<1> QED BY <1>2, <1>3, <1>4, Taking

LEMMA ViewCatchUpStep ==
  ASSUME Desk, Desk', Answering, UNCHANGED scene, [AlertsNext]_alertsVars, NEW w \in Windows,
         conn[w] = "up", conn'[w] = "up", NEW r \in Shown(Panel(w)), Ordered(w), CatchesUp(w, r),
         \A t \in Live(r) : version'[t] = version[t]
  PROVE  ViewCatchesUp(w, r)'
<1>1. Turn(w) /\ r \in ReadRequests
  BY TurnOf, Unpacked, PanelsShow
<1>2. IsList(wire[w]) /\ Len(wire[w]) \in Nat /\ DOMAIN wire[w] = 1..Len(wire[w])
  BY Unpacked, Listed
<1>3. ASSUME NEW i, KeptBehind(w, r, i, 0), Due(w, r, i) PROVE Due(w, r, 0)'
  BY <1>1, <1>2, <1>3, StillDue DEF CatchesUp
<1>4. ASSUME NEW d, d = view'[w][r], Current(d, Live(r)) PROVE ViewCatchesUp(w, r)'
  <2>1. Current(d, Live(r))'
    BY <1>4, SameCurrent
  <2> QED BY <1>4, <2>1 DEF ViewCatchesUp, Current
<1>5. ASSUME Due(w, r, 0)' \/ r \in warned'[w] PROVE ViewCatchesUp(w, r)'
  BY <1>5 DEF ViewCatchesUp
<1>6. ASSUME view'[w][r] = view[w][r], r \in warned[w] => r \in warned'[w], KeptBehind(w, r, 0, 0)
      PROVE  ViewCatchesUp(w, r)'
  BY <1>3, <1>4, <1>5, <1>6 DEF CatchesUp, ViewCatchesUp
<1>7. ASSUME wire'[w] = wire[w] \/ \E m : wire'[w] = Append(wire[w], m),
             view'[w] = view[w], warned'[w] = warned[w]
      PROVE  ViewCatchesUp(w, r)'
  BY <1>6, <1>7, KeptBySending
<1>8. CASE Steady(w) /\ (Speaks(w) \/ Wrote(w) \/ ReadsMore(w) \/ Replied(w) \/ Refused(w))
  <2>1. wire'[w] = wire[w] \/ \E m : wire'[w] = Append(wire[w], m)
    BY <1>8 DEF Speaks, Wrote, ReadsMore, Replied, Refused
  <2> QED BY <1>7, <1>8, <2>1 DEF Steady
<1>9. CASE Fire(w)
  BY <1>7, <1>9 DEF Fire
<1>10. ASSUME NEW x \in DOMAIN wire[w], Receives(w, x) PROVE ViewCatchesUp(w, r)'
  <2>1. CASE TakeAboutAlert(w, x) /\ Steady(w)
    <3>1. ~Settles(wire[w][x], r)
      BY <2>1, TakingAboutAlert DEF Settles, Failed, Replies
    <3> QED BY <1>6, <1>10, <2>1, <3>1, KeptByTaking DEF Steady
  <2>2. CASE Take(w, x) /\ Replies(wire[w][x], r)
    <3>1. x = 1 /\ (Current(wire[w][x].data, Live(r)) => Current(view'[w][r], Live(r)))
      BY <1>1, <2>2, TakenShown
    <3>2. Current(wire[w][x].data, Live(r)) \/ Due(w, r, 1)
      BY <2>2, <3>1 DEF CatchesUp, RepliesCatchUp
    <3>3. KeptBehind(w, r, 1, 0)
      BY <1>10, <3>1, KeptByTaking
    <3> QED BY <1>3, <1>4, <1>5, <3>1, <3>2, <3>3
  <2>3. CASE Take(w, x) /\ Failed(wire[w][x], r)
    <3>1. r \in warned'[w]
      BY <1>1, <2>3, TakenShown
    <3> QED BY <1>5, <3>1
  <2>4. CASE Take(w, x) /\ ~Replies(wire[w][x], r) /\ ~Failed(wire[w][x], r)
    <3>1. view'[w][r] = view[w][r] /\ (r \in warned[w] => r \in warned'[w])
      BY <1>1, <2>4, TakenShown
    <3>2. ~Settles(wire[w][x], r)
      BY <2>4 DEF Settles
    <3> QED BY <1>6, <1>10, <3>1, <3>2, KeptByTaking
  <2> QED BY <1>10, <2>1, <2>2, <2>3, <2>4 DEF Receives
<1> QED BY <1>1, <1>8, <1>9, <1>10 DEF Turn, Quits, OpenWorkspace

\* A window that opens, or is connected again, asks for everything that it shows.
LEMMA OpensWithEverything ==
  ASSUME Desk, Desk', Answering, UNCHANGED scene, [AlertsNext]_alertsVars, NEW w \in Windows,
         conn[w] # "up", conn'[w] = "up", NEW r \in Shown(Panel(w))
  PROVE  CatchesUp(w, r)'
<1>1. Turn(w) /\ Moves(w)
  BY TurnOf, MovesOf
<1>2. Reloads(w)
  BY <1>1 DEF Moves
<1>3. ASSUME NEW q \in Range(Asked[Panel(w)]) PROVE Requested(w, q)'
  <2>1. PICK i \in DOMAIN asks'[w] : asks'[w][i] = Ask(q)
    BY <1>2 DEF Reloads
  <2> QED BY <2>1 DEF Requested, Ask, Asking
<1>4. Awaited(w, r)' \/ Requested(w, r)'
  <2>1. CASE r \in Range(Asked[Panel(w)])
    BY <1>3, <2>1
  <2>2. ASSUME NEW q \in Range(Asked[Panel(w)]), r \in Range(Then(Panel(w), q)) PROVE Awaited(w, r)'
    <3>1. q \in Before(w, r)'
      BY <2>2, SameBefore DEF Shown
    <3> QED BY <1>3, <3>1 DEF Awaited, Reload
  <2> QED BY <2>1, <2>2 DEF Shown
<1>5. \A j \in DOMAIN asks'[w] : DOMAIN asks'[w][j].got = {}
  <2>1. Adds(w)
    BY <1>1 DEF Turn, Quits, Receives
  <2>2. DOMAIN asks[w] = {}
    BY Unpacked
  <2> QED BY <2>1, <2>2 DEF Adds
<1>6. ViewCatchesUp(w, r)' /\ RepliesCatchUp(w, r)'
  BY <1>4 DEF ViewCatchesUp, RepliesCatchUp, Due
<1>7. ReadCatchesUp(w, r)'
  BY <1>5 DEF ReadCatchesUp, Current
<1> QED BY <1>6, <1>7 DEF CatchesUp

LEMMA CatchUpStep ==
  ASSUME Desk, Desk', Answering, UNCHANGED scene, [AlertsNext]_alertsVars, NEW w \in Windows, Ordered(w),
         conn[w] = "up", conn'[w] = "up", NEW r \in Shown(Panel(w)) \ MadeElsewhere(w), CatchesUp(w, r)
  PROVE  CatchesUp(w, r)'
<1>1. r \in ReadRequests
  BY Unpacked, PanelsShow
<1>2. CASE Awaited(w, r)'
  BY <1>2 DEF CatchesUp, ViewCatchesUp, RepliesCatchUp, ReadCatchesUp, Due
<1>3. CASE \A t \in Live(r) : version'[t] = version[t]
  BY <1>1, <1>3, ViewCatchUpStep, RepliesCatchUpStep, ReadCatchUpStep DEF CatchesUp
<1> QED BY <1>2, <1>3, SameOrTold

\* What an open window shows is followed up: the tables, the replies on their way to it
\* (on_initial_snapshot) and the reads of the request that is handled.
THEOREM AllCatchUpHolds == AlertsSpec => []AllCatchUp
<1>1. AlertsInit => AllCatchUp
  <2> SUFFICES ASSUME AlertsInit, NEW w \in Windows, NEW r \in Shown(Panel(w)) PROVE CatchesUp(w, r)
    BY DEF AllCatchUp
  <2>1. asks[w] = <<>> /\ wire[w] = <<>> /\ version = NoData /\ view[w] = Blank(Panel(w))
    BY DEF AlertsInit, ViewsInit
  <2>2. DOMAIN asks[w] = {} /\ DOMAIN wire[w] = {} /\ view[w][r] = version
    BY <2>1, EmptyList DEF Blank
  <2> QED BY <2>2 DEF CatchesUp, ViewCatchesUp, RepliesCatchUp, ReadCatchesUp, Current
<1>2. Desk /\ Desk' /\ Answering /\ AllOrdered /\ AllCatchUp /\ [AlertsNext]_alertsVars => AllCatchUp'
  <2> SUFFICES ASSUME Desk, Desk', Answering, AllOrdered, AllCatchUp, [AlertsNext]_alertsVars PROVE AllCatchUp'
    OBVIOUS
  <2>1. UNCHANGED scene
    BY SceneStays
  <2>2. ASSUME NEW w \in Windows, conn'[w] = "up", NEW r \in Shown(Panel(w)) \ MadeElsewhere(w)
        PROVE  CatchesUp(w, r)'
    <3>1. CASE conn[w] = "up"
      BY <2>1, <2>2, <3>1, CatchUpStep DEF AllCatchUp, AllOrdered
    <3>2. CASE conn[w] # "up"
      BY <2>1, <2>2, <3>2, OpensWithEverything
    <3> QED BY <3>1, <3>2
  <2>3. \A w : Panel(w)' = Panel(w) /\ MadeElsewhere(w)' = MadeElsewhere(w)
    BY <2>1, SameTells
  <2> QED BY <2>2, <2>3 DEF AllCatchUp
<1> QED BY <1>1, <1>2, DeskHolds, AllOrderedHolds, PTL DEF AlertsSpec

\* StaleIsOnItsWay: whatever the handlers announce late or out of order (notify_changed)
\* and whatever fails or is lost on the way, no open window is left with old rows that nobody
\* will load again and nobody was told of.
THEOREM NoChangeIsLost == AlertsSpec => []StaleIsOnItsWay
<1>1. Desk /\ AllOrdered /\ AllCatchUp => StaleIsOnItsWay
  <2> SUFFICES ASSUME Desk, AllOrdered, AllCatchUp, NEW w \in Windows,
                      NEW r \in DOMAIN view[w] \ MadeElsewhere(w)
               PROVE  \/ Current(view[w][r], Live(r))
                      \/ Coming(w, r, Live(r)) \/ \E q \in Before(w, r) : Coming(w, q, {})
                      \/ warned[w] \cap ({r} \cup Before(w, r)) # {}
    BY DEF StaleIsOnItsWay
  <2>1. CASE conn[w] # "up"
    BY <2>1 DEF Coming
  <2>2. CASE conn[w] = "up"
    <3>1. CatchesUp(w, r) /\ Ordered(w)
      BY <2>2 DEF AllCatchUp, AllOrdered, Desk, InTheWindows
    <3>2. \A d : Current(d, {})
      BY DEF Current
    <3>3. \A q, tables : WillAsk(w, q) => Coming(w, q, tables)
      BY DEF WillAsk, Owed, Owes, OnTheWire, Collecting, Coming
    <3>4. \A q : Requested(w, q) \/ Undelivered(w, q) \/ Replying(w, q) => Coming(w, q, {})
      BY <3>2 DEF Requested, Undelivered, Replying, Failed, Replies, Coming
    <3>5. CASE Awaited(w, r)
      BY <3>3, <3>4, <3>5 DEF Awaited, Reload
    <3>6. ASSUME NEW k \in DOMAIN wire[w], Settles(wire[w][k], r) PROVE Coming(w, r, Live(r))
      BY <3>6 DEF Settles, Failed, Replies, Coming
    <3>7. ASSUME NEW j \in DOMAIN asks[w], asks[w][j].request = r, Current(asks[w][j].got, Live(r))
          PROVE  Coming(w, r, Live(r))
      BY <3>7 DEF Coming
    <3>8. ASSUME NEW j \in DOMAIN asks[w], j # 1, asks[w][j].request = r PROVE Coming(w, r, Live(r))
      <4>1. DOMAIN asks[w][j].got = {}
        BY <3>1, <3>8 DEF Ordered
      <4> QED BY <3>7, <3>8, <4>1 DEF Current
    <3>9. ASSUME Requested(w, r), ~Awaited(w, r) PROVE Coming(w, r, Live(r))
      BY <3>1, <3>7, <3>8, <3>9 DEF Requested, CatchesUp, ReadCatchesUp, AskedTwice
    <3> QED BY <3>1, <3>5, <3>6, <3>9 DEF CatchesUp, ViewCatchesUp, Due
  <2> QED BY <2>1, <2>2
<1> QED BY <1>1, DeskHolds, AllOrderedHolds, AllCatchUpHolds, PTL
=============================================================================
