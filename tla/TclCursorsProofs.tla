-------------------------- MODULE TclCursorsProofs --------------------------
(***************************************************************************)
(* The proofs about the cursors of the Tcl binding.  Between two commands   *)
(* every reference is held by a variable; within a command one more value   *)
(* can be in hand, a copy or a result.  What has to hold is stated with     *)
(* that value, Sound(s, w, c, v), so that each function of the workspace    *)
(* and each change of the storage keeps it, and a command is a few such     *)
(* functions in a row.                                                      *)
(***************************************************************************)
EXTENDS TclCursors, FiniteSetTheorems, TLAPS

\* A path: of the view, of a subview, of a temporary row, of its string looked up
\* again, or of a storage that is closed.
IsText(t) ==
    \/ t \in {View, <<"_">>, <<"?">>}
    \/ t = <<"db", t[2]>> /\ t[2] \in Nat
    \/ t = <<"_", t[2]>> /\ t[2] \in Nat

IsName(name) ==
    /\ name = Name(name.path, name.index)
    /\ IsText(name.path)
    /\ name.index \in Int /\ name.index >= -1

\* The object of a path that is referred to.
IsPath(r) ==
    /\ r = [refs |-> r.refs, text |-> r.text, view |-> r.view, gen |-> r.gen,
             behind |-> r.behind]
    /\ r.refs \in Nat \ {0}
    /\ IsText(r.text)
    /\ r.gen \in {"now", "old", "never"}

\* A workspace that is not damaged.
IsWork(w) ==
    /\ w = [paths |-> w.paths, listed |-> w.listed, used |-> w.used, struck |-> w.struck,
            state |-> "sound"]
    /\ w.listed = [db |-> w.listed.db, temp |-> w.listed.temp]
    /\ w.listed.db \subseteq Paths /\ w.listed.temp \subseteq Paths
    /\ w.paths = [p \in Paths |-> w.paths[p]]
    /\ \A p \in Paths : w.paths[p] = Free \/ IsPath(w.paths[p])

IsStore(s) ==
    /\ s = [open |-> s.open, rows |-> s.rows]
    /\ s.open \in BOOLEAN /\ s.rows \in Seq(Rows)

\* What a path of this generation leads to.
Shows(s, r) ==
    \/ r.text[1] \in {"_", "?"} /\ r.view = "temp"
    \/ r.text = View /\ s.open /\ r.view = "main"
    \/ /\ Len(r.text) = 2 /\ r.text[1] = "db" /\ s.open
       /\ \/ r.view \in {"dropped", "missed"}
          \/ r.text[2] < Len(s.rows) /\ r.view = s.rows[r.text[2] + 1]

Now(w, p) == w.paths[p] # Free /\ w.paths[p].gen = "now"

\* The paths of this generation lead where they should, and those of the storage
\* are listed, so that it can tell them of a change.
PathsShow(s, w) ==
    \A p \in Paths : Now(w, p) =>
        /\ Shows(s, w.paths[p])
        /\ w.paths[p].text[1] = "db" => p \in w.listed.db

\* The temporary rows have one path each, and are flagged, but for those whose
\* flag another path has struck.
TempPathsOwn(w) ==
    \A p \in Paths \ w.struck :
      w.paths[p] # Free /\ Len(w.paths[p].text) = 2 /\ w.paths[p].text[1] = "_" =>
        /\ w.paths[p].text[2] \in w.used
        /\ \A q \in Paths \ (w.struck \cup {p}) : w.paths[q] # Free => w.paths[q].text # w.paths[p].text

\* A value has a string or a path.  When it has both and the path is of this
\* generation, the string says the same, or leads nowhere and the path to a
\* temporary row.
RowNumber(i) == IF i < 0 THEN -1 ELSE i

Linked(s, w, v) ==
    \/ v.text = Name(w.paths[v.path].text, RowNumber(v.index))
    \/ ~(v.text.path[1] = "db" /\ s.open) /\ w.paths[v.path].view = "temp"

IsValue(v) ==
    /\ v = Value(v.text, v.path, v.index)
    /\ v.index \in Int
    /\ v.path \in Paths \/ v.path = None
    /\ v.text # None \/ v.path # None
    /\ v.text = None \/ IsName(v.text)

Says(s, w, v) ==
    v.path # None /\ v.text # None =>
        (w.paths[v.path].gen = "now" => Linked(s, w, v))

NoValue == Value(Name(View, -1), None, -1)

\* Every reference to a path is held by a variable or in hand.
One(b) == IF b THEN 1 ELSE 0

Holders(c, p) == Cardinality({x \in Vars : c[x].path = p})

Counted(w, c, v) ==
    \A p \in Paths : w.paths[p].refs = Holders(c, p) + One(v.path = p)

IsCursors(c) == c = [x \in Vars |-> c[x]] /\ \A x \in Vars : IsValue(c[x])

Sound(s, w, c, v) ==
    /\ IsStore(s) /\ IsWork(w) /\ IsCursors(c) /\ IsValue(v)
    /\ PathsShow(s, w) /\ TempPathsOwn(w)
    /\ \A x \in Vars : Says(s, w, c[x])
    /\ Says(s, w, v)
    /\ Counted(w, c, v)

Inv == Sound(store, work, cursor, NoValue)

-----------------------------------------------------------------------------
\* Paths and names.

\* A path has one or two parts, and the first says what it is a path of.
LEMMA OnePart ==
  ASSUME NEW a
  PROVE  Head(<<a>>) = a /\ <<a>>[1] = a /\ Len(<<a>>) = 1
OBVIOUS

\* With two parts.
LEMMA TwoParts ==
  ASSUME NEW a, NEW n
  PROVE  Head(<<a, n>>) = a /\ <<a, n>>[1] = a /\ <<a, n>>[2] = n /\ Len(<<a, n>>) = 2
OBVIOUS

\* What the parts say of a path.
LEMMA TextFacts ==
  ASSUME NEW t, IsText(t)
  PROVE  /\ Head(t) = t[1] /\ t[1] \in {"db", "_", "?"}
         /\ t = View <=> t[1] = "db" /\ Len(t) # 2
         /\ Len(t) = 2 => t[2] \in Nat
         /\ Len(t) = 2 => t[1] # "?"
         /\ Len(t) = 2 /\ t[1] = "_" => t = <<"_", t[2]>>
<1>0. 1 # 2 /\ "db" # "_" /\ "db" # "?" /\ "_" # "?"
  OBVIOUS
<1>1. CASE t = <<"_">> \/ t = <<"?">>
  <2>1. Head(t) = t[1] /\ t[1] \in {"_", "?"} /\ Len(t) # 2
    BY <1>0, <1>1, OnePart, Zenon
  <2> QED BY <1>0, <2>1, OnePart, Zenon DEF View
<1>2. CASE t = View
  <2>1. Head(t) = t[1] /\ t[1] = "db" /\ Len(t) # 2
    BY <1>0, <1>2, OnePart, Zenon DEF View
  <2> QED BY <1>2, <2>1, Zenon
<1>3. ASSUME NEW a \in {"db", "_"}, NEW n \in Nat, t = <<a, n>>
      PROVE  Head(t) = t[1] /\ t[1] = a /\ t # View /\ Len(t) = 2 /\ t[2] \in Nat
  BY <1>0, <1>3, OnePart, TwoParts, Zenon DEF View
<1>4. CASE t = <<"db", t[2]>> /\ t[2] \in Nat
  BY <1>0, <1>3, <1>4, Zenon
<1>5. CASE t = <<"_", t[2]>> /\ t[2] \in Nat
  BY <1>0, <1>3, <1>5, Zenon
<1> QED BY <1>1, <1>2, <1>4, <1>5, Zenon DEF IsText

\* The item of a path, whatever the storage.
LEMMA FindFacts ==
  ASSUME NEW t, IsText(t)
  PROVE  /\ Find(t) = "db" <=> t[1] = "db" /\ store.open
         /\ Find(t) = "temp" <=> t[1] \in {"_", "?"}
         /\ Find(t) \in {"db", "temp", None}
BY TextFacts, CursorAssumption DEF Find, CursorAssumption

-----------------------------------------------------------------------------
\* Counting.

\* The holders of a path can be counted.
LEMMA HoldersNat ==
  ASSUME NEW c, NEW p
  PROVE  Holders(c, p) \in Nat
<1>1. IsFiniteSet(Vars)
  BY CursorAssumption DEF CursorAssumption
<1>2. IsFiniteSet({x \in Vars : c[x].path = p})
  BY <1>1, FS_Subset
<1> QED BY <1>2, FS_CardinalityType DEF Holders

\* With no path in hand, the variables are all there is.
LEMMA NoneInHand ==
  ASSUME NEW w, NEW c, NEW v, v.path = None
  PROVE  Counted(w, c, v) <=> \A p \in Paths : w.paths[p].refs = Holders(c, p)
<1> SUFFICES ASSUME NEW p \in Paths PROVE Holders(c, p) + One(v.path = p) = Holders(c, p)
  BY DEF Counted
<1>1. Holders(c, p) \in Nat
  BY HoldersNat
<1>2. One(v.path = p) = 0
  BY CursorAssumption DEF CursorAssumption, One
<1> QED BY <1>1, <1>2

\* Exchanging the value of a variable for the one in hand counts no less, no more.
LEMMA HoldersExchanged ==
  ASSUME NEW c, IsCursors(c), NEW x \in Vars, NEW v, NEW p \in Paths
  PROVE  /\ c[x].path = p => Holders(c, p) >= 1
         /\ Holders([c EXCEPT ![x] = v], p) + One(c[x].path = p) = Holders(c, p) + One(v.path = p)
<1> DEFINE d == [c EXCEPT ![x] = v]
           H(e) == {y \in Vars : e[y].path = p}
           R == {y \in Vars \ {x} : c[y].path = p}
<1>1. c = [y \in Vars |-> c[y]]
  BY DEF IsCursors
<1>2. d[x] = v /\ \A y \in Vars \ {x} : d[y] = c[y]
  BY <1>1
<1>3. IsFiniteSet(R) /\ Cardinality(R) \in Nat
  <2>1. IsFiniteSet(Vars) /\ R \subseteq Vars
    BY CursorAssumption DEF CursorAssumption
  <2> QED BY <2>1, FS_Subset, FS_CardinalityType
<1> HIDE DEF d, R, H
<1>4. ASSUME NEW e, \A y \in Vars \ {x} : e[y] = c[y]
      PROVE  Cardinality(H(e)) = Cardinality(R) + One(e[x].path = p)
  <2>1. CASE e[x].path = p
    <3>1. H(e) = R \cup {x} /\ x \notin R
      BY <1>4, <2>1 DEF R, H
    <3>2. Cardinality(R \cup {x}) = Cardinality(R) + 1
      BY <1>3, <3>1, FS_AddElement
    <3> QED BY <2>1, <3>1, <3>2 DEF One
  <2>2. CASE e[x].path # p
    <3>1. H(e) = R
      BY <1>4, <2>2 DEF R, H
    <3>2. One(e[x].path = p) = 0
      BY <2>2 DEF One
    <3> QED BY <1>3, <3>1, <3>2
  <2> QED BY <2>1, <2>2
<1>5. Holders(c, p) = Cardinality(R) + One(c[x].path = p)
  BY <1>4 DEF Holders, H, R
<1>6. Holders(d, p) = Cardinality(R) + One(v.path = p)
  BY <1>2, <1>4 DEF Holders, H
<1> QED BY <1>3, <1>5, <1>6 DEF One, d

-----------------------------------------------------------------------------
\* The value in hand.

\* A variable's value and the one in hand change places.
LEMMA Exchanged ==
  ASSUME NEW s, NEW w, NEW c, NEW v, Sound(s, w, c, v), NEW x \in Vars
  PROVE  Sound(s, w, [c EXCEPT ![x] = v], c[x])
<1> DEFINE d == [c EXCEPT ![x] = v]
<1>1. /\ c = [y \in Vars |-> c[y]]
      /\ \A y \in Vars : IsValue(c[y]) /\ Says(s, w, c[y])
      /\ IsValue(v) /\ Says(s, w, v)
  BY DEF Sound, IsCursors
<1>2. d[x] = v /\ (\A y \in Vars \ {x} : d[y] = c[y]) /\ d = [y \in Vars |-> d[y]]
  BY <1>1
<1> HIDE DEF d
<1>3. IsCursors(d) /\ \A y \in Vars : Says(s, w, d[y])
  BY <1>1, <1>2 DEF IsCursors
<1>4. Counted(w, d, c[x])
  <2> SUFFICES ASSUME NEW p \in Paths
               PROVE  w.paths[p].refs = Holders(d, p) + One(c[x].path = p)
    BY DEF Counted
  <2>1. w.paths[p].refs = Holders(c, p) + One(v.path = p)
    BY DEF Sound, Counted
  <2> QED BY <2>1, HoldersExchanged DEF Sound, d
<1> QED BY <1>1, <1>3, <1>4 DEF Sound, d

-----------------------------------------------------------------------------
\* The workspace.

\* The paths of u are those of w or fewer; what the ones of this generation lead
\* to, where they are listed and what they have flagged has not changed.
Narrowed(w, u) ==
    \A q \in Paths : u.paths[q] # Free =>
        /\ w.paths[q] # Free /\ u.paths[q].text = w.paths[q].text
        /\ u.paths[q].gen = "now" => w.paths[q].gen = "now" /\ u.paths[q].view = w.paths[q].view
        /\ q \in w.listed.db => q \in u.listed.db
        /\ q \notin u.struck => q \notin w.struck
        /\ q \notin u.struck /\ Len(u.paths[q].text) = 2 /\ u.paths[q].text[1] = "_"
             /\ u.paths[q].text[2] \in w.used => u.paths[q].text[2] \in u.used

\* Temporary rows stay their paths' own when no path is added, and none but to be
\* that of a closed storage gets another name.
LEMMA TempPathsKept ==
  ASSUME NEW w, TempPathsOwn(w), NEW u, u.used = w.used, u.struck = w.struck,
         \A q \in Paths : u.paths[q] # Free =>
           w.paths[q] # Free /\ (u.paths[q].text = w.paths[q].text \/ Len(u.paths[q].text) # 2)
  PROVE  TempPathsOwn(u)
<1> SUFFICES ASSUME NEW p \in Paths \ u.struck, u.paths[p] # Free, Len(u.paths[p].text) = 2,
                    u.paths[p].text[1] = "_"
             PROVE  /\ u.paths[p].text[2] \in u.used
                    /\ \A q \in Paths \ (u.struck \cup {p}) :
                         u.paths[q] # Free => u.paths[q].text # u.paths[p].text
  BY DEF TempPathsOwn
<1>1. w.paths[p] # Free /\ u.paths[p].text = w.paths[p].text
  OBVIOUS
<1>2. /\ w.paths[p].text[2] \in w.used
      /\ \A q \in Paths \ (w.struck \cup {p}) : w.paths[q] # Free => w.paths[q].text # w.paths[p].text
  BY <1>1 DEF TempPathsOwn
<1>3. ASSUME NEW q \in Paths \ (u.struck \cup {p}), u.paths[q] # Free,
             u.paths[q].text = u.paths[p].text
      PROVE  FALSE
  <2>1. w.paths[q] # Free /\ u.paths[q].text = w.paths[q].text
    BY <1>3
  <2> QED BY <1>1, <1>2, <1>3, <2>1
<1> QED BY <1>1, <1>2, <1>3

\* A path is free when nothing refers to it.
LEMMA LiveIfCounted ==
  ASSUME NEW w, IsWork(w), NEW p \in Paths
  PROVE  /\ w.paths[p].refs \in Nat
         /\ w.paths[p] = Free <=> w.paths[p].refs = 0
<1>1. Free.refs = 0
  BY DEF Free
<1>2. w.paths[p] = Free \/ IsPath(w.paths[p])
  BY DEF IsWork
<1>3. IsPath(w.paths[p]) => w.paths[p].refs \in Nat \ {0}
  BY DEF IsPath
<1> QED BY <1>1, <1>2, <1>3

\* The path of a value that is held or in hand is there.
LEMMA HeldIsLive ==
  ASSUME NEW w, IsWork(w), NEW c, IsCursors(c), NEW v, Counted(w, c, v)
  PROVE  /\ v.path \in Paths => w.paths[v.path] # Free
         /\ \A x \in Vars : c[x].path \in Paths => w.paths[c[x].path] # Free
<1>1. \A p \in Paths : w.paths[p].refs = Holders(c, p) + One(v.path = p)
  BY DEF Counted
<1>2. ASSUME v.path \in Paths PROVE w.paths[v.path] # Free
  <2>1. Holders(c, v.path) \in Nat
    BY HoldersNat
  <2> QED BY <1>1, <1>2, <2>1, LiveIfCounted DEF One
<1>3. ASSUME NEW x \in Vars, c[x].path \in Paths PROVE w.paths[c[x].path] # Free
  <2>1. Holders(c, c[x].path) \in Nat /\ Holders(c, c[x].path) >= 1
    BY <1>3, HoldersNat, HoldersExchanged
  <2> QED BY <1>1, <1>3, <2>1, LiveIfCounted DEF One
<1> QED BY <1>2, <1>3

\* What holds of a workspace holds of a narrower one, when the count is right.
LEMMA NarrowedSound ==
  ASSUME NEW s, NEW w, NEW c, NEW o, Sound(s, w, c, o),
         NEW u, IsWork(u), Narrowed(w, u),
         NEW v, IsValue(v), Says(s, w, v), Counted(u, c, v)
  PROVE  Sound(s, u, c, v)
<1>1. IsStore(s) /\ IsWork(w) /\ IsCursors(c) /\ PathsShow(s, w) /\ TempPathsOwn(w)
      /\ \A x \in Vars : Says(s, w, c[x])
  BY DEF Sound
<1>2. PathsShow(s, u)
  <2> SUFFICES ASSUME NEW q \in Paths, Now(u, q)
               PROVE  /\ Shows(s, u.paths[q])
                      /\ u.paths[q].text[1] = "db" => q \in u.listed.db
    BY DEF PathsShow
  <2>1. /\ Now(w, q) /\ u.paths[q].text = w.paths[q].text /\ u.paths[q].view = w.paths[q].view
        /\ q \in w.listed.db => q \in u.listed.db
    BY DEF Narrowed, Now
  <2>2. Shows(s, w.paths[q]) /\ (w.paths[q].text[1] = "db" => q \in w.listed.db)
    BY <1>1, <2>1 DEF PathsShow
  <2> QED BY <2>1, <2>2, Zenon DEF Shows
<1>3. TempPathsOwn(u)
  <2> SUFFICES ASSUME NEW p \in Paths \ u.struck, u.paths[p] # Free, Len(u.paths[p].text) = 2,
                      u.paths[p].text[1] = "_"
               PROVE  /\ u.paths[p].text[2] \in u.used
                      /\ \A q \in Paths \ (u.struck \cup {p}) :
                           u.paths[q] # Free => u.paths[q].text # u.paths[p].text
    BY DEF TempPathsOwn
  <2>1. /\ p \in Paths \ w.struck /\ w.paths[p] # Free /\ u.paths[p].text = w.paths[p].text
        /\ w.paths[p].text[2] \in w.used => u.paths[p].text[2] \in u.used
    BY DEF Narrowed
  <2>2. /\ w.paths[p].text[2] \in w.used
        /\ \A q \in Paths \ (w.struck \cup {p}) : w.paths[q] # Free => w.paths[q].text # w.paths[p].text
    BY <1>1, <2>1 DEF TempPathsOwn
  <2>3. ASSUME NEW q \in Paths \ (u.struck \cup {p}), u.paths[q] # Free
        PROVE  u.paths[q].text # u.paths[p].text
    <3>1. q \in Paths \ (w.struck \cup {p}) /\ w.paths[q] # Free /\ u.paths[q].text = w.paths[q].text
      BY <2>3 DEF Narrowed
    <3> QED BY <2>1, <2>2, <3>1
  <2> QED BY <2>1, <2>2, <2>3
<1>4. ASSUME NEW a, IsValue(a), Says(s, w, a), a.path \in Paths => u.paths[a.path] # Free
      PROVE  Says(s, u, a)
  BY <1>4 DEF Says, Linked, Narrowed, IsValue
<1>5. (\A x \in Vars : Says(s, u, c[x])) /\ Says(s, u, v)
  BY <1>1, <1>4, HeldIsLive DEF IsCursors
<1> QED BY <1>1, <1>2, <1>3, <1>5 DEF Sound

\* Refs(+1): the path has one more reference.
LEMMA ReferFacts ==
  ASSUME NEW w, IsWork(w), NEW p \in Paths, w.paths[p] # Free
  PROVE  /\ IsWork(Refer(w, p)) /\ Narrowed(w, Refer(w, p))
         /\ \A q \in Paths : Refer(w, p).paths[q].refs = w.paths[q].refs + One(q = p)
<1> DEFINE u == Refer(w, p)
<1>1. /\ w = [paths |-> w.paths, listed |-> w.listed, used |-> w.used, struck |-> w.struck,
                 state |-> "sound"]
      /\ w.paths = [q \in Paths |-> w.paths[q]]
      /\ IsPath(w.paths[p])
  BY DEF IsWork
<1>2. /\ u = [paths |-> [w.paths EXCEPT ![p].refs = @ + 1], listed |-> w.listed, used |-> w.used, struck |-> w.struck,
                 state |-> "sound"]
  BY <1>1 DEF Refer
<1>3. /\ u.listed = w.listed /\ u.used = w.used
      /\ u.paths[p] = [w.paths[p] EXCEPT !.refs = @ + 1]
      /\ \A q \in Paths \ {p} : u.paths[q] = w.paths[q]
      /\ u.paths = [q \in Paths |-> u.paths[q]]
      /\ u.struck = w.struck
      /\ u = [paths |-> u.paths, listed |-> u.listed, used |-> u.used, struck |-> u.struck,
                 state |-> "sound"]
  BY <1>1, <1>2
<1> HIDE DEF u
<1>4. /\ IsPath(u.paths[p]) /\ u.paths[p].refs = w.paths[p].refs + 1
      /\ u.paths[p].text = w.paths[p].text /\ u.paths[p].gen = w.paths[p].gen
      /\ u.paths[p].view = w.paths[p].view
  BY <1>1, <1>3 DEF IsPath
<1>5. IsWork(u)
  BY <1>3, <1>4 DEF IsWork
<1>6. Narrowed(w, u)
  BY <1>3, <1>4 DEF Narrowed
<1>7. \A q \in Paths : u.paths[q].refs = w.paths[q].refs + One(q = p)
  <2> SUFFICES ASSUME NEW q \in Paths PROVE u.paths[q].refs = w.paths[q].refs + One(q = p)
    OBVIOUS
  <2>1. w.paths[q].refs \in Nat
    BY LiveIfCounted
  <2>2. CASE q = p
    BY <1>4, <2>2 DEF One
  <2>3. CASE q # p
    BY <1>3, <2>1, <2>3 DEF One
  <2> QED BY <2>2, <2>3
<1> QED BY <1>5, <1>6, <1>7 DEF u

\* ForgetPath: the path is listed nowhere, and the paths whose row it has taken
\* are struck.
LEMMA ForgetPathFacts ==
  ASSUME NEW w, IsWork(w), NEW p \in Paths, w.paths[p] # Free
  PROVE  /\ IsWork(ForgetPath(w, p)) /\ ForgetPath(w, p).paths = w.paths
         /\ \A q \in Paths \ {p} : q \in w.listed.db => q \in ForgetPath(w, p).listed.db
         /\ w.struck \subseteq ForgetPath(w, p).struck
         /\ \A n \in w.used : \/ n \in ForgetPath(w, p).used
                              \/ PathsTo(w, n) \subseteq ForgetPath(w, p).struck
<1> DEFINE u == ForgetPath(w, p)
           t == w.paths[p].text
           row == IF Len(t) = 1 THEN w.paths[p].behind ELSE t[2]
           left == w.used \ {row}
           hit == w.struck \cup PathsTo(w, row)
<1>1. /\ w = [paths |-> w.paths, listed |-> w.listed, used |-> w.used, struck |-> w.struck,
              state |-> "sound"]
      /\ w.listed = [db |-> w.listed.db, temp |-> w.listed.temp]
      /\ w.listed.db \subseteq Paths /\ w.listed.temp \subseteq Paths
      /\ IsText(t)
  BY DEF IsWork, IsPath
<1>2. Find(t) \in {"db", "temp", None} /\ None \notin {"db", "temp"}
  BY <1>1, FindFacts, CursorAssumption DEF CursorAssumption
<1>3. CASE Find(t) = None
  <2>1. u = w
    BY <1>2, <1>3 DEF ForgetPath
  <2> QED BY <2>1
<1>4. CASE Find(t) = "db"
  <2>1. u = [w EXCEPT !.listed.db = @ \ {p}]
    BY <1>2, <1>4 DEF ForgetPath
  <2> HIDE DEF u
  <2>2. u = [paths |-> w.paths, listed |-> [w.listed EXCEPT !.db = @ \ {p}], used |-> w.used,
             struck |-> w.struck, state |-> "sound"]
    BY <1>1, <2>1
  <2>3. /\ u = [paths |-> u.paths, listed |-> u.listed, used |-> u.used, struck |-> u.struck,
                state |-> "sound"]
        /\ u.listed = [db |-> u.listed.db, temp |-> u.listed.temp]
        /\ u.paths = w.paths /\ u.used = w.used /\ u.struck = w.struck
        /\ u.listed.db = w.listed.db \ {p} /\ u.listed.temp = w.listed.temp
    BY <1>1, <2>2
  <2> QED BY <1>1, <2>3 DEF IsWork, u
<1>5. CASE Find(t) = "temp"
  <2>1. u = [w EXCEPT !.listed.temp = @ \ {p}, !.used = left, !.struck = hit]
    BY <1>2, <1>5 DEF ForgetPath
  <2> HIDE DEF left, hit, row, u
  <2> DEFINE a == [w EXCEPT !.listed.temp = @ \ {p}]
             b == [a EXCEPT !.used = left]
             temp == [w.listed EXCEPT !.temp = @ \ {p}]
  <2>0. u = [paths |-> w.paths, listed |-> temp, used |-> left, struck |-> hit, state |-> "sound"]
    <3>1. u = [b EXCEPT !.struck = hit]
      BY <2>1
    <3>2. a = [paths |-> w.paths, listed |-> temp, used |-> w.used, struck |-> w.struck,
               state |-> "sound"]
      BY <1>1, SMTT(30)
    <3> HIDE DEF a, temp
    <3>3. b = [paths |-> w.paths, listed |-> temp, used |-> left, struck |-> w.struck,
               state |-> "sound"]
      BY <3>2
    <3> HIDE DEF b
    <3> QED BY <3>1, <3>3
  <2>2. /\ u = [paths |-> u.paths, listed |-> u.listed, used |-> u.used, struck |-> u.struck,
                state |-> "sound"]
        /\ u.listed = [db |-> u.listed.db, temp |-> u.listed.temp]
        /\ u.paths = w.paths /\ u.used = left /\ u.struck = hit
        /\ u.listed.db = w.listed.db /\ u.listed.temp = w.listed.temp \ {p}
    BY <1>1, <2>0
  <2>3. IsWork(u)
    BY <1>1, <2>2 DEF IsWork
  <2>4. \A n \in w.used : n \in left \/ PathsTo(w, n) \subseteq hit
    BY DEF left, hit
  <2> QED BY <2>2, <2>3, <2>4 DEF u, hit
<1> QED BY <1>2, <1>3, <1>4, <1>5

\* Refs(-1): the path has one reference less, and is gone with the last.
LEMMA ReleaseFacts ==
  ASSUME NEW w, IsWork(w), NEW p \in Paths, w.paths[p] # Free
  PROVE  /\ IsWork(Release(w, p)) /\ Narrowed(w, Release(w, p))
         /\ \A q \in Paths : w.paths[q].refs = Release(w, p).paths[q].refs + One(q = p)
<1> DEFINE u == Release(w, p)
           f == IF w.paths[p].gen = "never" THEN w ELSE ForgetPath(w, p)
<1>1. /\ w = [paths |-> w.paths, listed |-> w.listed, used |-> w.used, struck |-> w.struck,
                 state |-> "sound"]
      /\ w.paths = [q \in Paths |-> w.paths[q]]
      /\ IsPath(w.paths[p])
  BY DEF IsWork
<1>2. \A q \in Paths : w.paths[q].refs \in Nat
  BY LiveIfCounted
<1>3. CASE w.paths[p].refs > 1
  <2>1. u = [paths |-> [w.paths EXCEPT ![p].refs = @ - 1], listed |-> w.listed, used |-> w.used, struck |-> w.struck,
                 state |-> "sound"]
    BY <1>1, <1>3 DEF Release
  <2>2. /\ u.listed = w.listed /\ u.used = w.used /\ u.struck = w.struck
        /\ u.paths[p] = [w.paths[p] EXCEPT !.refs = @ - 1]
        /\ \A q \in Paths \ {p} : u.paths[q] = w.paths[q]
        /\ u.paths = [q \in Paths |-> u.paths[q]]
        /\ u = [paths |-> u.paths, listed |-> u.listed, used |-> u.used, struck |-> u.struck,
                 state |-> "sound"]
    BY <1>1, <2>1
  <2> HIDE DEF u
  <2>3. /\ u.paths[p] = [refs |-> u.paths[p].refs, text |-> u.paths[p].text,
                         view |-> u.paths[p].view, gen |-> u.paths[p].gen,
                         behind |-> u.paths[p].behind]
        /\ u.paths[p].refs = w.paths[p].refs - 1
        /\ u.paths[p].text = w.paths[p].text /\ u.paths[p].gen = w.paths[p].gen
        /\ u.paths[p].view = w.paths[p].view
    BY <1>1, <2>2 DEF IsPath
  <2>4. u.paths[p].refs \in Nat \ {0}
    BY <1>2, <1>3, <2>3
  <2>5. IsPath(u.paths[p])
    BY <1>1, <2>3, <2>4 DEF IsPath
  <2>6. IsWork(u)
    BY <2>2, <2>5 DEF IsWork
  <2>7. Narrowed(w, u)
    BY <2>2, <2>3 DEF Narrowed
  <2>8. ASSUME NEW q \in Paths PROVE w.paths[q].refs = u.paths[q].refs + One(q = p)
    <3>1. CASE q = p
      BY <1>2, <2>3, <3>1 DEF One
    <3>2. CASE q # p
      BY <1>2, <2>2, <3>2 DEF One
    <3> QED BY <3>1, <3>2
  <2> QED BY <2>6, <2>7, <2>8 DEF u
<1>4. CASE ~(w.paths[p].refs > 1)
  <2>1. u = [f EXCEPT !.paths[p] = Free, !.struck = @ \ {p}]
    BY <1>4 DEF Release
  <2>2. /\ IsWork(f) /\ f.paths = w.paths
        /\ \A q \in Paths \ {p} : q \in w.listed.db => q \in f.listed.db
        /\ w.struck \subseteq f.struck
        /\ \A n \in w.used : n \in f.used \/ PathsTo(w, n) \subseteq f.struck
    BY ForgetPathFacts
  <2> HIDE DEF f
  <2>3. /\ u.listed = f.listed /\ u.used = f.used /\ u.struck = f.struck \ {p}
        /\ u.paths[p] = Free
        /\ \A q \in Paths \ {p} : u.paths[q] = w.paths[q]
        /\ u.paths = [q \in Paths |-> u.paths[q]]
        /\ u = [paths |-> u.paths, listed |-> u.listed, used |-> u.used, struck |-> u.struck,
                 state |-> "sound"]
    <3>1. f = [paths |-> f.paths, listed |-> f.listed, used |-> f.used, struck |-> f.struck,
               state |-> "sound"]
      BY <2>2 DEF IsWork
    <3> HIDE DEF u
    <3> DEFINE a == [f EXCEPT !.paths[p] = Free]
    <3>2. u = [a EXCEPT !.struck = f.struck \ {p}]
      BY <2>1
    <3>3. a = [paths |-> [w.paths EXCEPT ![p] = Free], listed |-> f.listed, used |-> f.used,
               struck |-> f.struck, state |-> "sound"]
      BY <2>2, <3>1
    <3> HIDE DEF a
    <3>4. u = [paths |-> [w.paths EXCEPT ![p] = Free], listed |-> f.listed, used |-> f.used,
               struck |-> f.struck \ {p}, state |-> "sound"]
      BY <3>2, <3>3
    <3> QED BY <1>1, <3>4
  <2> HIDE DEF u
  <2>4. IsWork(u)
    BY <2>2, <2>3 DEF IsWork
  <2>5. Narrowed(w, u)
    <3> SUFFICES ASSUME NEW q \in Paths, u.paths[q] # Free
                 PROVE  /\ w.paths[q] # Free /\ u.paths[q].text = w.paths[q].text
                        /\ u.paths[q].gen = "now" =>
                             w.paths[q].gen = "now" /\ u.paths[q].view = w.paths[q].view
                        /\ q \in w.listed.db => q \in u.listed.db
                        /\ q \notin u.struck => q \notin w.struck
                        /\ q \notin u.struck /\ Len(u.paths[q].text) = 2 /\ u.paths[q].text[1] = "_"
                             /\ u.paths[q].text[2] \in w.used => u.paths[q].text[2] \in u.used
      BY DEF Narrowed
    <3>1. q # p /\ u.paths[q] = w.paths[q]
      BY <2>3
    <3>2. ASSUME q \notin u.struck, Len(w.paths[q].text) = 2, w.paths[q].text[1] = "_",
                 w.paths[q].text[2] \in w.used
          PROVE  w.paths[q].text[2] \in u.used
      <4>1. w.paths[q].text = <<"_", w.paths[q].text[2]>>
        BY <3>1, <3>2, TextFacts DEF IsWork, IsPath
      <4>2. q \in PathsTo(w, w.paths[q].text[2])
        BY <3>1, <4>1, Zenon DEF PathsTo
      <4>3. q \notin f.struck
        BY <2>3, <3>1, <3>2
      <4> QED BY <2>2, <2>3, <3>2, <4>2, <4>3
    <3> QED BY <2>2, <2>3, <3>1, <3>2
  <2>6. ASSUME NEW q \in Paths PROVE w.paths[q].refs = u.paths[q].refs + One(q = p)
    <3>1. CASE q = p
      <4>1. w.paths[p].refs = 1 /\ u.paths[p].refs = 0
        BY <1>1, <1>2, <1>4, <2>3 DEF IsPath, Free
      <4> QED BY <3>1, <4>1 DEF One
    <3>2. CASE q # p
      BY <1>2, <2>3, <3>2 DEF One
    <3> QED BY <3>1, <3>2
  <2> QED BY <2>4, <2>5, <2>6 DEF u
<1> QED BY <1>3, <1>4

-----------------------------------------------------------------------------
\* What Tcl does with values: copy, free, print.

\* DupCursorInternalRep counts the copy that is now in hand.
LEMMA Duplicated ==
  ASSUME NEW s, NEW w, NEW c, Sound(s, w, c, NoValue), NEW x \in Vars
  PROVE  Sound(s, DupValue(w, c[x]), c, c[x])
<1> DEFINE v == c[x]
           u == DupValue(w, v)
<1>1. /\ IsWork(w) /\ IsCursors(c) /\ Counted(w, c, NoValue)
      /\ IsValue(v) /\ Says(s, w, v)
  BY DEF Sound, IsCursors
<1>2. \A p \in Paths : w.paths[p].refs = Holders(c, p)
  BY <1>1, NoneInHand DEF NoValue, Value
<1>3. CASE v.path = None
  <2>1. u = w
    BY <1>3 DEF DupValue
  <2>2. Counted(w, c, v)
    BY <1>2, <1>3, NoneInHand
  <2> QED BY <1>1, <2>1, <2>2 DEF Sound
<1>4. CASE v.path # None
  <2>1. u = Refer(w, v.path) /\ v.path \in Paths
    BY <1>1, <1>4 DEF DupValue, IsValue
  <2>2. w.paths[v.path] # Free
    BY <1>1, <2>1, HeldIsLive
  <2>3. /\ IsWork(u) /\ Narrowed(w, u)
        /\ \A q \in Paths : u.paths[q].refs = w.paths[q].refs + One(q = v.path)
    BY <1>1, <2>1, <2>2, ReferFacts
  <2> HIDE DEF u, v
  <2>4. Counted(u, c, v)
    BY <1>2, <2>3 DEF Counted, One
  <2> QED BY <1>1, <2>3, <2>4, NarrowedSound DEF u, v
<1> QED BY <1>3, <1>4

\* FreeCursorInternalRep takes the reference of the value in hand back.
LEMMA Freed ==
  ASSUME NEW s, NEW w, NEW c, NEW v, Sound(s, w, c, v)
  PROVE  Sound(s, FreeValue(w, v), c, NoValue)
<1> DEFINE u == FreeValue(w, v)
<1>1. /\ IsWork(w) /\ IsCursors(c) /\ Counted(w, c, v) /\ TempPathsOwn(w)
      /\ IsValue(v) /\ Says(s, w, v)
  BY DEF Sound
<1>2. IsValue(NoValue) /\ Says(s, w, NoValue) /\ NoValue.path = None
  <2>1. NoValue.text = Name(View, -1) /\ NoValue.path = None /\ NoValue.index = -1
    BY DEF NoValue, Value
  <2>2. Name(View, -1) # None /\ IsName(Name(View, -1))
    BY CursorAssumption DEF CursorAssumption, Names, IsName, Name, IsText
  <2> QED BY <2>1, <2>2 DEF IsValue, Says, NoValue, Value
<1>3. CASE v.path = None
  <2>1. u = w
    BY <1>3 DEF FreeValue
  <2>2. Counted(w, c, NoValue)
    BY <1>1, <1>2, <1>3 DEF Counted
  <2> QED BY <1>1, <1>2, <2>1, <2>2 DEF Sound
<1>4. CASE v.path # None
  <2>1. u = Release(w, v.path) /\ v.path \in Paths
    BY <1>1, <1>4 DEF FreeValue, IsValue
  <2>2. w.paths[v.path] # Free
    BY <1>1, <2>1, HeldIsLive
  <2>3. /\ IsWork(u) /\ Narrowed(w, u)
        /\ \A q \in Paths : w.paths[q].refs = u.paths[q].refs + One(q = v.path)
    BY <1>1, <2>1, <2>2, ReleaseFacts
  <2> HIDE DEF u
  <2>4. Counted(u, c, NoValue)
    <3> SUFFICES ASSUME NEW q \in Paths
                 PROVE  u.paths[q].refs = Holders(c, q)
      BY <1>2, NoneInHand
    <3>1. w.paths[q].refs = Holders(c, q) + One(v.path = q)
      BY <1>1 DEF Counted
    <3>2. w.paths[q].refs = u.paths[q].refs + One(q = v.path)
      BY <2>3
    <3>3. w.paths[q].refs \in Nat /\ u.paths[q].refs \in Nat /\ Holders(c, q) \in Nat
      BY <1>1, <2>3, LiveIfCounted, HoldersNat
    <3> QED BY <3>1, <3>2, <3>3 DEF One
  <2> QED BY <1>1, <1>2, <2>3, <2>4, NarrowedSound DEF u
<1> QED BY <1>3, <1>4

\* Tcl prints the value in hand.
LEMMA Printed ==
  ASSUME NEW s, NEW w, NEW c, NEW v, Sound(s, w, c, v)
  PROVE  /\ IsName(StringOf(w, v))
         /\ Sound(s, w, c, [v EXCEPT !.text = StringOf(w, v)])
<1> DEFINE name == StringOf(w, v)
           u == [v EXCEPT !.text = name]
<1>1. /\ IsWork(w) /\ IsCursors(c) /\ Counted(w, c, v)
      /\ IsValue(v) /\ Says(s, w, v)
      /\ v = [text |-> v.text, path |-> v.path, index |-> v.index] /\ v.index \in Int
  BY DEF Sound, IsValue, Value
<1>2. v.text = None => /\ IsName(name) /\ v.path \in Paths
                       /\ name = Name(w.paths[v.path].text, RowNumber(v.index))
  <2> SUFFICES ASSUME v.text = None
               PROVE  /\ IsName(name) /\ v.path \in Paths
                      /\ name = Name(w.paths[v.path].text, RowNumber(v.index))
    OBVIOUS
  <2>1. v.path \in Paths
    BY <1>1 DEF IsValue
  <2>2. name = Name(w.paths[v.path].text, IF v.index >= 0 THEN v.index ELSE -1)
    BY DEF StringOf
  <2>3. (IF v.index >= 0 THEN v.index ELSE -1) = RowNumber(v.index)
    BY <1>1 DEF RowNumber
  <2>4. IsText(w.paths[v.path].text)
    <3>1. w.paths[v.path] # Free
      BY <1>1, <2>1, HeldIsLive
    <3> QED BY <1>1, <2>1, <3>1 DEF IsWork, IsPath
  <2>5. RowNumber(v.index) \in Int /\ RowNumber(v.index) >= -1
    BY <1>1 DEF RowNumber
  <2> HIDE DEF name
  <2> QED BY <2>1, <2>2, <2>3, <2>4, <2>5 DEF IsName, Name
<1>3. v.text # None => IsName(name) /\ name = v.text
  BY <1>1 DEF IsValue, StringOf
<1> HIDE DEF name
<1>4. u = [text |-> name, path |-> v.path, index |-> v.index]
  BY <1>1
<1> HIDE DEF u
<1>5. IsValue(u)
  BY <1>1, <1>2, <1>3, <1>4 DEF IsValue, Value
<1>6. Says(s, w, u)
  BY <1>1, <1>2, <1>3, <1>4 DEF Says, Linked
<1>7. Counted(w, c, u)
  BY <1>1, <1>4 DEF Counted
<1> QED BY <1>2, <1>3, <1>5, <1>6, <1>7 DEF Sound, u, name

\* changeIndex: the cursor in hand is moved to another row.
LEMMA Indexed ==
  ASSUME NEW s, NEW w, NEW c, NEW v, Sound(s, w, c, v), v.path \in Paths, NEW i \in Int
  PROVE  Sound(s, w, c, WithIndex(v, i))
<1> DEFINE u == WithIndex(v, i)
<1>1. v = [text |-> v.text, path |-> v.path, index |-> v.index] /\ Counted(w, c, v)
  BY DEF Sound, IsValue, Value
<1>2. u = [text |-> None, path |-> v.path, index |-> i]
  <2>1. u = [v EXCEPT !.index = i, !.text = None]
    BY DEF WithIndex
  <2> HIDE DEF u
  <2> QED BY <1>1, <2>1
<1> HIDE DEF u
<1>3. IsValue(u) /\ Says(s, w, u) /\ Counted(w, c, u)
  BY <1>1, <1>2, CursorAssumption DEF IsValue, Value, Says, Counted, CursorAssumption
<1> QED BY <1>3 DEF Sound, u

-----------------------------------------------------------------------------
\* Looking up a string.

\* The object of a new path, and what it shows.
NewObject(path, n) ==
    [refs |-> 1, text |-> path, view |-> Lookup(path), gen |-> "now", behind |-> n]

New(path) == [text |-> path, view |-> Lookup(path)]

\* A path for a temporary row is for one that is flagged and has no other.
Unshared(w, path) ==
    Len(path) = 2 /\ path[1] = "_" =>
        /\ path[2] \in w.used
        /\ \A q \in Paths \ w.struck : w.paths[q] # Free => w.paths[q].text # path

\* A value whose string may have a path.
Spells(v, path) ==
    v.text # None =>
        \/ v.text = Name(path, RowNumber(v.index))
        \/ ~(v.text.path[1] = "db" /\ store.open) /\ Lookup(path) = "temp"

\* A new path is made at a free address.
IsNew(w, path, item, index, r) ==
    \E p \in Paths, n \in Behind(path, item) :
      /\ w.paths[p] = Free
      /\ r = [w |-> [w EXCEPT !.paths[p] = NewObject(path, n), !.listed[item] = @ \cup {p}],
              path |-> p, index |-> index]

LEMMA NewPathIs ==
  ASSUME NEW w, NEW path, NEW item, NEW index, NEW r \in NewPath(w, path, item, index)
  PROVE  IsNew(w, path, item, index, r)
BY Zenon DEF NewPath, NewObject, IsNew

\* A new path, when it leads where it should and is no temporary row's that has
\* one.
LEMMA NewPathSound ==
  ASSUME NEW w, NEW c, Sound(store, w, c, NoValue),
         NEW path, IsText(path), NEW item \in {"db", "temp"}, NEW index,
         NEW r \in NewPath(w, path, item, index),
         path[1] = "db" => item = "db",
         Unshared(w, path), Shows(store, New(path)),
         NEW v, IsValue(v), v.path = r.path, Spells(v, path)
  PROVE  /\ Sound(store, r.w, c, v)
         /\ r.path \in Paths /\ Now(r.w, r.path) /\ r.index = index
<1> DEFINE u == r.w
<1>0. IsNew(w, path, item, index, r)
  BY NewPathIs
<1>1. PICK p \in Paths, n \in Behind(path, item) :
         /\ w.paths[p] = Free
         /\ r = [w |-> [w EXCEPT !.paths[p] = NewObject(path, n), !.listed[item] = @ \cup {p}],
                 path |-> p, index |-> index]
  BY <1>0, Zenon DEF IsNew
<1> DEFINE new == NewObject(path, n)
<1>2. /\ IsWork(w) /\ IsCursors(c) /\ Counted(w, c, NoValue) /\ IsStore(store)
      /\ PathsShow(store, w) /\ TempPathsOwn(w)
      /\ \A x \in Vars : IsValue(c[x]) /\ Says(store, w, c[x])
      /\ w = [paths |-> w.paths, listed |-> w.listed, used |-> w.used, struck |-> w.struck,
                 state |-> "sound"]
      /\ w.listed = [db |-> w.listed.db, temp |-> w.listed.temp]
      /\ w.paths = [q \in Paths |-> w.paths[q]]
  BY DEF Sound, IsWork, IsCursors
<1>3. r.path = p /\ r.index = index /\ u = [w EXCEPT !.paths[p] = new, !.listed[item] = @ \cup {p}]
  BY <1>1
<1> HIDE DEF u, new
<1>4. /\ u = [paths |-> u.paths, listed |-> u.listed, used |-> u.used, struck |-> u.struck,
                 state |-> "sound"]
      /\ u.paths = [q \in Paths |-> u.paths[q]]
      /\ u.paths[p] = new
      /\ \A q \in Paths \ {p} : u.paths[q] = w.paths[q]
      /\ u.used = w.used /\ u.struck = w.struck
  <2>1. u = [paths |-> [w.paths EXCEPT ![p] = new],
             listed |-> [w.listed EXCEPT ![item] = @ \cup {p}],
             used |-> w.used, struck |-> w.struck, state |-> "sound"]
    <3> DEFINE a == [w EXCEPT !.paths[p] = new]
    <3>1. u = [a EXCEPT !.listed[item] = @ \cup {p}]
      BY <1>3
    <3>2. a = [paths |-> [w.paths EXCEPT ![p] = new], listed |-> w.listed, used |-> w.used,
               struck |-> w.struck, state |-> "sound"]
      BY <1>2
    <3> HIDE DEF a
    <3> QED BY <3>1, <3>2
  <2> QED BY <1>2, <2>1
<1>5. /\ u.listed = [db |-> u.listed.db, temp |-> u.listed.temp]
      /\ w.listed.db \subseteq u.listed.db /\ u.listed.db \subseteq w.listed.db \cup {p}
      /\ w.listed.temp \subseteq u.listed.temp /\ u.listed.temp \subseteq w.listed.temp \cup {p}
      /\ item = "db" => p \in u.listed.db
  <2>1. CASE item = "db"
    BY <1>2, <1>3, <2>1
  <2>2. CASE item = "temp"
    BY <1>2, <1>3, <2>2
  <2> QED BY <2>1, <2>2
<1>6. /\ IsPath(new) /\ new # Free /\ new.text = path /\ new.view = Lookup(path)
      /\ new.gen = "now" /\ new.refs = 1
  <2>1. /\ new = [refs |-> new.refs, text |-> new.text, view |-> new.view, gen |-> new.gen,
                  behind |-> new.behind]
        /\ new.text = path /\ new.view = Lookup(path) /\ new.gen = "now" /\ new.refs = 1
    BY DEF new, NewObject
  <2>2. IsPath(new)
    BY <2>1 DEF IsPath
  <2>3. Free.refs = 0
    BY DEF Free
  <2> QED BY <2>1, <2>2, <2>3
<1>7. IsWork(u)
  BY <1>2, <1>4, <1>5, <1>6 DEF IsWork
<1>8. PathsShow(store, u)
  <2> SUFFICES ASSUME NEW q \in Paths, Now(u, q)
               PROVE  /\ Shows(store, u.paths[q])
                      /\ u.paths[q].text[1] = "db" => q \in u.listed.db
    BY DEF PathsShow
  <2>1. CASE q = p
    <3>1. Shows(store, new)
      BY <1>6, Zenon DEF Shows, New
    <3> QED BY <1>4, <1>5, <1>6, <2>1, <3>1
  <2>2. CASE q # p
    <3>1. Now(w, q) /\ u.paths[q] = w.paths[q]
      BY <1>4, <2>2 DEF Now
    <3> QED BY <1>2, <1>5, <3>1 DEF PathsShow
  <2> QED BY <2>1, <2>2
<1>9. TempPathsOwn(u)
  <2> SUFFICES ASSUME NEW q \in Paths \ u.struck, u.paths[q] # Free, Len(u.paths[q].text) = 2,
                      u.paths[q].text[1] = "_"
               PROVE  /\ u.paths[q].text[2] \in u.used
                      /\ \A a \in Paths \ (u.struck \cup {q}) :
                           u.paths[a] # Free => u.paths[a].text # u.paths[q].text
    BY DEF TempPathsOwn
  <2>1. CASE q = p
    <3>1. u.paths[q].text = path /\ path[2] \in w.used
      BY <1>4, <1>6, <2>1 DEF Unshared
    <3>2. ASSUME NEW a \in Paths \ (u.struck \cup {q}), u.paths[a] # Free
          PROVE  u.paths[a].text # path
      <4>1. u.paths[a] = w.paths[a] /\ a \notin w.struck
        BY <1>4, <2>1
      <4> QED BY <1>6, <2>1, <3>1, <3>2, <4>1 DEF Unshared
    <3> QED BY <1>4, <3>1, <3>2
  <2>2. CASE q # p
    <3>1. u.paths[q] = w.paths[q] /\ q \notin w.struck
      BY <1>4, <2>2
    <3>2. /\ w.paths[q].text[2] \in w.used
          /\ \A a \in Paths \ (w.struck \cup {q}) :
               w.paths[a] # Free => w.paths[a].text # w.paths[q].text
      BY <1>2, <1>4, <3>1 DEF TempPathsOwn
    <3>3. w.paths[q].text # path
      BY <3>1, <3>2 DEF Unshared
    <3>4. ASSUME NEW a \in Paths \ (u.struck \cup {q}), u.paths[a] # Free
          PROVE  u.paths[a].text # w.paths[q].text
      <4>1. CASE a = p
        BY <1>4, <1>6, <3>3, <4>1
      <4>2. CASE a # p
        <5>1. u.paths[a] = w.paths[a] /\ a \in Paths \ (w.struck \cup {q})
          BY <1>4, <4>2
        <5> QED BY <3>2, <3>4, <5>1
      <4> QED BY <4>1, <4>2
    <3> QED BY <1>4, <3>1, <3>2, <3>4
  <2> QED BY <2>1, <2>2
<1>10. ASSUME NEW x \in Vars PROVE Says(store, u, c[x])
  <2>1. c[x].path \in Paths => c[x].path # p
    BY <1>1, <1>2, HeldIsLive
  <2>2. c[x].path \in Paths => u.paths[c[x].path] = w.paths[c[x].path]
    BY <1>4, <2>1
  <2>3. Says(store, w, c[x]) /\ (c[x].path \in Paths \/ c[x].path = None)
    BY <1>2 DEF IsValue
  <2> QED BY <2>2, <2>3 DEF Says, Linked
<1>11. Says(store, u, v)
  BY <1>3, <1>4, <1>6 DEF Says, Linked, Spells
<1>12. Counted(u, c, v)
  <2> SUFFICES ASSUME NEW q \in Paths PROVE u.paths[q].refs = Holders(c, q) + One(v.path = q)
    BY DEF Counted
  <2>3. w.paths[p].refs = 0
    BY <1>1, <1>2, LiveIfCounted
  <2>4. Holders(c, q) \in Nat
    BY HoldersNat
  <2>5. w.paths[q].refs = Holders(c, q)
    BY <1>2, NoneInHand DEF NoValue, Value
  <2>6. CASE q = p
    BY <1>3, <1>4, <1>6, <2>3, <2>5, <2>6 DEF One
  <2>7. CASE q # p
    BY <1>3, <1>4, <2>4, <2>5, <2>7 DEF One
  <2> QED BY <2>6, <2>7
<1> QED BY <1>2, <1>3, <1>4, <1>6, <1>7, <1>8, <1>9, <1>10, <1>11, <1>12 DEF Sound, Now, u

\* The view of a temporary row.
LEMMA LookupTemp ==
  ASSUME NEW path, IsText(path), path[1] \in {"_", "?"}
  PROVE  Lookup(path) = "temp" /\ Shows(store, New(path))
<1>1. Find(path) = "temp" /\ path # View /\ Find(path) # None
  BY FindFacts, TextFacts, CursorAssumption DEF CursorAssumption
<1>2. Lookup(path) = "temp"
  BY <1>1, Zenon DEF Lookup
<1>3. New(path).text = path /\ New(path).view = Lookup(path)
  BY DEF New
<1> QED BY <1>2, <1>3, Zenon DEF Shows

\* The view of a path through the storage.
LEMMA LookupStore ==
  ASSUME NEW path, IsText(path), Find(path) = "db", Defined(path)
  PROVE  path[1] = "db" /\ Shows(store, New(path))
<1>1. path[1] = "db" /\ store.open /\ Find(path) # "temp" /\ Find(path) # None
  BY FindFacts, CursorAssumption DEF CursorAssumption
<1>2. path # View => Len(path) = 2 /\ path[2] < Len(store.rows)
  BY <1>1, TextFacts DEF Defined
<1>3. Lookup(path) = IF path = View THEN "main" ELSE store.rows[path[2] + 1]
  BY <1>1, Zenon DEF Lookup
<1>4. New(path).text = path /\ New(path).view = Lookup(path)
  BY DEF New
<1> QED BY <1>1, <1>2, <1>3, <1>4 DEF Shows

\* AllocTempRow gives out a row that no path has, and TempPath a path to it.
LEMMA TempPathSound ==
  ASSUME NEW w, NEW c, Sound(store, w, c, NoValue), NEW index, NEW r \in TempPath(w, index),
         NEW v, IsValue(v), v.path = r.path,
         v.text # None => ~(v.text.path[1] = "db" /\ store.open)
  PROVE  /\ Sound(store, r.w, c, v)
         /\ r.path \in Paths /\ Now(r.w, r.path) /\ r.index = index
<1>1. PICK n \in 1 .. MaxTemp :
         n \notin w.used /\ r \in NewPath([w EXCEPT !.used = @ \cup {n}], <<"_", n>>, "temp", index)
  <2>1. PICK a \in AllocTempRow(w) : r \in NewPath(a.w, <<"_", a.row>>, "temp", index)
    BY DEF TempPath
  <2>2. PICK n \in 1 .. MaxTemp :
           n \notin w.used /\ a = [w |-> [w EXCEPT !.used = @ \cup {n}], row |-> n]
    BY DEF AllocTempRow
  <2>3. a.w = [w EXCEPT !.used = @ \cup {n}] /\ a.row = n
    BY <2>2
  <2> QED BY <2>1, <2>2, <2>3
<1> DEFINE u == [w EXCEPT !.used = @ \cup {n}]
           path == <<"_", n>>
<1>2. /\ IsWork(w) /\ TempPathsOwn(w) /\ Counted(w, c, NoValue)
      /\ IsValue(NoValue) /\ Says(store, w, NoValue)
      /\ w = [paths |-> w.paths, listed |-> w.listed, used |-> w.used, struck |-> w.struck,
                 state |-> "sound"]
  BY DEF Sound, IsWork
<1>3. /\ u = [paths |-> u.paths, listed |-> u.listed, used |-> u.used, struck |-> u.struck,
                 state |-> "sound"]
      /\ u.paths = w.paths /\ u.listed = w.listed /\ u.used = w.used \cup {n}
      /\ u.struck = w.struck
  BY <1>2
<1>4. path[1] = "_" /\ path[2] = n /\ Len(path) = 2
  BY TwoParts, Zenon
<1> HIDE DEF u
<1>5. IsWork(u) /\ Narrowed(w, u) /\ Counted(u, c, NoValue)
  BY <1>2, <1>3 DEF IsWork, Narrowed, Counted
<1>6. Sound(store, u, c, NoValue)
  BY <1>2, <1>5, NarrowedSound
<1>7. n \in Nat
  BY CursorAssumption DEF CursorAssumption
<1>8. IsText(path)
  BY <1>4, <1>7, Zenon DEF IsText
<1> HIDE DEF path
<1>9. Unshared(u, path)
  BY <1>1, <1>2, <1>3, <1>4 DEF Unshared, TempPathsOwn
<1>10. Lookup(path) = "temp" /\ Shows(store, New(path)) /\ path[1] # "db"
  BY <1>4, <1>8, LookupTemp
<1>11. Spells(v, path)
  BY <1>10 DEF Spells
<1>12. r \in NewPath(u, path, "temp", index)
  BY <1>1 DEF u, path
<1> QED BY <1>6, <1>8, <1>9, <1>10, <1>11, <1>12, NewPathSound

\* A new path has an address, and the row number that it was made with.
LEMMA NewPathFacts ==
  ASSUME NEW w, NEW path, NEW item, NEW index, NEW r \in NewPath(w, path, item, index)
  PROVE  r.path \in Paths /\ r.index = index
<1>1. PICK p \in Paths : \E u : r = [w |-> u, path |-> p, index |-> index]
  <2>1. IsNew(w, path, item, index, r)
    BY NewPathIs
  <2> QED BY <2>1, Zenon DEF IsNew
<1> QED BY <1>1

\* So has the path of a temporary row.
LEMMA TempPathFacts ==
  ASSUME NEW w, NEW index, NEW r \in TempPath(w, index)
  PROVE  r.path \in Paths /\ r.index = index
<1>1. PICK a \in AllocTempRow(w) : r \in NewPath(a.w, <<"_", a.row>>, "temp", index)
  BY DEF TempPath
<1> DEFINE u == a.w
           path == <<"_", a.row>>
           item == "temp"
<1>2. r \in NewPath(u, path, item, index)
  BY <1>1
<1> HIDE DEF u, path, item
<1> QED BY <1>2, NewPathFacts

\* A new path for the string of a temporary row.
LEMMA NamelessPathSound ==
  ASSUME NEW w, NEW c, Sound(store, w, c, NoValue),
         NEW path, IsText(path), path[1] \in {"_", "?"}, Len(path) # 2,
         NEW item \in {"db", "temp"}, NEW index, NEW r \in NewPath(w, path, item, index),
         NEW v, IsValue(v), v.path = r.path,
         v.text # None => ~(v.text.path[1] = "db" /\ store.open)
  PROVE  /\ Sound(store, r.w, c, v)
         /\ r.path \in Paths /\ Now(r.w, r.path)
<1>1. Lookup(path) = "temp" /\ Shows(store, New(path)) /\ path[1] # "db"
  BY LookupTemp
<1>2. Unshared(w, path)
  BY DEF Unshared
<1>3. Spells(v, path)
  BY <1>1 DEF Spells
<1>4. Shows(store, New(path)) /\ (path[1] = "db" => item = "db")
  BY <1>1
<1> QED BY <1>2, <1>3, <1>4, NewPathSound, Zenon

\* AddPath: one more reference to the path of that name, or a new path for it; for
\* a name that leads nowhere, to a temporary row.
LEMMA PathAdded ==
  ASSUME NEW w, NEW c, Sound(store, w, c, NoValue), NEW name, IsName(name),
         NEW r \in AddPath(w, name)
  PROVE  /\ Sound(store, r.w, c, Value(name, r.path, r.index))
         /\ r.path \in Paths /\ Now(r.w, r.path)
<1> DEFINE item == Find(name.path)
           v == Value(name, r.path, r.index)
           same == {p \in w.listed[item] : /\ w.paths[p] # Free
                                           /\ w.paths[p].text = name.path
                                           /\ w.paths[p].gen = "now"}
<1>1. /\ IsWork(w) /\ Counted(w, c, NoValue) /\ w.listed = [db |-> w.listed.db, temp |-> w.listed.temp]
      /\ w.listed.db \subseteq Paths /\ w.listed.temp \subseteq Paths
      /\ name = Name(name.path, name.index) /\ IsText(name.path)
      /\ name.index \in Int /\ name.index >= -1
  BY DEF Sound, IsWork, IsName
<1>2. v.text = name /\ v.path = r.path /\ v.index = r.index /\ v = Value(v.text, v.path, v.index)
  BY DEF Value
<1> HIDE DEF v
<1>3. ASSUME r.path \in Paths, r.index \in Int PROVE IsValue(v)
  BY <1>2, <1>3, CursorAssumption DEF IsValue, CursorAssumption
<1>5. item \in {"db", "temp", None} /\ None \notin {"db", "temp"}
  BY <1>1, FindFacts, CursorAssumption DEF CursorAssumption
<1>6. CASE item = None
  <2>1. r \in TempPath(w, -1)
    BY <1>6 DEF AddPath
  <2>2. r.path \in Paths /\ r.index = -1
    BY <2>1, TempPathFacts
  <2>3. ~(name.path[1] = "db" /\ store.open)
    BY <1>1, <1>5, <1>6, FindFacts
  <2>4. IsValue(v)
    BY <1>3, <2>2
  <2>5. v.text # None => ~(v.text.path[1] = "db" /\ store.open)
    BY <1>2, <2>3
  <2>6. Sound(store, r.w, c, v) /\ Now(r.w, r.path)
    BY <1>2, <2>1, <2>4, <2>5, TempPathSound
  <2> QED BY <2>2, <2>6 DEF v
<1>7. CASE item # None /\ name.index < 0 /\ same # {}
  <2>1. PICK p \in same : r = [w |-> Refer(w, p), path |-> p, index |-> -1]
    BY <1>7 DEF AddPath
  <2>2. p \in Paths /\ w.paths[p] # Free /\ w.paths[p].text = name.path /\ w.paths[p].gen = "now"
    BY <1>1, <1>5, <1>7
  <2> DEFINE u == Refer(w, p)
  <2>3. r.w = u /\ r.path = p /\ r.index = -1
    BY <2>1
  <2>4. /\ IsWork(u) /\ Narrowed(w, u)
        /\ \A q \in Paths : u.paths[q].refs = w.paths[q].refs + One(q = p)
    BY <1>1, <2>2, ReferFacts
  <2>5. u.paths[p].gen = "now"
    BY <2>2 DEF Refer
  <2> HIDE DEF u
  <2>6. IsValue(v)
    BY <1>3, <2>2, <2>3
  <2>7. Says(store, w, v)
    <3>1. RowNumber(-1) = -1 /\ name.index = -1
      BY <1>1, <1>7 DEF RowNumber
    <3> QED BY <1>1, <1>2, <2>2, <2>3, <3>1, Zenon DEF Says, Linked
  <2>8. Counted(u, c, v)
    <3>1. \A q \in Paths : w.paths[q].refs = Holders(c, q)
      BY <1>1, NoneInHand DEF NoValue, Value
    <3> QED BY <1>2, <2>3, <2>4, <3>1 DEF Counted, One
  <2>9. Sound(store, u, c, v)
    BY <2>4, <2>6, <2>7, <2>8, NarrowedSound
  <2>10. Now(u, p)
    BY <1>2, <2>2, <2>3, <2>4, <2>5, <2>8, <2>9, HeldIsLive DEF Now, Sound
  <2> QED BY <2>2, <2>3, <2>9, <2>10 DEF v
<1>8. CASE item = "temp" /\ ~(name.index < 0 /\ same # {})
  <2> DEFINE index == IF Len(name.path) = 2 THEN name.path[2] ELSE name.index
  <2>1. r \in NewPath(w, <<Head(name.path)>>, "temp", index)
    BY <1>5, <1>8 DEF AddPath
  <2>2. index \in Int
    <3>1. Len(name.path) = 2 => name.path[2] \in Nat
      BY <1>1, TextFacts
    <3>2. CASE Len(name.path) = 2
      BY <3>1, <3>2
    <3>3. CASE Len(name.path) # 2
      BY <1>1, <3>3
    <3> QED BY <3>2, <3>3
  <2> HIDE DEF index
  <2>3. IsValue(v)
    BY <1>3, <2>1, <2>2, NewPathFacts
  <2>4. ~(v.text.path[1] = "db" /\ store.open)
    BY <1>1, <1>2, <1>8, FindFacts
  <2> DEFINE head == Head(name.path)
             path == <<head>>
             it == "temp"
  <2>5. path[1] \in {"_", "?"} /\ Len(path) # 2 /\ IsText(path)
    <3>1. 1 # 2
      OBVIOUS
    <3>2. head \in {"_", "?"}
      BY <1>1, <1>8, TextFacts, FindFacts
    <3> HIDE DEF head
    <3> QED BY <3>1, <3>2, OnePart, Zenon DEF IsText
  <2>6. r \in NewPath(w, path, it, index) /\ it \in {"db", "temp"}
    BY <2>1
  <2> HIDE DEF head, path, it, same, item
  <2>7. Sound(store, r.w, c, v) /\ r.path \in Paths /\ Now(r.w, r.path)
    BY <1>2, <2>3, <2>4, <2>5, <2>6, NamelessPathSound
  <2> QED BY <2>7 DEF v
<1>9. CASE item = "db" /\ ~(name.index < 0 /\ same # {})
  <2>1. r \in NewPath(w, name.path, "db", name.index) /\ Defined(name.path)
    BY <1>5, <1>9 DEF AddPath
  <2>2. IsValue(v) /\ r.index = name.index
    BY <1>1, <1>3, <2>1, NewPathFacts
  <2>3. name.path[1] = "db" /\ Shows(store, New(name.path))
    BY <1>1, <1>9, <2>1, LookupStore
  <2>4. Unshared(w, name.path)
    BY <2>3 DEF Unshared
  <2>5. Spells(v, name.path)
    <3>1. RowNumber(name.index) = name.index
      BY <1>1 DEF RowNumber
    <3> QED BY <1>1, <1>2, <2>2, <3>1, Zenon DEF Spells
  <2>6. Sound(store, r.w, c, v) /\ r.path \in Paths /\ Now(r.w, r.path)
    BY <1>1, <1>2, <2>1, <2>2, <2>3, <2>4, <2>5, NewPathSound
  <2> QED BY <2>6 DEF v
<1> QED BY <1>5, <1>6, <1>7, <1>8, <1>9

\* SetCursorFromAny gives a cursor of this generation for any value.
LEMMA CursorSet ==
  ASSUME NEW w, NEW c, NEW v, Sound(store, w, c, v), NEW r \in SetCursorFromAny(w, v)
  PROVE  /\ Sound(store, r.w, c, r.value)
         /\ r.value.path \in Paths /\ Now(r.w, r.value.path)
<1>1. IsWork(w) /\ IsCursors(c) /\ Counted(w, c, v) /\ IsValue(v)
  BY DEF Sound
<1>2. CASE v.path # None /\ w.paths[v.path].gen = "now"
  <2>1. r = [w |-> w, value |-> v]
    BY <1>2 DEF SetCursorFromAny
  <2>2. r.w = w /\ r.value = v /\ v.path \in Paths
    BY <1>1, <1>2, <2>1 DEF IsValue
  <2> QED BY <1>1, <1>2, <2>2, HeldIsLive DEF Now
<1>3. CASE ~(v.path # None /\ w.paths[v.path].gen = "now")
  <2> DEFINE name == StringOf(w, v)
             free == FreeValue(w, v)
  <2>1. PICK a \in AddPath(free, name) : r = [w |-> a.w, value |-> Value(name, a.path, a.index)]
    BY <1>3 DEF SetCursorFromAny, FreeValue
  <2>2. IsName(name) /\ Sound(store, free, c, NoValue)
    BY Printed, Freed
  <2> HIDE DEF name, free
  <2>3. /\ Sound(store, a.w, c, Value(name, a.path, a.index))
        /\ a.path \in Paths /\ Now(a.w, a.path)
    BY <2>2, PathAdded
  <2>4. r.w = a.w /\ r.value = Value(name, a.path, a.index) /\ r.value.path = a.path
    BY <2>1 DEF Value
  <2> QED BY <2>3, <2>4
<1> QED BY <1>2, <1>3

-----------------------------------------------------------------------------
\* Changes of the storage.

\* ++generation: whatever the storage holds then, no path leads there before it is
\* looked up again.
LEMMA Aged ==
  ASSUME NEW w, IsWork(w), TempPathsOwn(w), NEW c, IsCursors(c), NEW v, IsValue(v),
         Counted(w, c, v), NEW t, IsStore(t)
  PROVE  Sound(t, NextGeneration(w), c, v)
<1> DEFINE u == NextGeneration(w)
           old(r) == [r EXCEPT !.gen = "old", !.view = None]
<1>1. /\ w = [paths |-> w.paths, listed |-> w.listed, used |-> w.used, struck |-> w.struck,
                 state |-> "sound"]
      /\ w.paths = [q \in Paths |-> w.paths[q]]
      /\ \A q \in Paths : w.paths[q] = Free \/ IsPath(w.paths[q])
  BY DEF IsWork
<1>2. u = [w EXCEPT !.paths = [q \in Paths |-> IF Now(w, q) THEN old(w.paths[q]) ELSE w.paths[q]]]
  BY DEF NextGeneration, Now
<1> HIDE DEF u, old
<1>3. /\ u = [paths |-> u.paths, listed |-> w.listed, used |-> w.used, struck |-> w.struck,
                 state |-> "sound"]
      /\ u.paths = [q \in Paths |-> u.paths[q]]
      /\ \A q \in Paths : u.paths[q] = IF Now(w, q) THEN old(w.paths[q]) ELSE w.paths[q]
  BY <1>1, <1>2
<1>4. ASSUME NEW q \in Paths, w.paths[q] # Free
      PROVE  /\ IsPath(u.paths[q]) /\ u.paths[q].gen # "now"
             /\ u.paths[q].text = w.paths[q].text /\ u.paths[q].refs = w.paths[q].refs
  <2> DEFINE a == w.paths[q]
  <2>1. IsPath(a)
    BY <1>1, <1>4
  <2> HIDE DEF a
  <2>2. old(a) = [refs |-> a.refs, text |-> a.text, view |-> None, gen |-> "old", behind |-> a.behind]
    <3>1. /\ a = [refs |-> a.refs, text |-> a.text, view |-> a.view, gen |-> a.gen,
               behind |-> a.behind]
          /\ old(a) = [a EXCEPT !.gen = "old", !.view = None]
      BY <2>1 DEF IsPath, old
    <3> HIDE DEF old
    <3> QED BY <3>1
  <2>3. IsPath(old(a)) /\ old(a).gen = "old" /\ old(a).text = a.text /\ old(a).refs = a.refs
    BY <2>1, <2>2 DEF IsPath
  <2> QED BY <1>3, <1>4, <2>1, <2>3 DEF Now, a
<1>5. ASSUME NEW q \in Paths, w.paths[q] = Free PROVE u.paths[q] = Free
  BY <1>3, <1>5 DEF Now
<1>6. \A q \in Paths : u.paths[q].refs = w.paths[q].refs /\ (u.paths[q] # Free => w.paths[q] # Free)
  BY <1>4, <1>5
<1>7. IsWork(u)
  <2>1. u.listed = w.listed /\ u.used = w.used /\ u.struck = w.struck
    BY <1>3
  <2> QED BY <1>3, <1>4, <1>5, <2>1 DEF IsWork
<1>8. TempPathsOwn(u)
  <2>1. u.used = w.used /\ u.struck = w.struck
    BY <1>3
  <2> QED BY <1>4, <1>6, <2>1, TempPathsKept
<1>9. PathsShow(t, u)
  BY <1>4, <1>6 DEF PathsShow, Now
<1>10. Counted(u, c, v)
  BY <1>6 DEF Counted
<1>11. ASSUME NEW a, IsValue(a), a.path \in Paths => w.paths[a.path] # Free
       PROVE  Says(t, u, a)
  BY <1>4, <1>11 DEF Says, IsValue
<1>12. (\A x \in Vars : Says(t, u, c[x])) /\ Says(t, u, v)
  BY <1>11, HeldIsLive DEF IsCursors
<1> QED BY <1>7, <1>8, <1>9, <1>10, <1>12 DEF Sound, u

\* The item is closed: its paths are no one's any more, and ++generation.
LEMMA Closed ==
  ASSUME NEW s, NEW w, NEW c, NEW v, Sound(s, w, c, v), NEW t, IsStore(t)
  PROVE  Sound(t, CloseItem(w), c, v)
<1> DEFINE shut(r) == [r EXCEPT !.view = None, !.text = <<"?">>, !.gen = "never"]
           paths == [q \in Paths |->
                       IF q \in w.listed.db /\ w.paths[q] # Free THEN shut(w.paths[q]) ELSE w.paths[q]]
           u == [w EXCEPT !.paths = paths, !.listed.db = {}]
<1>1. /\ w = [paths |-> w.paths, listed |-> w.listed, used |-> w.used, struck |-> w.struck,
                 state |-> "sound"]
      /\ w.listed = [db |-> w.listed.db, temp |-> w.listed.temp]
      /\ w.listed.temp \subseteq Paths
      /\ w.paths = [q \in Paths |-> w.paths[q]]
      /\ \A q \in Paths : w.paths[q] = Free \/ IsPath(w.paths[q])
      /\ IsCursors(c) /\ IsValue(v) /\ Counted(w, c, v) /\ TempPathsOwn(w)
  BY DEF Sound, IsWork
<1>2. CloseItem(w) = NextGeneration(u)
  BY DEF CloseItem
<1> HIDE DEF shut
<1>3. /\ u = [paths |-> u.paths, listed |-> u.listed, used |-> w.used, struck |-> w.struck,
                 state |-> "sound"]
      /\ u.listed = [db |-> {}, temp |-> w.listed.temp]
      /\ u.paths = [q \in Paths |-> u.paths[q]]
      /\ \A q \in Paths : u.paths[q] = IF q \in w.listed.db /\ w.paths[q] # Free THEN shut(w.paths[q])
                                       ELSE w.paths[q]
  <2>1. /\ paths = [q \in Paths |-> paths[q]]
        /\ \A q \in Paths : paths[q] = IF q \in w.listed.db /\ w.paths[q] # Free THEN shut(w.paths[q])
                                       ELSE w.paths[q]
    OBVIOUS
  <2>2. u = [w EXCEPT !.paths = paths, !.listed.db = {}]
    OBVIOUS
  <2> HIDE DEF u, paths
  <2>3. u = [paths |-> paths, listed |-> [db |-> {}, temp |-> w.listed.temp], used |-> w.used, struck |-> w.struck,
                 state |-> "sound"]
    <3> DEFINE a == [w EXCEPT !.paths = paths]
    <3>1. u = [a EXCEPT !.listed.db = {}]
      BY <2>2
    <3>2. a = [paths |-> paths, listed |-> w.listed, used |-> w.used, struck |-> w.struck,
               state |-> "sound"]
      BY <1>1
    <3> HIDE DEF a
    <3> QED BY <1>1, <3>1, <3>2
  <2> QED BY <2>1, <2>3
<1> HIDE DEF u, paths
<1>4. ASSUME NEW r, IsPath(r)
      PROVE  IsPath(shut(r)) /\ shut(r).refs = r.refs /\ Len(shut(r).text) # 2
  <2> DEFINE a == shut(r)
  <2> DEFINE lost == <<"?">>
  <2>1. /\ r = [refs |-> r.refs, text |-> r.text, view |-> r.view, gen |-> r.gen,
               behind |-> r.behind]
        /\ a = [r EXCEPT !.view = None, !.text = lost, !.gen = "never"]
    BY <1>4 DEF IsPath, shut
  <2> HIDE DEF a, lost
  <2>2. a.refs = r.refs /\ a.text = lost /\ a.gen = "never"
    BY <2>1
  <2>3. IsText(a.text)
    BY <2>2, Zenon DEF IsText, lost
  <2>4. 1 # 2
    OBVIOUS
  <2>5. Len(a.text) # 2
    BY <2>2, <2>4, OnePart, Zenon DEF lost
  <2>6. a = [refs |-> a.refs, text |-> a.text, view |-> a.view, gen |-> a.gen,
               behind |-> a.behind]
    BY <2>1
  <2> QED BY <1>4, <2>2, <2>3, <2>5, <2>6 DEF IsPath, a
<1>5. IsWork(u) /\ TempPathsOwn(u) /\ \A q \in Paths : u.paths[q].refs = w.paths[q].refs
  <2>1. ASSUME NEW q \in Paths
        PROVE  /\ u.paths[q] = Free \/ IsPath(u.paths[q])
               /\ u.paths[q].refs = w.paths[q].refs
               /\ u.paths[q] = w.paths[q] \/ Len(u.paths[q].text) # 2
    BY <1>1, <1>3, <1>4
  <2>2. u.used = w.used /\ u.struck = w.struck
    BY <1>3
  <2>3. u.listed.db = {} /\ u.listed.temp = w.listed.temp
    BY <1>3
  <2>4. IsWork(u)
    BY <1>1, <1>3, <2>1, <2>2, <2>3 DEF IsWork
  <2>5. TempPathsOwn(u)
    <3>1. \A q \in Paths : u.paths[q] # Free => w.paths[q] # Free
      BY <1>3
    <3> QED BY <1>1, <2>1, <2>2, <3>1, TempPathsKept
  <2> QED BY <2>1, <2>4, <2>5
<1>6. Counted(u, c, v)
  BY <1>1, <1>5 DEF Counted
<1> QED BY <1>1, <1>2, <1>5, <1>6, Aged

\* Rows that are added after those that there are change no view of a path.
LEMMA Grown ==
  ASSUME NEW s, NEW w, NEW c, NEW v, Sound(s, w, c, v), NEW t, IsStore(t), t.open = s.open,
         Len(s.rows) <= Len(t.rows), \A k \in 1 .. Len(s.rows) : t.rows[k] = s.rows[k]
  PROVE  Sound(t, w, c, v)
<1>1. Len(s.rows) \in Nat /\ Len(t.rows) \in Nat
  BY DEF Sound, IsStore
<1>2. ASSUME NEW r, IsPath(r), Shows(s, r) PROVE Shows(t, r)
  <2>1. Len(r.text) = 2 => r.text[2] \in Nat
    BY <1>2, TextFacts DEF IsPath
  <2>2. ASSUME NEW n \in Nat, n < Len(s.rows)
        PROVE  n < Len(t.rows) /\ t.rows[n + 1] = s.rows[n + 1]
    BY <1>1, <2>2
  <2> QED BY <1>2, <2>1, <2>2, Zenon DEF Shows
<1>3. PathsShow(t, w)
  BY <1>2 DEF Sound, PathsShow, Now, IsWork
<1>4. \A a : Says(s, w, a) => Says(t, w, a)
  BY DEF Says, Linked
<1> QED BY <1>3, <1>4 DEF Sound

\* Rows that leave: only the views of their paths are other ones.
Left(w, ids, as, u) ==
    /\ IsWork(u) /\ u.listed = w.listed /\ u.used = w.used /\ u.struck = w.struck
    /\ \A q \in Paths :
         /\ u.paths[q] = Free <=> w.paths[q] = Free
         /\ u.paths[q].refs = w.paths[q].refs
         /\ w.paths[q] # Free =>
              /\ u.paths[q].text = w.paths[q].text /\ u.paths[q].gen = w.paths[q].gen
              /\ u.paths[q].view = IF w.paths[q].view \in ids THEN as ELSE w.paths[q].view

LEMMA LeaveFacts ==
  ASSUME NEW w, IsWork(w), NEW ids, NEW as
  PROVE  Left(w, ids, as, Leave(w, ids, as))
<1> DEFINE u == Leave(w, ids, as)
           out(r) == [r EXCEPT !.view = as]
<1>1. /\ w = [paths |-> w.paths, listed |-> w.listed, used |-> w.used, struck |-> w.struck,
                 state |-> "sound"]
      /\ w.paths = [q \in Paths |-> w.paths[q]]
      /\ \A q \in Paths : w.paths[q] = Free \/ IsPath(w.paths[q])
  BY DEF IsWork
<1>2. u = [w EXCEPT !.paths = [q \in Paths |->
             IF w.paths[q] # Free /\ w.paths[q].view \in ids THEN out(w.paths[q]) ELSE w.paths[q]]]
  BY DEF Leave
<1> HIDE DEF u, out
<1>3. /\ u = [paths |-> u.paths, listed |-> w.listed, used |-> w.used, struck |-> w.struck,
                 state |-> "sound"]
      /\ u.paths = [q \in Paths |-> u.paths[q]]
      /\ \A q \in Paths : u.paths[q] =
           IF w.paths[q] # Free /\ w.paths[q].view \in ids THEN out(w.paths[q]) ELSE w.paths[q]
  BY <1>1, <1>2
<1>4. u.listed = w.listed /\ u.used = w.used /\ u.struck = w.struck
  BY <1>3
<1>5. ASSUME NEW r, IsPath(r)
      PROVE  /\ IsPath(out(r)) /\ out(r) # Free /\ out(r).refs = r.refs
             /\ out(r).text = r.text /\ out(r).gen = r.gen /\ out(r).view = as
  <2> DEFINE a == out(r)
  <2>1. /\ r = [refs |-> r.refs, text |-> r.text, view |-> r.view, gen |-> r.gen,
               behind |-> r.behind]
        /\ a = [r EXCEPT !.view = as]
    BY <1>5 DEF IsPath, out
  <2> HIDE DEF a
  <2>2. a = [refs |-> r.refs, text |-> r.text, view |-> as, gen |-> r.gen, behind |-> r.behind]
    BY <2>1
  <2>3. /\ a = [refs |-> a.refs, text |-> a.text, view |-> a.view, gen |-> a.gen,
               behind |-> a.behind]
        /\ a.refs = r.refs /\ a.text = r.text /\ a.view = as /\ a.gen = r.gen
    BY <2>2
  <2>4. Free.refs = 0 /\ r.refs # 0
    BY <1>5 DEF Free, IsPath
  <2>5. IsPath(a)
    BY <1>5, <2>3 DEF IsPath
  <2> QED BY <2>3, <2>4, <2>5 DEF a
<1>6. ASSUME NEW q \in Paths, w.paths[q] # Free
      PROVE  /\ IsPath(u.paths[q]) /\ u.paths[q] # Free /\ u.paths[q].refs = w.paths[q].refs
             /\ u.paths[q].text = w.paths[q].text /\ u.paths[q].gen = w.paths[q].gen
             /\ u.paths[q].view = IF w.paths[q].view \in ids THEN as ELSE w.paths[q].view
  <2>1. CASE w.paths[q].view \in ids
    <3>1. u.paths[q] = out(w.paths[q]) /\ IsPath(w.paths[q])
      BY <1>1, <1>3, <1>6, <2>1
    <3> QED BY <1>5, <2>1, <3>1
  <2>2. CASE w.paths[q].view \notin ids
    BY <1>1, <1>3, <1>6, <2>2
  <2> QED BY <2>1, <2>2
<1>7. ASSUME NEW q \in Paths, w.paths[q] = Free PROVE u.paths[q] = Free
  BY <1>3, <1>7
<1>8. IsWork(u)
  BY <1>1, <1>3, <1>4, <1>6, <1>7 DEF IsWork
<1> QED BY <1>4, <1>6, <1>7, <1>8 DEF Left, u

\* Nothing leaves.
LEMMA NothingLeaves ==
  ASSUME NEW w, IsWork(w), NEW as
  PROVE  Leave(w, {}, as) = w
<1>1. /\ w = [paths |-> w.paths, listed |-> w.listed, used |-> w.used, struck |-> w.struck,
                 state |-> "sound"]
      /\ w.paths = [q \in Paths |-> w.paths[q]]
  BY DEF IsWork
<1>2. Leave(w, {}, as) = [w EXCEPT !.paths = [q \in Paths |-> w.paths[q]]]
  BY DEF Leave
<1> QED BY <1>1, <1>2

\* Rows that a change of size takes, or that move without their paths being told:
\* the views of these are left over, and the rows in front stay.
LEMMA Dropped ==
  ASSUME NEW s, NEW w, NEW c, NEW v, Sound(s, w, c, v), NEW t, IsStore(t), t.open = s.open,
         NEW as \in {"dropped", "missed"}, NEW n \in Nat,
         \A k \in 1 .. Len(s.rows) : k <= n => k <= Len(t.rows) /\ t.rows[k] = s.rows[k]
  PROVE  Sound(t, Leave(w, {s.rows[k] : k \in n + 1 .. Len(s.rows)}, as), c, v)
<1> DEFINE ids == {s.rows[k] : k \in n + 1 .. Len(s.rows)}
           u == Leave(w, ids, as)
<1>1. /\ IsStore(s) /\ IsWork(w) /\ IsCursors(c) /\ IsValue(v)
      /\ PathsShow(s, w) /\ TempPathsOwn(w) /\ Counted(w, c, v)
      /\ (\A x \in Vars : Says(s, w, c[x])) /\ Says(s, w, v)
  BY DEF Sound
<1>2. Len(s.rows) \in Nat /\ Len(t.rows) \in Nat /\ \A k \in 1 .. Len(s.rows) : s.rows[k] \in Rows
  BY <1>1 DEF IsStore
<1>3. "temp" \notin ids /\ "main" \notin ids
  BY <1>2, CursorAssumption DEF CursorAssumption
<1>4. ASSUME NEW m \in Nat, m < Len(s.rows), s.rows[m + 1] \notin ids
      PROVE  m < Len(t.rows) /\ t.rows[m + 1] = s.rows[m + 1]
  <2>1. m + 1 \in 1 .. Len(s.rows) /\ m + 1 <= n
    BY <1>2, <1>4
  <2> QED BY <1>2, <2>1
<1> HIDE DEF ids
<1>5. /\ IsWork(u) /\ u.listed = w.listed /\ u.used = w.used /\ u.struck = w.struck
      /\ \A q \in Paths :
           /\ u.paths[q] = Free <=> w.paths[q] = Free
           /\ u.paths[q].refs = w.paths[q].refs
           /\ w.paths[q] # Free =>
                /\ u.paths[q].text = w.paths[q].text /\ u.paths[q].gen = w.paths[q].gen
                /\ u.paths[q].view = IF w.paths[q].view \in ids THEN as ELSE w.paths[q].view
  <2>1. Left(w, ids, as, u)
    BY <1>1, LeaveFacts, Zenon
  <2> HIDE DEF u
  <2> QED BY <2>1 DEF Left
<1> HIDE DEF u
<1>6. PathsShow(t, u)
  <2> SUFFICES ASSUME NEW q \in Paths, Now(u, q)
               PROVE  /\ Shows(t, u.paths[q])
                      /\ u.paths[q].text[1] = "db" => q \in u.listed.db
    BY DEF PathsShow
  <2> DEFINE a == w.paths[q]
             b == u.paths[q]
  <2>1. Now(w, q) /\ b.text = a.text /\ b.view = IF a.view \in ids THEN as ELSE a.view
    BY <1>5 DEF Now
  <2>2. Shows(s, a) /\ (a.text[1] = "db" => q \in w.listed.db)
    BY <1>1, <2>1 DEF PathsShow
  <2>3. Len(a.text) = 2 => a.text[2] \in Nat
    BY <1>1, <2>1, TextFacts DEF IsWork, IsPath, Now
  <2> HIDE DEF a, b
  <2>4. ASSUME a.view \in ids PROVE Shows(t, b)
    BY <1>3, <2>1, <2>2, <2>4, Zenon DEF Shows
  <2>5. ASSUME a.view \notin ids PROVE Shows(t, b)
    <3>1. b.view = a.view
      BY <2>1, <2>5
    <3> QED BY <1>4, <2>1, <2>2, <2>3, <2>5, <3>1, Zenon DEF Shows
  <2> QED BY <1>5, <2>1, <2>2, <2>4, <2>5 DEF a, b
<1>7. TempPathsOwn(u)
  <2>1. \A q \in Paths : u.paths[q] # Free => w.paths[q] # Free /\ u.paths[q].text = w.paths[q].text
    BY <1>5
  <2>2. u.used = w.used /\ u.struck = w.struck
    BY <1>5
  <2> QED BY <1>1, <2>1, <2>2, TempPathsKept
<1>8. Counted(u, c, v)
  BY <1>1, <1>5 DEF Counted
<1>9. ASSUME NEW a, IsValue(a), Says(s, w, a), a.path \in Paths => w.paths[a.path] # Free
      PROVE  Says(t, u, a)
  BY <1>3, <1>5, <1>9 DEF Says, Linked, IsValue
<1>10. (\A x \in Vars : Says(t, u, c[x])) /\ Says(t, u, v)
  BY <1>1, <1>9, HeldIsLive DEF IsCursors
<1> QED BY <1>1, <1>5, <1>6, <1>7, <1>8, <1>10 DEF Sound, u, ids

\* Invalidate: the paths of the storage that go through the view of a path are
\* looked up again, the others stay as they are.
LEMMA InvalidateFacts ==
  ASSUME NEW w, IsWork(w), NEW p \in Paths
  PROVE  /\ IsWork(Invalidate(w, p)) /\ Narrowed(w, Invalidate(w, p))
         /\ Invalidate(w, p).listed = w.listed
         /\ \A q \in Paths : Invalidate(w, p).paths[q].refs = w.paths[q].refs
         /\ \A q \in w.listed.db :
              w.paths[p].text = View /\ store.open /\ Now(Invalidate(w, p), q) =>
                ~(Len(w.paths[q].text) = 2 /\ w.paths[q].text[1] = "db")
<1> DEFINE u == Invalidate(w, p)
           item == Find(w.paths[p].text)
           out(r) == [r EXCEPT !.gen = "never", !.view = None]
           below(q) == /\ w.paths[q] # Free
                       /\ Len(w.paths[q].text) = 2
                       /\ <<Head(w.paths[q].text)>> = w.paths[p].text
           struck(q) == item # None /\ q \in w.listed[item] /\ below(q)
<1>1. /\ w = [paths |-> w.paths, listed |-> w.listed, used |-> w.used, struck |-> w.struck,
                 state |-> "sound"]
      /\ w.listed.db \subseteq Paths
      /\ w.paths = [q \in Paths |-> w.paths[q]]
      /\ \A q \in Paths : w.paths[q] = Free \/ IsPath(w.paths[q])
  BY DEF IsWork
<1>2. /\ u = [paths |-> u.paths, listed |-> w.listed, used |-> w.used, struck |-> w.struck,
                 state |-> "sound"]
      /\ u.paths = [q \in Paths |-> u.paths[q]]
      /\ \A q \in Paths : u.paths[q] = IF struck(q) THEN out(w.paths[q]) ELSE w.paths[q]
  <2>1. CASE item = None
    <3>1. u = w
      BY <2>1 DEF Invalidate
    <3> HIDE DEF u, item, below, out
    <3> QED BY <1>1, <2>1, <3>1
  <2>2. CASE item # None
    <3>1. u = [w EXCEPT !.paths = [q \in Paths |->
                 IF q \in w.listed[item] /\ below(q) THEN out(w.paths[q]) ELSE w.paths[q]]]
      BY <2>2 DEF Invalidate
    <3> HIDE DEF u, item, below, out
    <3> QED BY <1>1, <2>2, <3>1
  <2> QED BY <2>1, <2>2
<1> HIDE DEF u, out
<1>3. u.listed = w.listed /\ u.used = w.used /\ u.struck = w.struck
  BY <1>2
<1>4. ASSUME NEW r, IsPath(r)
      PROVE  /\ IsPath(out(r)) /\ out(r) # Free /\ out(r).refs = r.refs
             /\ out(r).text = r.text /\ out(r).gen = "never"
  <2> DEFINE a == out(r)
  <2>1. /\ r = [refs |-> r.refs, text |-> r.text, view |-> r.view, gen |-> r.gen,
               behind |-> r.behind]
        /\ a = [r EXCEPT !.gen = "never", !.view = None]
    BY <1>4 DEF IsPath, out
  <2> HIDE DEF a
  <2>2. a = [refs |-> r.refs, text |-> r.text, view |-> None, gen |-> "never", behind |-> r.behind]
    BY <2>1
  <2>3. /\ a = [refs |-> a.refs, text |-> a.text, view |-> a.view, gen |-> a.gen,
               behind |-> a.behind]
        /\ a.refs = r.refs /\ a.text = r.text /\ a.gen = "never"
    BY <2>2
  <2>4. Free.refs = 0 /\ r.refs # 0
    BY <1>4 DEF Free, IsPath
  <2>5. IsPath(a)
    BY <1>4, <2>3 DEF IsPath
  <2> QED BY <2>3, <2>4, <2>5 DEF a
<1>5. ASSUME NEW q \in Paths
      PROVE  \/ /\ ~struck(q) /\ u.paths[q] = w.paths[q]
             \/ /\ w.paths[q] # Free /\ IsPath(u.paths[q])
                /\ u.paths[q].refs = w.paths[q].refs /\ u.paths[q].text = w.paths[q].text
                /\ u.paths[q].gen = "never"
  <2>1. CASE struck(q)
    <3>1. w.paths[q] # Free /\ u.paths[q] = out(w.paths[q])
      BY <1>2, <2>1
    <3> QED BY <1>1, <1>4, <3>1
  <2>2. CASE ~struck(q)
    BY <1>2, <2>2
  <2> QED BY <2>1, <2>2
<1>6. ASSUME NEW q \in w.listed.db, w.paths[p].text = View, store.open,
             w.paths[q] # Free, Len(w.paths[q].text) = 2, w.paths[q].text[1] = "db"
      PROVE  struck(q)
  <2>1. item = "db" /\ item # None
    <3>1. IsText(View) /\ View[1] = "db"
      BY OnePart, Zenon DEF IsText, View
    <3> QED BY <1>6, <3>1, FindFacts, CursorAssumption DEF CursorAssumption
  <2>2. w.listed[item] = w.listed.db
    BY <2>1
  <2>3. Head(w.paths[q].text) = "db"
    BY <1>1, <1>6, TextFacts DEF IsPath
  <2>4. <<Head(w.paths[q].text)>> = w.paths[p].text
    BY <1>6, <2>3, Zenon DEF View
  <2> HIDE DEF item
  <2> QED BY <1>6, <2>1, <2>2, <2>4
<1> HIDE DEF struck
<1>7. IsWork(u)
  BY <1>1, <1>2, <1>3, <1>5 DEF IsWork
<1>8. Narrowed(w, u)
  BY <1>3, <1>5 DEF Narrowed
<1>9. \A q \in Paths : u.paths[q].refs = w.paths[q].refs
  BY <1>5
<1>10. \A q \in w.listed.db :
         w.paths[p].text = View /\ store.open /\ Now(u, q) =>
           ~(Len(w.paths[q].text) = 2 /\ w.paths[q].text[1] = "db")
  BY <1>1, <1>5, <1>6 DEF Now
<1> QED BY <1>3, <1>7, <1>8, <1>9, <1>10 DEF u

\* Rows that come and go in the middle: the paths to subviews are all marked, so
\* that none leads to a row that has moved.
LEMMA Shifted ==
  ASSUME NEW w, NEW c, NEW v, Sound(store, w, c, v), NEW p \in Paths, Now(w, p),
         w.paths[p].view = "main", NEW ids \in SUBSET Rows, NEW t, IsStore(t), t.open = store.open
  PROVE  Sound(t, Invalidate(Leave(w, ids, "gone"), p), c, v)
<1> DEFINE l == Leave(w, ids, "gone")
           u == Invalidate(l, p)
<1>1. /\ IsStore(store) /\ IsWork(w) /\ IsCursors(c) /\ IsValue(v)
      /\ PathsShow(store, w) /\ Counted(w, c, v) /\ Says(store, w, v)
  BY DEF Sound
<1>2. \A q \in Paths : w.paths[q] # Free => IsText(w.paths[q].text)
  BY <1>1 DEF IsWork, IsPath
<1>3. "temp" \notin ids /\ "main" \notin Rows /\ "main" \notin ids
  BY CursorAssumption DEF CursorAssumption
<1>4. w.paths[p].text = View /\ store.open
  <2>1. Shows(store, w.paths[p]) /\ (Len(w.paths[p].text) = 2 => w.paths[p].text[2] \in Nat)
    BY <1>1, <1>2, TextFacts DEF PathsShow, Now
  <2>2. \A n \in Nat : n < Len(store.rows) => store.rows[n + 1] \in Rows
    BY <1>1 DEF IsStore
  <2>3. "main" # "temp" /\ "main" \notin {"dropped", "missed"}
    OBVIOUS
  <2> QED BY <1>3, <2>1, <2>2, <2>3, Zenon DEF Shows
<1>5. /\ IsWork(l) /\ l.listed = w.listed /\ l.used = w.used /\ l.struck = w.struck
      /\ \A q \in Paths :
           /\ l.paths[q] = Free <=> w.paths[q] = Free
           /\ l.paths[q].refs = w.paths[q].refs
           /\ w.paths[q] # Free =>
                /\ l.paths[q].text = w.paths[q].text /\ l.paths[q].gen = w.paths[q].gen
                /\ l.paths[q].view = IF w.paths[q].view \in ids THEN "gone" ELSE w.paths[q].view
  <2>1. Left(w, ids, "gone", l)
    BY <1>1, LeaveFacts, Zenon
  <2> HIDE DEF l
  <2> QED BY <2>1 DEF Left
<1> HIDE DEF l
<1>6. /\ IsWork(u) /\ Narrowed(l, u) /\ u.listed = l.listed
      /\ \A q \in Paths : u.paths[q].refs = l.paths[q].refs
      /\ \A q \in l.listed.db :
           l.paths[p].text = View /\ store.open /\ Now(u, q) =>
             ~(Len(l.paths[q].text) = 2 /\ l.paths[q].text[1] = "db")
  BY <1>5, InvalidateFacts
<1> HIDE DEF u
<1>7. ASSUME NEW q \in Paths, Now(u, q)
      PROVE  /\ Now(w, q) /\ ~(Len(w.paths[q].text) = 2 /\ w.paths[q].text[1] = "db")
             /\ u.paths[q].text = w.paths[q].text /\ u.paths[q].view = w.paths[q].view
  <2>1. Now(l, q) /\ u.paths[q].text = l.paths[q].text /\ u.paths[q].view = l.paths[q].view
    BY <1>6, <1>7 DEF Narrowed, Now
  <2>2. /\ Now(w, q) /\ l.paths[q].text = w.paths[q].text
        /\ l.paths[q].view = IF w.paths[q].view \in ids THEN "gone" ELSE w.paths[q].view
    BY <1>5, <2>1 DEF Now
  <2>3. Shows(store, w.paths[q]) /\ (w.paths[q].text[1] = "db" => q \in l.listed.db)
    BY <1>1, <1>5, <2>2 DEF PathsShow
  <2>4. l.paths[p].text = View
    BY <1>4, <1>5 DEF Now
  <2>5. ~(Len(w.paths[q].text) = 2 /\ w.paths[q].text[1] = "db")
    BY <1>4, <1>6, <1>7, <2>2, <2>3, <2>4
  <2>6. w.paths[q].view \notin ids
    BY <1>3, <2>3, <2>5, Zenon DEF Shows
  <2> QED BY <2>1, <2>2, <2>5, <2>6
<1>8. Narrowed(w, u)
  <2>1. ASSUME NEW q \in Paths, u.paths[q] # Free
        PROVE  w.paths[q] # Free /\ u.paths[q].text = w.paths[q].text
    BY <1>5, <1>6, <2>1 DEF Narrowed
  <2>2. ASSUME NEW q \in Paths, u.paths[q] # Free, u.paths[q].gen = "now"
        PROVE  w.paths[q].gen = "now" /\ u.paths[q].view = w.paths[q].view
    BY <1>7, <2>2 DEF Now
  <2>3. ASSUME NEW q \in Paths, u.paths[q] # Free, q \notin u.struck,
               Len(u.paths[q].text) = 2, u.paths[q].text[1] = "_", u.paths[q].text[2] \in w.used
        PROVE  u.paths[q].text[2] \in u.used
    BY <1>5, <1>6, <2>3 DEF Narrowed
  <2>4. u.listed = w.listed /\ \A q \in Paths : u.paths[q] # Free /\ q \notin u.struck => q \notin w.struck
    BY <1>5, <1>6 DEF Narrowed
  <2> QED BY <2>1, <2>2, <2>3, <2>4 DEF Narrowed
<1>9. Sound(store, u, c, v)
  <2>1. Counted(u, c, v)
    BY <1>1, <1>5, <1>6 DEF Counted
  <2> QED BY <1>1, <1>6, <1>8, <2>1, NarrowedSound
<1>10. PathsShow(t, u)
  <2> SUFFICES ASSUME NEW q \in Paths, Now(u, q)
               PROVE  /\ Shows(t, u.paths[q])
                      /\ u.paths[q].text[1] = "db" => q \in u.listed.db
    BY DEF PathsShow
  <2>1. Shows(store, u.paths[q]) /\ (u.paths[q].text[1] = "db" => q \in u.listed.db)
    BY <1>9 DEF Sound, PathsShow
  <2>2. ~(Len(u.paths[q].text) = 2 /\ u.paths[q].text[1] = "db")
    BY <1>7
  <2> QED BY <2>1, <2>2, Zenon DEF Shows
<1>11. \A a : Says(store, u, a) => Says(t, u, a)
  BY DEF Says, Linked
<1> QED BY <1>9, <1>10, <1>11 DEF Sound, u, l

\* Elsewhere nothing but the marks is new.
LEMMA Struck ==
  ASSUME NEW s, NEW w, NEW c, NEW v, Sound(s, w, c, v), NEW p \in Paths
  PROVE  Sound(s, Invalidate(w, p), c, v)
<1>1. IsWork(w) /\ IsValue(v) /\ Says(s, w, v) /\ Counted(w, c, v)
  BY DEF Sound
<1>2. /\ IsWork(Invalidate(w, p)) /\ Narrowed(w, Invalidate(w, p))
      /\ \A q \in Paths : Invalidate(w, p).paths[q].refs = w.paths[q].refs
  BY <1>1, InvalidateFacts
<1>3. Counted(Invalidate(w, p), c, v)
  BY <1>1, <1>2 DEF Counted
<1> QED BY <1>1, <1>2, <1>3, NarrowedSound

-----------------------------------------------------------------------------
\* The value of a variable is looked up in its place.

\* SetCursorFromAny on a variable: its value is in hand from then on.
LEMMA TakenUp ==
  ASSUME NEW w, NEW c, Sound(store, w, c, NoValue), NEW x \in Vars,
         NEW r \in SetCursorFromAny(w, c[x])
  PROVE  /\ Sound(store, r.w, [c EXCEPT ![x] = NoValue], r.value)
         /\ r.value.path \in Paths /\ Now(r.w, r.value.path)
<1> DEFINE d == [c EXCEPT ![x] = NoValue]
           v == c[x]
<1>1. Sound(store, w, d, v)
  BY Exchanged
<1>2. r \in SetCursorFromAny(w, v)
  OBVIOUS
<1> HIDE DEF d, v
<1>3. /\ Sound(store, r.w, d, r.value)
      /\ r.value.path \in Paths /\ Now(r.w, r.value.path)
  BY <1>1, <1>2, CursorSet
<1> QED BY <1>3 DEF d

\* The value in hand goes back to the variable it is from.
LEMMA PutBack ==
  ASSUME NEW s, NEW w, NEW c, IsCursors(c), NEW x \in Vars, NEW v,
         Sound(s, w, [c EXCEPT ![x] = NoValue], v)
  PROVE  Sound(s, w, [c EXCEPT ![x] = v], NoValue)
<1> DEFINE d == [c EXCEPT ![x] = NoValue]
<1>1. c = [y \in Vars |-> c[y]]
  BY DEF IsCursors
<1>2. d[x] = NoValue /\ [d EXCEPT ![x] = v] = [c EXCEPT ![x] = v]
  BY <1>1
<1>3. Sound(s, w, d, v)
  OBVIOUS
<1> HIDE DEF d
<1>4. Sound(s, w, [d EXCEPT ![x] = v], d[x])
  BY <1>3, Exchanged
<1> QED BY <1>2, <1>4

\* A variable is given the value in hand, and the one that it had is freed.
LEMMA Given ==
  ASSUME NEW s, NEW w, NEW c, NEW v, Sound(s, w, c, v), NEW x \in Vars
  PROVE  Sound(s, FreeValue(w, c[x]), [c EXCEPT ![x] = v], NoValue)
<1> DEFINE d == [c EXCEPT ![x] = v]
           old == c[x]
<1>1. Sound(s, w, d, old)
  BY Exchanged
<1> HIDE DEF d, old
<1>2. Sound(s, FreeValue(w, old), d, NoValue)
  BY <1>1, Freed
<1> QED BY <1>2 DEF d, old

-----------------------------------------------------------------------------
\* The commands.

\* Commands that leave the storage as it is.
LEMMA SetVarKeeps ==
  ASSUME Inv, NEW x \in Vars, NEW name \in Names, SetVar(x, name)
  PROVE  Inv'
<1> DEFINE v == Value(name, None, -1)
<1>1. IsName(name)
  <2>1. /\ IsText(View) /\ \A n \in Nat : IsText(Sub(n))
    <3>1. ASSUME NEW n \in Nat PROVE IsText(Sub(n))
      BY TwoParts, Zenon DEF IsText, Sub
    <3> QED BY <3>1, Zenon DEF IsText
  <2>2. ASSUME NEW path, IsText(path), NEW i \in Int, i >= -1
        PROVE  IsName(Name(path, i))
    BY <2>2 DEF IsName, Name
  <2>3. MaxIndex \in Int /\ MaxIndex >= -1 /\ -1 \in Int /\ 0 \in Int /\ 0 >= -1 /\ -1 >= -1
    BY CursorAssumption DEF CursorAssumption
  <2>4. \/ name \in {Name(View, -1), Name(View, MaxIndex)}
        \/ \E n \in Nat : name = Name(Sub(n), 0)
    <3>1. \A n \in 0 .. Cardinality(Rows) - 1 : n \in Nat
      OBVIOUS
    <3> QED BY <3>1 DEF Names
  <2> QED BY <2>1, <2>2, <2>3, <2>4
<1>2. name # None
  BY CursorAssumption DEF CursorAssumption
<1>3. v.text = name /\ v.path = None /\ v.index = -1 /\ v = Value(v.text, v.path, v.index)
  BY DEF Value
<1> HIDE DEF v
<1>4. IsValue(v) /\ Says(store, work, v)
  BY <1>1, <1>2, <1>3 DEF IsValue, Says
<1>5. Sound(store, work, cursor, v)
  <2>1. Counted(work, cursor, v)
    BY <1>3, NoneInHand DEF Inv, Sound, NoValue, Value
  <2> QED BY <1>4, <2>1 DEF Inv, Sound
<1>6. Sound(store, FreeValue(work, cursor[x]), [cursor EXCEPT ![x] = v], NoValue)
  BY <1>5, Given
<1> QED BY <1>6 DEF SetVar, Inv, v

\* set y $x counts the path once more, before what y had is let go.
LEMMA CopyVarKeeps ==
  ASSUME Inv, NEW x \in Vars, NEW y \in Vars, CopyVar(x, y)
  PROVE  Inv'
<1>1. Sound(store, DupValue(work, cursor[x]), cursor, cursor[x])
  BY Duplicated DEF Inv
<1>2. Sound(store, FreeValue(DupValue(work, cursor[x]), cursor[y]),
            [cursor EXCEPT ![y] = cursor[x]], NoValue)
  BY <1>1, Given
<1> QED BY <1>2 DEF CopyVar, Inv

\* Printing gives the cursor its string.
LEMMA PrintVarKeeps ==
  ASSUME Inv, NEW x \in Vars, PrintVar(x)
  PROVE  Inv'
<1> DEFINE d == [cursor EXCEPT ![x] = NoValue]
           v == cursor[x]
           u == [v EXCEPT !.text = StringOf(work, v)]
<1>1. IsCursors(cursor) /\ cursor = [y \in Vars |-> cursor[y]]
  BY DEF Inv, Sound, IsCursors
<1>2. cursor' = [cursor EXCEPT ![x] = u]
  BY <1>1 DEF PrintVar
<1>3. Sound(store, work, d, v)
  BY Exchanged DEF Inv
<1> HIDE DEF v, d
<1>4. Sound(store, work, d, u)
  BY <1>3, Printed
<1> HIDE DEF u
<1>5. Sound(store, work, [cursor EXCEPT ![x] = u], NoValue)
  BY <1>1, <1>4, PutBack DEF d
<1> QED BY <1>2, <1>5 DEF PrintVar, Inv

\* A view is only read.
LEMMA GetCmdKeeps ==
  ASSUME Inv, NEW x \in Vars, GetCmd(x)
  PROVE  Inv'
<1>1. PICK r \in SetCursorFromAny(work, cursor[x]) :
        /\ work' = r.w /\ cursor' = [cursor EXCEPT ![x] = r.value] /\ store' = store
  BY DEF GetCmd
<1>2. Sound(store, r.w, [cursor EXCEPT ![x] = NoValue], r.value)
  BY TakenUp DEF Inv
<1>3. Sound(store, r.w, [cursor EXCEPT ![x] = r.value], NoValue)
  BY <1>2, PutBack DEF Inv, Sound
<1> QED BY <1>1, <1>3 DEF Inv

\* The cursor is moved in its place.
LEMMA CursorMoveKeeps ==
  ASSUME Inv, NEW x \in Vars, NEW i \in 0 .. MaxIndex, CursorMove(x, i)
  PROVE  Inv'
<1>1. PICK r \in SetCursorFromAny(work, cursor[x]) :
        /\ work' = r.w /\ cursor' = [cursor EXCEPT ![x] = WithIndex(r.value, i)] /\ store' = store
  BY DEF CursorMove
<1>2. /\ Sound(store, r.w, [cursor EXCEPT ![x] = NoValue], r.value)
      /\ r.value.path \in Paths
  BY TakenUp DEF Inv
<1>3. Sound(store, r.w, [cursor EXCEPT ![x] = NoValue], WithIndex(r.value, i))
  BY <1>2, Indexed
<1>4. Sound(store, r.w, [cursor EXCEPT ![x] = WithIndex(r.value, i)], NoValue)
  BY <1>3, PutBack DEF Inv, Sound
<1> QED BY <1>1, <1>4 DEF Inv

\* A copy of the cursor is moved, and given to y.
LEMMA CursorCreateKeeps ==
  ASSUME Inv, NEW x \in Vars, NEW y \in Vars, NEW i \in 0 .. MaxIndex, CursorCreate(x, y, i)
  PROVE  Inv'
<1>1. PICK r \in SetCursorFromAny(DupValue(work, cursor[x]), cursor[x]) :
        /\ work' = FreeValue(r.w, cursor[y])
        /\ cursor' = [cursor EXCEPT ![y] = WithIndex(r.value, i)]
        /\ store' = store
  BY DEF CursorCreate
<1>2. Sound(store, DupValue(work, cursor[x]), cursor, cursor[x])
  BY Duplicated DEF Inv
<1>3. Sound(store, r.w, cursor, r.value) /\ r.value.path \in Paths
  BY <1>2, CursorSet
<1>4. Sound(store, r.w, cursor, WithIndex(r.value, i))
  BY <1>3, Indexed
<1>5. Sound(store, FreeValue(r.w, cursor[y]), [cursor EXCEPT ![y] = WithIndex(r.value, i)], NoValue)
  BY <1>4, Given
<1> QED BY <1>1, <1>5 DEF Inv

\* A new temporary row.
LEMMA TempRowKeeps ==
  ASSUME Inv, NEW x \in Vars, TempRow(x)
  PROVE  Inv'
<1>1. PICK r \in TempPath(work, 0) :
        /\ work' = FreeValue(r.w, cursor[x])
        /\ cursor' = [cursor EXCEPT ![x] = Value(None, r.path, 0)]
        /\ store' = store
  BY DEF TempRow
<1> DEFINE v == Value(None, r.path, 0)
<1>2. v.text = None /\ v.path = r.path /\ v.index = 0 /\ v = Value(v.text, v.path, v.index)
  BY DEF Value
<1> HIDE DEF v
<1>3. IsValue(v)
  <2>1. r.path \in Paths
    BY TempPathFacts
  <2> QED BY <1>2, <2>1, CursorAssumption DEF IsValue, CursorAssumption
<1>4. Sound(store, r.w, cursor, v)
  BY <1>2, <1>3, TempPathSound DEF Inv
<1>5. Sound(store, FreeValue(r.w, cursor[x]), [cursor EXCEPT ![x] = v], NoValue)
  BY <1>4, Given
<1> QED BY <1>1, <1>5 DEF Inv, v

\* Rows with identities of their own, and the rows of a part of the view.
LEMMA RowsFacts ==
  ASSUME IsStore(store)
  PROVE  /\ Len(store.rows) \in Nat
         /\ \A n \in Nat : \A new \in FreshRows(n) : new \in Seq(Rows) /\ Len(new) = n
         /\ \A a, b \in Seq(Rows) :
              /\ a \o b \in Seq(Rows) /\ Len(a \o b) = Len(a) + Len(b)
              /\ \A k \in 1 .. Len(a) : (a \o b)[k] = a[k]
         /\ \A n \in 0 .. Len(store.rows) :
              /\ SubSeq(store.rows, 1, n) \in Seq(Rows) /\ Len(SubSeq(store.rows, 1, n)) = n
              /\ \A k \in 1 .. n : SubSeq(store.rows, 1, n)[k] = store.rows[k]
              /\ SubSeq(store.rows, n + 1, Len(store.rows)) \in Seq(Rows)
<1>1. store.rows \in Seq(Rows)
  BY DEF IsStore
<1>2. ASSUME NEW n \in Nat, NEW new \in FreshRows(n) PROVE new \in Seq(Rows) /\ Len(new) = n
  <2>1. new \in [1 .. n -> Rows]
    BY DEF FreshRows
  <2> QED BY <2>1
<1>3. ASSUME NEW a \in Seq(Rows), NEW b \in Seq(Rows)
      PROVE  /\ a \o b \in Seq(Rows) /\ Len(a \o b) = Len(a) + Len(b)
             /\ \A k \in 1 .. Len(a) : (a \o b)[k] = a[k]
  OBVIOUS
<1>4. ASSUME NEW n \in 0 .. Len(store.rows)
      PROVE  /\ SubSeq(store.rows, 1, n) \in Seq(Rows) /\ Len(SubSeq(store.rows, 1, n)) = n
             /\ \A k \in 1 .. n : SubSeq(store.rows, 1, n)[k] = store.rows[k]
             /\ SubSeq(store.rows, n + 1, Len(store.rows)) \in Seq(Rows)
  BY <1>1
<1> QED BY <1>1, <1>2, <1>3, <1>4

\* The storage with other rows.
LEMMA StoreFacts ==
  ASSUME IsStore(store), NEW rows \in Seq(Rows)
  PROVE  /\ IsStore([store EXCEPT !.rows = rows])
         /\ [store EXCEPT !.rows = rows].open = store.open
         /\ [store EXCEPT !.rows = rows].rows = rows
<1>1. store = [open |-> store.open, rows |-> store.rows] /\ store.open \in BOOLEAN
  BY DEF IsStore
<1>2. [store EXCEPT !.rows = rows] = [open |-> store.open, rows |-> rows]
  BY <1>1
<1> QED BY <1>1, <1>2 DEF IsStore

\* Rows are added at the end of the view.
LEMMA Extended ==
  ASSUME NEW w, NEW c, NEW v, Sound(store, w, c, v), NEW n \in Nat, NEW new \in FreshRows(n)
  PROVE  Sound([store EXCEPT !.rows = @ \o new], w, c, v)
<1> DEFINE rows == store.rows \o new
           t == [store EXCEPT !.rows = rows]
<1>1. IsStore(store) /\ store.rows \in Seq(Rows)
  BY DEF Sound, IsStore
<1>2. /\ new \in Seq(Rows) /\ rows \in Seq(Rows) /\ Len(rows) = Len(store.rows) + Len(new)
      /\ \A k \in 1 .. Len(store.rows) : rows[k] = store.rows[k]
  BY <1>1, RowsFacts
<1> HIDE DEF rows
<1>3. IsStore(t) /\ t.open = store.open /\ t.rows = rows
  BY <1>1, <1>2, StoreFacts
<1> HIDE DEF t
<1>4. Len(store.rows) <= Len(t.rows) /\ \A k \in 1 .. Len(store.rows) : t.rows[k] = store.rows[k]
  BY <1>1, <1>2, <1>3
<1>5. Sound(t, w, c, v)
  BY <1>3, <1>4, Grown
<1> QED BY <1>5 DEF t, rows

\* mk::set extends the view as far as the row.
LEMMA SetCmdKeeps ==
  ASSUME Inv, NEW x \in Vars, SetCmd(x)
  PROVE  Inv'
<1>1. PICK r \in SetCursorFromAny(work, cursor[x]) :
        /\ r.value.index >= Len(store.rows)
        /\ \E new \in FreshRows(r.value.index + 1 - Len(store.rows)) :
             store' = [store EXCEPT !.rows = @ \o new]
        /\ work' = r.w /\ cursor' = [cursor EXCEPT ![x] = r.value]
  BY DEF SetCmd
<1>2. /\ Sound(store, r.w, [cursor EXCEPT ![x] = NoValue], r.value)
  BY TakenUp DEF Inv
<1> DEFINE n == r.value.index + 1 - Len(store.rows)
<1>3. n \in Nat
  <2>1. r.value.index \in Int /\ Len(store.rows) \in Nat
    BY <1>2, RowsFacts DEF Sound, IsValue
  <2> QED BY <1>1, <2>1
<1>4. PICK new \in FreshRows(n) : store' = [store EXCEPT !.rows = @ \o new]
  BY <1>1
<1> HIDE DEF n
<1>5. Sound(store', r.w, [cursor EXCEPT ![x] = NoValue], r.value)
  BY <1>2, <1>3, <1>4, Extended
<1>6. Sound(store', r.w, [cursor EXCEPT ![x] = r.value], NoValue)
  BY <1>5, PutBack DEF Inv, Sound
<1> QED BY <1>1, <1>6 DEF Inv

\* mk::row append adds a row by way of a copy of the cursor.
LEMMA RowAppendKeeps ==
  ASSUME Inv, NEW x \in Vars, NEW y \in Vars, RowAppend(x, y)
  PROVE  Inv'
<1>1. PICK r \in SetCursorFromAny(DupValue(work, cursor[x]), cursor[x]) :
        /\ IF ViewOf(r.w, r.value) = "main"
             THEN \E new \in FreshRows(1) : store' = [store EXCEPT !.rows = @ \o new]
             ELSE store' = store
        /\ cursor' = [cursor EXCEPT ![y] =
             WithIndex(r.value, IF ViewOf(r.w, r.value) = "main" THEN Len(store.rows) ELSE 0)]
        /\ work' = FreeValue(r.w, cursor[y])
  BY DEF RowAppend
<1> DEFINE i == IF ViewOf(r.w, r.value) = "main" THEN Len(store.rows) ELSE 0
<1>2. Sound(store, DupValue(work, cursor[x]), cursor, cursor[x])
  BY Duplicated DEF Inv
<1>3. Sound(store, r.w, cursor, r.value) /\ r.value.path \in Paths
  BY <1>2, CursorSet
<1>4. Sound(store', r.w, cursor, r.value)
  <2>1. CASE ViewOf(r.w, r.value) = "main"
    <3>1. PICK new \in FreshRows(1) : store' = [store EXCEPT !.rows = @ \o new]
      BY <1>1, <2>1
    <3> QED BY <1>3, <3>1, Extended
  <2>2. CASE ViewOf(r.w, r.value) # "main"
    BY <1>1, <1>3, <2>2
  <2> QED BY <2>1, <2>2
<1>5. i \in Int
  BY RowsFacts DEF Inv, Sound
<1> HIDE DEF i
<1>6. Sound(store', r.w, cursor, WithIndex(r.value, i))
  BY <1>3, <1>4, <1>5, Indexed
<1>7. Sound(store', FreeValue(r.w, cursor[y]), [cursor EXCEPT ![y] = WithIndex(r.value, i)], NoValue)
  BY <1>6, Given
<1> QED BY <1>1, <1>7 DEF Inv, i

\* mk::view size leaves the paths as they are.
LEMMA SetSizeKeeps ==
  ASSUME Inv, NEW x \in Vars, NEW n \in 0 .. Cardinality(Rows), SetSize(x, n)
  PROVE  Inv'
<1>1. PICK r \in SetCursorFromAny(work, cursor[x]) :
        /\ IF n < Len(store.rows)
             THEN store' = [store EXCEPT !.rows = SubSeq(@, 1, n)]
             ELSE \E new \in FreshRows(n - Len(store.rows)) : store' = [store EXCEPT !.rows = @ \o new]
        /\ work' = Leave(r.w, {store.rows[k] : k \in n + 1 .. Len(store.rows)}, "dropped")
        /\ cursor' = [cursor EXCEPT ![x] = r.value]
  BY DEF SetSize
<1>2. /\ Sound(store, r.w, [cursor EXCEPT ![x] = NoValue], r.value)
  BY TakenUp DEF Inv
<1>3. IsStore(store) /\ store.rows \in Seq(Rows) /\ Len(store.rows) \in Nat /\ n \in Nat
  BY <1>2 DEF Sound, IsStore
<1>4. /\ IsStore(store') /\ store'.open = store.open
      /\ \A k \in 1 .. Len(store.rows) :
           k <= n => k <= Len(store'.rows) /\ store'.rows[k] = store.rows[k]
  <2>1. CASE n < Len(store.rows)
    <3> DEFINE rows == SubSeq(store.rows, 1, n)
    <3>1. rows \in Seq(Rows) /\ Len(rows) = n /\ \A k \in 1 .. n : rows[k] = store.rows[k]
      BY <1>3, <2>1, RowsFacts
    <3>2. store' = [store EXCEPT !.rows = rows]
      BY <1>1, <2>1
    <3> HIDE DEF rows
    <3>3. IsStore(store') /\ store'.open = store.open /\ store'.rows = rows
      BY <1>3, <3>1, <3>2, StoreFacts
    <3> QED BY <1>3, <3>1, <3>3
  <2>2. CASE ~(n < Len(store.rows))
    <3>1. PICK new \in FreshRows(n - Len(store.rows)) : store' = [store EXCEPT !.rows = @ \o new]
      BY <1>1, <2>2
    <3> DEFINE rows == store.rows \o new
               m == n - Len(store.rows)
    <3>2. m \in Nat /\ new \in FreshRows(m)
      BY <1>3, <2>2
    <3> HIDE DEF m
    <3>3. /\ rows \in Seq(Rows) /\ Len(rows) = Len(store.rows) + Len(new) /\ Len(new) \in Nat
          /\ \A k \in 1 .. Len(store.rows) : rows[k] = store.rows[k]
      BY <1>3, <3>2, RowsFacts
    <3> HIDE DEF rows
    <3>4. store' = [store EXCEPT !.rows = rows]
      BY <3>1 DEF rows
    <3>5. IsStore(store') /\ store'.open = store.open /\ store'.rows = rows
      BY <1>3, <3>3, <3>4, StoreFacts
    <3> QED BY <1>3, <3>3, <3>5
  <2> QED BY <2>1, <2>2
<1>5. Sound(store', work', [cursor EXCEPT ![x] = NoValue], r.value)
  BY <1>1, <1>2, <1>3, <1>4, Dropped
<1>6. Sound(store', work', [cursor EXCEPT ![x] = r.value], NoValue)
  BY <1>5, PutBack DEF Inv, Sound
<1> QED BY <1>1, <1>6 DEF Inv

\* mk::row delete: rows move, and the paths to subviews are marked.
LEMMA RowDeleteKeeps ==
  ASSUME Inv, NEW x \in Vars, NEW count \in 1 .. Cardinality(Rows), RowDelete(x, count)
  PROVE  Inv'
<1>1. PICK r \in SetCursorFromAny(work, cursor[x]) :
        /\ r.value.index >= 0
        /\ IF ViewOf(r.w, r.value) = "main"
             THEN /\ r.value.index + count <= Len(store.rows)
                  /\ store' = [store EXCEPT !.rows =
                       SubSeq(@, 1, r.value.index) \o SubSeq(@, r.value.index + count + 1, Len(@))]
                  /\ work' = Invalidate(Leave(r.w, {store.rows[k] : k \in r.value.index + 1 ..
                                                      r.value.index + count}, "gone"), r.value.path)
             ELSE work' = Invalidate(r.w, r.value.path) /\ store' = store
        /\ cursor' = [cursor EXCEPT ![x] = r.value]
  BY DEF RowDelete
<1> DEFINE d == [cursor EXCEPT ![x] = NoValue]
           p == r.value.path
           n == r.value.index
<1>2. Sound(store, r.w, d, r.value) /\ p \in Paths /\ Now(r.w, p)
  BY TakenUp DEF Inv
<1> HIDE DEF d
<1>3. IsStore(store) /\ store.rows \in Seq(Rows) /\ Len(store.rows) \in Nat /\ n \in Int
  BY <1>2 DEF Sound, IsStore, IsValue
<1>4. Sound(store', work', d, r.value)
  <2>1. CASE ViewOf(r.w, r.value) = "main"
    <3> DEFINE ids == {store.rows[k] : k \in n + 1 .. n + count}
               front == SubSeq(store.rows, 1, n)
               back == SubSeq(store.rows, n + count + 1, Len(store.rows))
               rows == front \o back
    <3>1. ids \in SUBSET Rows
      BY <1>1, <1>3, <2>1
    <3>2. front \in Seq(Rows) /\ back \in Seq(Rows)
      <4> DEFINE m == n + count
      <4>1. n \in 0 .. Len(store.rows) /\ m \in 0 .. Len(store.rows)
        BY <1>1, <1>3, <2>1
      <4> HIDE DEF n, m
      <4>2. front \in Seq(Rows) /\ SubSeq(store.rows, m + 1, Len(store.rows)) \in Seq(Rows)
        BY <1>3, <4>1, RowsFacts
      <4> QED BY <4>2 DEF m
    <3>3. store' = [store EXCEPT !.rows = rows]
      BY <1>1, <2>1
    <3>4. work' = Invalidate(Leave(r.w, ids, "gone"), p)
      BY <1>1, <2>1
    <3>5. r.w.paths[p].view = "main"
      BY <2>1 DEF ViewOf
    <3> HIDE DEF ids, front, back, p
    <3>6. rows \in Seq(Rows)
      BY <3>2
    <3> HIDE DEF rows
    <3>7. IsStore(store') /\ store'.open = store.open
      BY <1>3, <3>3, <3>6, StoreFacts
    <3> QED BY <1>2, <3>1, <3>4, <3>5, <3>7, Shifted
  <2>2. CASE ViewOf(r.w, r.value) # "main"
    <3>1. work' = Invalidate(r.w, p) /\ store' = store
      BY <1>1, <2>2
    <3> HIDE DEF p
    <3> QED BY <1>2, <3>1, Struck
  <2> QED BY <2>1, <2>2
<1>5. Sound(store', work', [cursor EXCEPT ![x] = r.value], NoValue)
  BY <1>4, PutBack DEF Inv, Sound, d
<1> QED BY <1>1, <1>5 DEF Inv

\* mk::row insert: rows move, and the paths to subviews are marked, or, where it
\* fails, missed.
LEMMA RowInsertKeeps ==
  ASSUME Inv, NEW x \in Vars, NEW count \in 1 .. Cardinality(Rows), RowInsert(x, count)
  PROVE  Inv'
<1>1. PICK r \in SetCursorFromAny(work, cursor[x]) :
        /\ r.value.index >= 0
        /\ IF ViewOf(r.w, r.value) = "main"
             THEN /\ r.value.index <= Len(store.rows)
                  /\ \E new \in FreshRows(count) :
                       store' = [store EXCEPT !.rows =
                         SubSeq(@, 1, r.value.index) \o new \o SubSeq(@, r.value.index + 1, Len(@))]
             ELSE store' = store
        /\ \/ work' = Invalidate(r.w, r.value.path)
           \/ work' = Leave(r.w, IF ViewOf(r.w, r.value) = "main"
                                   THEN {store.rows[k] : k \in r.value.index + 1 .. Len(store.rows)}
                                   ELSE {}, "missed")
        /\ cursor' = [cursor EXCEPT ![x] = r.value]
  BY DEF RowInsert
<1> DEFINE d == [cursor EXCEPT ![x] = NoValue]
           p == r.value.path
           n == r.value.index
<1>2. Sound(store, r.w, d, r.value) /\ p \in Paths /\ Now(r.w, p)
  BY TakenUp DEF Inv
<1> HIDE DEF d
<1>3. /\ IsStore(store) /\ store.rows \in Seq(Rows) /\ Len(store.rows) \in Nat /\ n \in Int
      /\ IsWork(r.w)
  BY <1>2 DEF Sound, IsStore, IsValue
<1>4. Sound(store', work', d, r.value)
  <2>1. CASE ViewOf(r.w, r.value) = "main"
    <3>1. PICK new \in FreshRows(count) :
            store' = [store EXCEPT !.rows =
              SubSeq(@, 1, r.value.index) \o new \o SubSeq(@, r.value.index + 1, Len(@))]
      BY <1>1, <2>1
    <3> DEFINE front == SubSeq(store.rows, 1, n)
               back == SubSeq(store.rows, n + 1, Len(store.rows))
               longer == front \o new
               rows == longer \o back
               moved == {store.rows[k] : k \in n + 1 .. Len(store.rows)}
    <3>2. /\ front \in Seq(Rows) /\ back \in Seq(Rows) /\ new \in Seq(Rows)
          /\ Len(front) = n /\ Len(new) = count /\ n \in Nat /\ count \in Nat
          /\ \A k \in 1 .. n : front[k] = store.rows[k]
      <4>1. n \in 0 .. Len(store.rows) /\ count \in Nat
        BY <1>1, <1>3, <2>1
      <4> HIDE DEF n
      <4> QED BY <1>3, <4>1, RowsFacts
    <3>3. store' = [store EXCEPT !.rows = rows]
      BY <3>1
    <3>4. \/ work' = Invalidate(Leave(r.w, {}, "gone"), p)
          \/ work' = Leave(r.w, moved, "missed")
      BY <1>1, <1>3, <2>1, NothingLeaves
    <3>5. r.w.paths[p].view = "main" /\ {} \in SUBSET Rows
      BY <2>1 DEF ViewOf
    <3> HIDE DEF front, back, p, n
    <3>6. longer \in Seq(Rows) /\ Len(longer) = n + count /\ \A k \in 1 .. n : longer[k] = front[k]
      BY <1>3, <3>2, RowsFacts
    <3> HIDE DEF longer
    <3>7. /\ rows \in Seq(Rows) /\ Len(rows) = n + count + Len(back) /\ Len(back) \in Nat
          /\ \A k \in 1 .. Len(longer) : rows[k] = longer[k]
      <4>1. Len(back) \in Nat
        BY <3>2
      <4>2. \A a, b \in Seq(Rows) :
              /\ a \o b \in Seq(Rows) /\ Len(a \o b) = Len(a) + Len(b)
              /\ \A k \in 1 .. Len(a) : (a \o b)[k] = a[k]
        BY <1>3, RowsFacts
      <4>3. /\ rows \in Seq(Rows) /\ Len(rows) = Len(longer) + Len(back)
            /\ \A k \in 1 .. Len(longer) : rows[k] = longer[k]
        BY <3>2, <3>6, <4>2, Zenon
      <4> QED BY <3>2, <3>6, <4>1, <4>3
    <3> HIDE DEF rows
    <3>8. IsStore(store') /\ store'.open = store.open /\ store'.rows = rows
      BY <1>3, <3>3, <3>7, StoreFacts
    <3>9. CASE work' = Invalidate(Leave(r.w, {}, "gone"), p)
      BY <1>2, <3>5, <3>8, <3>9, Shifted
    <3>10. CASE work' = Leave(r.w, moved, "missed")
      <4>1. \A k \in 1 .. Len(store.rows) :
              k <= n => k <= Len(store'.rows) /\ store'.rows[k] = store.rows[k]
        BY <3>2, <3>6, <3>7, <3>8
      <4> QED BY <1>2, <3>2, <3>8, <3>10, <4>1, Dropped
    <3> QED BY <3>4, <3>9, <3>10
  <2>2. CASE ViewOf(r.w, r.value) # "main"
    <3>1. (work' = Invalidate(r.w, p) \/ work' = r.w) /\ store' = store
      BY <1>1, <1>3, <2>2, NothingLeaves
    <3> HIDE DEF p
    <3> QED BY <1>2, <3>1, Struck
  <2> QED BY <2>1, <2>2
<1>5. Sound(store', work', [cursor EXCEPT ![x] = r.value], NoValue)
  BY <1>4, PutBack DEF Inv, Sound, d
<1> QED BY <1>1, <1>5 DEF Inv

\* A workspace that a command has damaged says so.
LEMMA DamagedFacts ==
  ASSUME NEW w, IsWork(w)
  PROVE  /\ [w EXCEPT !.state = "damaged"].state = "damaged"
         /\ [w EXCEPT !.state = "sound"] = w
BY DEF IsWork

\* mk::row append fails: the copy is let go, and the workspace is as before, or
\* damaged.
LEMMA RowAppendFailsKeeps ==
  ASSUME Inv, NEW x \in Vars, RowAppendFails(x)
  PROVE  work'.state = "damaged" \/ Inv'
<1>1. PICK r \in SetCursorFromAny(DupValue(work, cursor[x]), cursor[x]), e \in {"sound", "damaged"} :
        work' = [FreeValue(r.w, r.value) EXCEPT !.state = e]
  BY DEF RowAppendFails
<1>2. store' = store /\ cursor' = cursor
  BY DEF RowAppendFails
<1>3. Sound(store, DupValue(work, cursor[x]), cursor, cursor[x])
  BY Duplicated DEF Inv
<1>4. Sound(store, r.w, cursor, r.value)
  BY <1>3, CursorSet
<1> DEFINE w == FreeValue(r.w, r.value)
<1>5. Sound(store, w, cursor, NoValue)
  BY <1>4, Freed
<1>6. work' = [w EXCEPT !.state = e]
  BY <1>1
<1> HIDE DEF w
<1>7. IsWork(w)
  BY <1>5 DEF Sound
<1>8. work'.state = "damaged" \/ work' = w
  BY <1>6, <1>7, DamagedFacts
<1> QED BY <1>2, <1>5, <1>8 DEF Inv

\* mk::cursor fails: the workspace is damaged.
LEMMA CursorFailsKeeps ==
  ASSUME Inv, NEW x \in Vars, CursorFails(x)
  PROVE  work'.state = "damaged"
<1>1. PICK r \in SetCursorFromAny(DupValue(work, cursor[x]), cursor[x]) :
        work' = [FreeValue(FreeValue(r.w, r.value), cursor[x]) EXCEPT !.state = "damaged"]
  BY DEF CursorFails
<1>2. Sound(store, DupValue(work, cursor[x]), cursor, cursor[x])
  BY Duplicated DEF Inv
<1>3. Sound(store, r.w, cursor, r.value)
  BY <1>2, CursorSet
<1> DEFINE u == FreeValue(r.w, r.value)
           w == FreeValue(u, cursor[x])
<1>4. Sound(store, u, cursor, NoValue)
  BY <1>3, Freed
<1>5. work' = [w EXCEPT !.state = "damaged"]
  BY <1>1
<1> HIDE DEF u
<1>6. IsWork(w)
  <2>1. IsWork(u) /\ IsCursors(cursor) /\ Counted(u, cursor, NoValue) /\ IsValue(cursor[x])
    BY <1>4 DEF Sound, IsCursors
  <2>2. CASE cursor[x].path = None
    BY <2>1, <2>2 DEF FreeValue
  <2>3. CASE cursor[x].path # None
    <3>1. cursor[x].path \in Paths /\ u.paths[cursor[x].path] # Free
      BY <2>1, <2>3, HeldIsLive DEF IsValue
    <3> QED BY <2>1, <2>3, <3>1, ReleaseFacts DEF FreeValue
  <2> QED BY <2>2, <2>3
<1> HIDE DEF w
<1> QED BY <1>5, <1>6, DamagedFacts

\* Any rows are rows.
LEMMA AnyRowsFacts ==
  ASSUME NEW rows \in AnyRows
  PROVE  rows \in Seq(Rows)
<1>1. PICK n \in 0 .. Cardinality(Rows) : rows \in [1 .. n -> Rows]
  BY DEF AnyRows
<1> QED BY <1>1

\* The commands on files.
LEMMA FileKeeps ==
  ASSUME Inv, FileOpen \/ FileClose \/ FileReload \/ FileCommit \/ OtherFile
  PROVE  Inv'
<1>1. /\ IsStore(store) /\ IsWork(work) /\ TempPathsOwn(work) /\ IsCursors(cursor)
      /\ IsValue(NoValue) /\ Counted(work, cursor, NoValue)
  BY DEF Inv, Sound
<1>2. CASE FileOpen
  <2>1. IsStore(store')
    BY <1>2, AnyRowsFacts DEF FileOpen, IsStore
  <2> QED BY <1>1, <1>2, <2>1, Aged DEF FileOpen, Inv
<1>3. CASE FileClose
  <2>1. IsStore(store')
    BY <1>3 DEF FileClose, IsStore
  <2> QED BY <1>3, <2>1, Closed DEF FileClose, Inv
<1>4. CASE FileReload
  <2>1. IsStore(store')
    BY <1>1, <1>4, AnyRowsFacts, StoreFacts DEF FileReload
  <2> QED BY <1>1, <1>4, <2>1, Aged DEF FileReload, ForceRefresh, Inv
<1>5. CASE FileCommit
  BY <1>1, <1>5, Aged DEF FileCommit, ForceRefresh, Inv
<1>6. CASE OtherFile
  BY <1>1, <1>6, Aged DEF OtherFile, Inv
<1> QED BY <1>2, <1>3, <1>4, <1>5, <1>6

-----------------------------------------------------------------------------
\* What holds all the time.

\* At first no cursor has a path.
LEMMA InitSound == Init => Inv
<1> SUFFICES ASSUME Init PROVE Inv
  OBVIOUS
<1> DEFINE free == [p \in Paths |-> Free]
           none == [db |-> {}, temp |-> {}]
<1>1. store.open = FALSE /\ store.rows = <<>> /\ store = [open |-> store.open, rows |-> store.rows]
  BY DEF Init
<1>2. work = [paths |-> free, listed |-> none, used |-> {}, struck |-> {},
                    state |-> "sound"] /\ cursor = [x \in Vars |-> NoValue]
  BY DEF Init, NoValue
<1>3. work.paths = free /\ work.listed = none /\ work.listed.db = {} /\ work.listed.temp = {}
  BY <1>2
<1>4. \A p \in Paths : work.paths[p] = Free
  BY <1>3
<1>5. IsStore(store)
  <2>1. <<>> \in Seq(Rows)
    OBVIOUS
  <2> QED BY <1>1, <2>1, Zenon DEF IsStore
<1>6. IsWork(work)
  BY <1>2, <1>3, <1>4 DEF IsWork
<1>7. NoValue.text = Name(View, -1) /\ NoValue.path = None /\ NoValue.index = -1
  BY DEF NoValue, Value
<1>8. IsValue(NoValue)
  <2>1. Name(View, -1) # None /\ IsName(Name(View, -1))
    BY CursorAssumption DEF CursorAssumption, Names, IsName, Name, IsText
  <2> QED BY <1>7, <2>1 DEF IsValue, NoValue, Value
<1>9. IsCursors(cursor) /\ \A x \in Vars : cursor[x] = NoValue
  BY <1>2, <1>8 DEF IsCursors
<1>10. PathsShow(store, work) /\ TempPathsOwn(work)
  BY <1>4 DEF PathsShow, TempPathsOwn, Now
<1>11. Says(store, work, NoValue)
  BY <1>7 DEF Says
<1>12. Counted(work, cursor, NoValue)
  <2> SUFFICES ASSUME NEW p \in Paths PROVE work.paths[p].refs = Holders(cursor, p)
    BY <1>7, NoneInHand
  <2>1. None # p
    BY CursorAssumption DEF CursorAssumption
  <2>2. {x \in Vars : cursor[x].path = p} = {}
    BY <1>7, <1>9, <2>1
  <2>3. Holders(cursor, p) = 0
    BY <2>2, FS_EmptySet DEF Holders
  <2> QED BY <1>4, <2>3 DEF Free
<1> QED BY <1>5, <1>6, <1>8, <1>9, <1>10, <1>11, <1>12 DEF Inv, Sound

\* Every command keeps the invariant, or damages the workspace.
LEMMA CommandsSound == Inv /\ Commands => work'.state = "damaged" \/ Inv'
<1> SUFFICES ASSUME Inv, Commands PROVE work'.state = "damaged" \/ Inv'
  OBVIOUS
<1>1. ASSUME NEW x \in Vars,
             \/ \E name \in Names : SetVar(x, name)
             \/ PrintVar(x) \/ GetCmd(x) \/ SetCmd(x) \/ TempRow(x)
             \/ \E n \in 1 .. Cardinality(Rows) : RowDelete(x, n) \/ RowInsert(x, n)
             \/ \E n \in 0 .. Cardinality(Rows) : SetSize(x, n)
             \/ \E i \in 0 .. MaxIndex : CursorMove(x, i)
             \/ \E y \in Vars : CopyVar(x, y) \/ RowAppend(x, y)
             \/ \E y \in Vars, i \in 0 .. MaxIndex : CursorCreate(x, y, i)
      PROVE  Inv'
  BY <1>1, SetVarKeeps, PrintVarKeeps, GetCmdKeeps, SetCmdKeeps, TempRowKeeps, RowDeleteKeeps,
     RowInsertKeeps, SetSizeKeeps, CursorMoveKeeps, CopyVarKeeps, RowAppendKeeps, CursorCreateKeeps
<1>2. ASSUME NEW x \in Vars, RowAppendFails(x) \/ CursorFails(x)
      PROVE  work'.state = "damaged" \/ Inv'
  BY <1>2, RowAppendFailsKeeps, CursorFailsKeeps
<1>3. CASE FileOpen \/ FileClose \/ FileReload \/ FileCommit \/ OtherFile
  BY <1>3, FileKeeps
<1> QED BY <1>1, <1>2, <1>3 DEF Commands

\* The invariant of the specification: a workspace that is not damaged is sound.
LEMMA AlwaysSound == Spec => [](work.state = "damaged" \/ Inv)
<1>1. Init => Inv
  BY InitSound
<1>2. (work.state = "damaged" \/ Inv) /\ [Next]_vars => (work.state = "damaged" \/ Inv)'
  <2> SUFFICES ASSUME work.state = "damaged" \/ Inv, [Next]_vars PROVE work'.state = "damaged" \/ Inv'
    OBVIOUS
  <2>1. CASE UNCHANGED vars
    BY <2>1 DEF vars, Inv
  <2>2. CASE work.state = "sound" /\ Commands
    BY <2>2, CommandsSound
  <2>3. CASE Undefined
    BY <2>3 DEF Undefined, vars
  <2> QED BY <2>1, <2>2, <2>3 DEF Next
<1> QED BY <1>1, <1>2, PTL DEF Spec

\* MkPath counts the cursors that have it, through every copy, release and
\* relookup of MkWorkspace and of Tcl (mk4tcl.cpp): it is neither freed while a
\* cursor has it nor kept when none has, until mk::cursor or mk::row append fails in
\* the way that damages the workspace.
THEOREM PathsAreCounted == Spec => []RefsCounted
<1>1. work.state = "damaged" \/ Inv => RefsCounted
  <2> SUFFICES ASSUME Inv, NEW p \in Paths
               PROVE  work.paths[p].refs = Cardinality({x \in Vars : cursor[x].path = p})
    BY DEF RefsCounted
  <2>1. Counted(work, cursor, NoValue) /\ NoValue.path = None
    BY DEF Inv, Sound, NoValue, Value
  <2> QED BY <2>1, NoneInHand DEF Holders
<1> QED BY <1>1, AlwaysSound, PTL

\* MkWorkspace::AllocTempRow and ForgetPath: a temporary row is flagged as long as
\* it has a path, and never has two, but for paths whose flag a shortened path has
\* struck, and in a damaged workspace.
THEOREM TempRowsAreOwned == Spec => []TempRowsOwned
<1>1. work.state = "damaged" \/ Inv => TempRowsOwned
  <2> SUFFICES ASSUME Inv, NEW p \in Paths \ work.struck, Live(p),
                      Find(work.paths[p].text) = "temp", Len(work.paths[p].text) = 2
               PROVE  /\ work.paths[p].text[2] \in work.used
                      /\ \A q \in Paths \ (work.struck \cup {p}) :
                           Live(q) => work.paths[q].text # work.paths[p].text
    BY DEF TempRowsOwned
  <2>1. work.paths[p].text[1] = "_"
    BY TextFacts, FindFacts DEF Inv, Sound, IsWork, IsPath, Live
  <2> QED BY <2>1 DEF Inv, Sound, TempPathsOwn, Live
<1> QED BY <1>1, AlwaysSound, PTL

\* "Cursors are equivalent to strings": the view and the row that a cursor keeps
\* are those that its string leads to, whatever commands other cursors and the
\* storage have seen since it was looked up, but for subviews whose row a change of
\* size took or a mk::row insert that failed has moved, and in a damaged workspace.
THEOREM CursorsAlwaysFollowStrings == Spec => []CursorsFollowStrings
<1>1. work.state = "damaged" \/ Inv => CursorsFollowStrings
  <2> SUFFICES ASSUME Inv, NEW x \in Vars,
                      cursor[x].path # None, work.paths[cursor[x].path].gen = "now"
               PROVE  LET value == cursor[x]
                          name == StringOf(work, value)
                          view == ViewOf(work, value)
                      IN  \/ view \in {"dropped", "missed"}
                          \/ Find(name.path) # "db" /\ view = "temp"
                          \/ /\ Defined(name.path) /\ view = Lookup(name.path)
                             /\ name.index = (IF value.index < 0 THEN -1 ELSE value.index)
    BY DEF CursorsFollowStrings
  <2> DEFINE v == cursor[x]
             r == work.paths[v.path]
             name == StringOf(work, v)
  <2>1. /\ IsValue(v) /\ Says(store, work, v) /\ v.path \in Paths /\ r # Free
        /\ Shows(store, r) /\ IsText(r.text) /\ IsStore(store)
    <3>1. IsValue(v) /\ Says(store, work, v) /\ IsStore(store) /\ v.path \in Paths
      BY DEF Inv, Sound, IsCursors, IsValue
    <3>2. r # Free
      BY <3>1, HeldIsLive DEF Inv, Sound
    <3> QED BY <3>1, <3>2 DEF Inv, Sound, PathsShow, Now, IsWork, IsPath
  <2>2. v.index \in Int /\ RowNumber(v.index) = (IF v.index < 0 THEN -1 ELSE v.index)
    BY <2>1 DEF IsValue, RowNumber
  <2>3. \/ name = Name(r.text, RowNumber(v.index))
        \/ ~(name.path[1] = "db" /\ store.open) /\ IsName(name) /\ r.view = "temp"
    <3>1. CASE v.text = None
      <4>1. name = Name(r.text, IF v.index >= 0 THEN v.index ELSE -1)
        BY <3>1 DEF StringOf
      <4>2. (IF v.index >= 0 THEN v.index ELSE -1) = RowNumber(v.index)
        BY <2>2
      <4> QED BY <4>1, <4>2
    <3>2. CASE v.text # None
      <4>1. name = v.text
        BY <3>2 DEF StringOf
      <4> QED BY <2>1, <3>2, <4>1 DEF Says, Linked, IsValue
    <3> QED BY <3>1, <3>2
  <2>4. ViewOf(work, v) = r.view
    BY DEF ViewOf
  <2> HIDE DEF name, r
  <2>5. CASE ~(name.path[1] = "db" /\ store.open) /\ IsName(name) /\ r.view = "temp"
    <3>1. Find(name.path) # "db"
      BY <2>5, FindFacts DEF IsName
    <3> QED BY <2>4, <2>5, <3>1 DEF name
  <2>6. CASE name = Name(r.text, RowNumber(v.index))
    <3>1. name.path = r.text /\ name.index = RowNumber(v.index)
      BY <2>6 DEF Name
    <3>2. CASE r.text[1] \in {"_", "?"} /\ r.view = "temp"
      <4>1. Find(r.text) # "db"
        BY <2>1, <3>2, FindFacts
      <4> QED BY <2>4, <3>1, <3>2, <4>1 DEF name
    <3>3. CASE r.text = View /\ store.open /\ r.view = "main"
      <4>1. Find(r.text) = "db" /\ Find(r.text) # None /\ Len(r.text) # 2
        BY <2>1, <3>3, FindFacts, TextFacts, CursorAssumption DEF CursorAssumption
      <4>2. Defined(r.text)
        BY <4>1 DEF Defined
      <4>3. Find(r.text) # "temp"
        BY <4>1
      <4>4. Lookup(r.text) = "main"
        BY <3>3, <4>1, <4>3, Zenon DEF Lookup
      <4> QED BY <2>2, <2>4, <3>1, <3>3, <4>2, <4>4 DEF name
    <3>4. CASE /\ Len(r.text) = 2 /\ r.text[1] = "db" /\ store.open
               /\ r.text[2] < Len(store.rows) /\ r.view = store.rows[r.text[2] + 1]
      <4>1. Find(r.text) = "db" /\ Find(r.text) # None /\ r.text # View
        BY <2>1, <3>4, FindFacts, TextFacts, CursorAssumption DEF CursorAssumption
      <4>2. Defined(r.text)
        BY <3>4 DEF Defined
      <4>3. Find(r.text) # "temp"
        BY <4>1
      <4>4. Lookup(r.text) = store.rows[r.text[2] + 1]
        BY <4>1, <4>3, Zenon DEF Lookup
      <4> QED BY <2>2, <2>4, <3>1, <3>4, <4>2, <4>4 DEF name
    <3> QED BY <2>1, <2>4, <3>2, <3>3, <3>4, Zenon DEF Shows
  <2> QED BY <2>3, <2>5, <2>6
<1> QED BY <1>1, AlwaysSound, PTL
=============================================================================
