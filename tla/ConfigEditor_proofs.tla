------------------------- MODULE ConfigEditor_proofs -------------------------
(***************************************************************************)
(* Proofs about the editor, for any XML files, any subknobs and texts, any *)
(* command line and any number of events.  That the parts of the           *)
(* application fit together is proved whatever VariableList.py makes of    *)
(* the texts and lists and wherever it raises; that the copies of a value  *)
(* are in step is proved from laws of its functions (Lawful).              *)
(***************************************************************************)
EXTENDS ConfigEditor, Induction_proofs

-----------------------------------------------------------------------------
(* The inductive invariant *)

IsObject(c) == DOMAIN c = {"xml", "vals", "shim"} /\ c.xml \in DOMAIN knobs

\* What the fields of the record hold, each by itself.
AppTypeOK(e) ==
  /\ DOMAIN e = {"objs", "files", "tree", "pmap", "plist", "sel", "cur", "total", "wid", "menu", "path",
                 "dflt", "err"}
  /\ \E S : e.objs \in Seq(S)
  /\ \A o \in 1..Len(e.objs) : IsObject(e.objs[o])
  /\ e.files \in Seq([id : Nat, obj : Nat]) /\ \A n \in 1..Len(e.files) : e.files[n].obj <= Len(e.objs)
  /\ e.cur \in Nat /\ e.total \in Nat
  /\ DOMAIN e.wid = {"page", "fid", "obj", "text", "typed"}

\* The tree, the two maps and the objects: each page of the tree is listed for an
\* object made from an XML file that has that page.
TreeFits(e) ==
  /\ \A page \in e.tree :
       /\ page \in DOMAIN e.pmap /\ page \in DOMAIN e.plist
       /\ e.plist[page] \in 1..Len(e.objs) /\ page \in PagesOf(e.objs[e.plist[page]].xml)
  /\ e.sel = None \/ e.sel \in e.tree

\* A page that is shown is in the tree and of the object its fields were made from,
\* and it has a field.
Showing(e) ==
  /\ e.wid.page \in e.tree /\ e.wid.obj \in 1..Len(e.objs)
  /\ e.wid.page \in PagesOf(e.objs[e.wid.obj].xml)
  /\ \E i \in DOMAIN e.wid.text : TRUE
PageFits(e) == e.wid = NoWidgets \/ Showing(e)

AppFits(e) == AppTypeOK(e) /\ TreeFits(e) /\ PageFits(e)

\* The files are numbered as they were opened, and the pages belong to them.
Owned(e) ==
  \A page \in e.tree : \E n \in 1..Len(e.files) : e.files[n] = [id |-> e.pmap[page], obj |-> e.plist[page]]
Belongs(e) == (\A n \in 1..Len(e.files) : e.files[n].id = n - 1) /\ Owned(e)

\* An XML file is still to be opened by the command line.
XmlComes(line) ==
  \E j \in 1..Len(line) : line[j].kind = "xml" /\ \A i \in 1..(j - 1) : line[i].kind # "other"

\* A command line that names its XML files before any other file: with one behind
\* a .csv or .vl file the ids have a gap, and a file that is opened later takes the
\* id, and the place, of one that is open.
XmlFirst(line) ==
  \A j \in 1..Len(line) :
    line[j].kind = "xml" /\ (\A i \in 1..(j - 1) : line[i].kind # "other") =>
      \A i \in 1..(j - 1) : line[i].kind = "xml"

\* The arguments are left in the order of the command line.
ArgsFit == DOMAIN args = {"left", "idx"} /\ args.idx \in Nat /\ args.left \in Seq(Arguments)

\* The editor saves lists of settings.
DiskFits == DOMAIN disk = {"bin", "svd", "csv"} /\ (disk.svd # None => Len(disk.svd) \in Nat)

IInv == AppFits(ed) /\ ArgsFit /\ DiskFits

\* For command lines that name the XML files first.
FilesFit ==
  /\ Belongs(ed) /\ XmlFirst(args.left)
  /\ XmlComes(args.left) => args.idx = Len(ed.files)

\* What VariableList.py packs is a list, or it raises.
IsList(list) == list = Error \/ \E S : list \in Seq(S)
PacksLists ==
  \A x \in DOMAIN knobs : \A vals : IsList(vlist_to_binary(x, vals)) /\ IsList(get_delta_vlist(x, vals))

-----------------------------------------------------------------------------
(* The loops of the editor, as steps *)

(***************************************************************************)
(* The settings of an SVD file one after the other.                        *)
(***************************************************************************)
LEMMA LoadFromSvdSteps ==
  ASSUME NEW c, NEW settings, Len(settings) \in Nat
  PROVE  \E f : /\ f[0] = [cfg |-> c, err |-> FALSE] /\ LoadFromSvd(c, settings) = f[Len(settings)]
                /\ \A n \in 1..Len(settings) : f[n] = LoadSetting(f[n - 1], settings[n])
<1> DEFINE N == Len(settings)
           Base == [cfg |-> c, err |-> FALSE]
           Step(p, n) == LoadSetting(p, settings[n])
           Is(f, m) == f = [n \in 0..m |-> IF n = 0 THEN Base ELSE Step(f[n - 1], n)]
           T == {m \in 0..N : \E f : Is(f, m)}
<1>1. 0 \in T
  <2> DEFINE g == [n \in 0..0 |-> Base]
  <2>1. Is(g, 0)
    <3> HIDE DEF Base, Step
    <3> QED OBVIOUS
  <2>2. \E f : Is(f, 0)
    <3> HIDE DEF Is, g
    <3> QED BY <2>1
  <2> HIDE DEF Is
  <2> QED BY <2>2
<1>2. ASSUME NEW m \in 1..N, m - 1 \in T
      PROVE  m \in T
  <2>1. PICK f : Is(f, m - 1)
    <3> HIDE DEF Is
    <3> QED BY <1>2
  <2> HIDE DEF N, Base, Step
  <2> DEFINE g == [n \in 0..m |-> IF n = m THEN Step(f[m - 1], m) ELSE f[n]]
  <2>2. ASSUME NEW n \in 0..m
        PROVE  g[n] = IF n = 0 THEN Base ELSE Step(g[n - 1], n)
    <3>1. n # 0 => n - 1 \in 0..m /\ n - 1 # m /\ g[n - 1] = f[n - 1]
      OBVIOUS
    <3>2. CASE n = m
      BY <3>1, <3>2
    <3>3. CASE n # m
      <4>1. n \in 0..(m - 1) /\ g[n] = f[n]
        BY <3>3
      <4>2. f[n] = IF n = 0 THEN Base ELSE Step(f[n - 1], n)
        BY <2>1, <4>1
      <4> QED BY <3>1, <4>1, <4>2
    <3> QED BY <3>2, <3>3
  <2>3. Is(g, m)
    BY <2>2
  <2>4. \E h : Is(h, m)
    <3> HIDE DEF Is, g
    <3> QED BY <2>3
  <2> HIDE DEF Is
  <2> QED BY <2>4
<1>3. PICK f : Is(f, N)
  <2> HIDE DEF Is
  <2>1. N \in T
    <3> HIDE DEF T
    <3>1. 0..N \subseteq T
      BY <1>1, <1>2, BoundedInduction
    <3> QED BY <3>1
  <2> QED BY <2>1
<1> DEFINE h == CHOOSE f_1 : Is(f_1, N)
<1>4. LoadFromSvd(c, settings) = h[N]
  BY DEF LoadFromSvd
<1>5. Is(h, N)
  <2> HIDE DEF Is
  <2> QED BY <1>3
<1>6. h[0] = Base /\ \A n \in 1..N : h[n] = Step(h[n - 1], n)
  <2> HIDE DEF h, Base, Step
  <2>1. \A n \in 0..N : h[n] = IF n = 0 THEN Base ELSE Step(h[n - 1], n)
    BY <1>5
  <2>2. 0 \in 0..N /\ \A n \in 1..N : n \in 0..N /\ n # 0
    OBVIOUS
  <2> HIDE DEF N, Is
  <2>3. h[0] = Base
    BY <2>1, <2>2
  <2>4. ASSUME NEW n \in 1..N PROVE h[n] = Step(h[n - 1], n)
    BY <2>1, <2>2
  <2> QED BY <2>3, <2>4
<1>7. \E g : /\ g[0] = Base /\ LoadFromSvd(c, settings) = g[N]
             /\ \A n \in 1..N : g[n] = Step(g[n - 1], n)
  <2> HIDE DEF h, Base, Step
  <2> QED BY <1>4, <1>6
<1> QED BY <1>7

\* The application after each of the items.
ItemsCopied(f, e, items) ==
  /\ f[0] = e /\ UpdateItems(e, items) = f[Len(items)]
  /\ \A n \in 1..Len(items) : f[n] = UpdateItem(f[n - 1], items[n])

(***************************************************************************)
(* The fields of a page one after the other.                               *)
(***************************************************************************)
LEMMA UpdateItemsSteps ==
  ASSUME NEW e, NEW items, Len(items) \in Nat
  PROVE  \E f : ItemsCopied(f, e, items)
<1> DEFINE N == Len(items)
           Base == e
           Step(p, n) == UpdateItem(p, items[n])
           Is(f, m) == f = [n \in 0..m |-> IF n = 0 THEN Base ELSE Step(f[n - 1], n)]
           T == {m \in 0..N : \E f : Is(f, m)}
<1>1. 0 \in T
  <2> DEFINE g == [n \in 0..0 |-> Base]
  <2>1. Is(g, 0)
    <3> HIDE DEF Base, Step
    <3> QED OBVIOUS
  <2>2. \E f : Is(f, 0)
    <3> HIDE DEF Is, g
    <3> QED BY <2>1
  <2> HIDE DEF Is
  <2> QED BY <2>2
<1>2. ASSUME NEW m \in 1..N, m - 1 \in T
      PROVE  m \in T
  <2>1. PICK f : Is(f, m - 1)
    <3> HIDE DEF Is
    <3> QED BY <1>2
  <2> HIDE DEF N, Base, Step
  <2> DEFINE g == [n \in 0..m |-> IF n = m THEN Step(f[m - 1], m) ELSE f[n]]
  <2>2. ASSUME NEW n \in 0..m
        PROVE  g[n] = IF n = 0 THEN Base ELSE Step(g[n - 1], n)
    <3>1. n # 0 => n - 1 \in 0..m /\ n - 1 # m /\ g[n - 1] = f[n - 1]
      OBVIOUS
    <3>2. CASE n = m
      BY <3>1, <3>2
    <3>3. CASE n # m
      <4>1. n \in 0..(m - 1) /\ g[n] = f[n]
        BY <3>3
      <4>2. f[n] = IF n = 0 THEN Base ELSE Step(f[n - 1], n)
        BY <2>1, <4>1
      <4> QED BY <3>1, <4>1, <4>2
    <3> QED BY <3>2, <3>3
  <2>3. Is(g, m)
    BY <2>2
  <2>4. \E h : Is(h, m)
    <3> HIDE DEF Is, g
    <3> QED BY <2>3
  <2> HIDE DEF Is
  <2> QED BY <2>4
<1>3. PICK f : Is(f, N)
  <2> HIDE DEF Is
  <2>1. N \in T
    <3> HIDE DEF T
    <3>1. 0..N \subseteq T
      BY <1>1, <1>2, BoundedInduction
    <3> QED BY <3>1
  <2> QED BY <2>1
<1> DEFINE h == CHOOSE f_1 : Is(f_1, N)
<1>4. UpdateItems(e, items) = h[N]
  BY DEF UpdateItems
<1>5. Is(h, N)
  <2> HIDE DEF Is
  <2> QED BY <1>3
<1>6. h[0] = Base /\ \A n \in 1..N : h[n] = Step(h[n - 1], n)
  <2> HIDE DEF h, Base, Step
  <2>1. \A n \in 0..N : h[n] = IF n = 0 THEN Base ELSE Step(h[n - 1], n)
    BY <1>5
  <2>2. 0 \in 0..N /\ \A n \in 1..N : n \in 0..N /\ n # 0
    OBVIOUS
  <2> HIDE DEF N, Is
  <2>3. h[0] = Base
    BY <2>1, <2>2
  <2>4. ASSUME NEW n \in 1..N PROVE h[n] = Step(h[n - 1], n)
    BY <2>1, <2>2
  <2> QED BY <2>3, <2>4
<1>7. \E g : /\ g[0] = Base /\ UpdateItems(e, items) = g[N]
             /\ \A n \in 1..N : g[n] = Step(g[n - 1], n)
  <2> HIDE DEF h, Base, Step
  <2> QED BY <1>4, <1>6
<1> QED BY <1>7 DEF ItemsCopied

(***************************************************************************)
(* The pages of one namespace.                                             *)
(***************************************************************************)
LEMMA AddSpaceSteps ==
  ASSUME NEW e, NEW x, NEW ns, NEW id, NEW o, Len(knobs[x]) \in Nat
  PROVE  \E f : /\ f[0] = AddPage(e, SpacePage(ns), id, o) /\ AddSpace(e, x, ns, id, o) = f[Len(knobs[x])]
                /\ \A n \in 1..Len(knobs[x]) : f[n] = AddKnob(f[n - 1], x, ns, n, id, o)
<1> DEFINE N == Len(knobs[x])
           Base == AddPage(e, SpacePage(ns), id, o)
           Step(p, n) == AddKnob(p, x, ns, n, id, o)
           Is(f, m) == f = [n \in 0..m |-> IF n = 0 THEN Base ELSE Step(f[n - 1], n)]
           T == {m \in 0..N : \E f : Is(f, m)}
<1>1. 0 \in T
  <2> DEFINE g == [n \in 0..0 |-> Base]
  <2>1. Is(g, 0)
    <3> HIDE DEF Base, Step
    <3> QED OBVIOUS
  <2>2. \E f : Is(f, 0)
    <3> HIDE DEF Is, g
    <3> QED BY <2>1
  <2> HIDE DEF Is
  <2> QED BY <2>2
<1>2. ASSUME NEW m \in 1..N, m - 1 \in T
      PROVE  m \in T
  <2>1. PICK f : Is(f, m - 1)
    <3> HIDE DEF Is
    <3> QED BY <1>2
  <2> HIDE DEF N, Base, Step
  <2> DEFINE g == [n \in 0..m |-> IF n = m THEN Step(f[m - 1], m) ELSE f[n]]
  <2>2. ASSUME NEW n \in 0..m
        PROVE  g[n] = IF n = 0 THEN Base ELSE Step(g[n - 1], n)
    <3>1. n # 0 => n - 1 \in 0..m /\ n - 1 # m /\ g[n - 1] = f[n - 1]
      OBVIOUS
    <3>2. CASE n = m
      BY <3>1, <3>2
    <3>3. CASE n # m
      <4>1. n \in 0..(m - 1) /\ g[n] = f[n]
        BY <3>3
      <4>2. f[n] = IF n = 0 THEN Base ELSE Step(f[n - 1], n)
        BY <2>1, <4>1
      <4> QED BY <3>1, <4>1, <4>2
    <3> QED BY <3>2, <3>3
  <2>3. Is(g, m)
    BY <2>2
  <2>4. \E h : Is(h, m)
    <3> HIDE DEF Is, g
    <3> QED BY <2>3
  <2> HIDE DEF Is
  <2> QED BY <2>4
<1>3. PICK f : Is(f, N)
  <2> HIDE DEF Is
  <2>1. N \in T
    <3> HIDE DEF T
    <3>1. 0..N \subseteq T
      BY <1>1, <1>2, BoundedInduction
    <3> QED BY <3>1
  <2> QED BY <2>1
<1> DEFINE h == CHOOSE f_1 : Is(f_1, N)
<1>4. AddSpace(e, x, ns, id, o) = h[N]
  BY DEF AddSpace
<1>5. Is(h, N)
  <2> HIDE DEF Is
  <2> QED BY <1>3
<1>6. h[0] = Base /\ \A n \in 1..N : h[n] = Step(h[n - 1], n)
  <2> HIDE DEF h, Base, Step
  <2>1. \A n \in 0..N : h[n] = IF n = 0 THEN Base ELSE Step(h[n - 1], n)
    BY <1>5
  <2>2. 0 \in 0..N /\ \A n \in 1..N : n \in 0..N /\ n # 0
    OBVIOUS
  <2> HIDE DEF N, Is
  <2>3. h[0] = Base
    BY <2>1, <2>2
  <2>4. ASSUME NEW n \in 1..N PROVE h[n] = Step(h[n - 1], n)
    BY <2>1, <2>2
  <2> QED BY <2>3, <2>4
<1>7. \E g : /\ g[0] = Base /\ AddSpace(e, x, ns, id, o) = g[N]
             /\ \A n \in 1..N : g[n] = Step(g[n - 1], n)
  <2> HIDE DEF h, Base, Step
  <2> QED BY <1>4, <1>6
<1> QED BY <1>7

(***************************************************************************)
(* The namespaces of an XML file.                                          *)
(***************************************************************************)
LEMMA AddSpacesSteps ==
  ASSUME NEW e, NEW x, NEW id, NEW o, Len(knobs[x]) \in Nat
  PROVE  \E f : /\ f[0] = e /\ AddSpaces(e, x, id, o) = f[Len(knobs[x])]
                /\ \A n \in 1..Len(knobs[x]) : f[n] = AddSpaceAt(f[n - 1], x, n, id, o)
<1> DEFINE N == Len(knobs[x])
           Base == e
           Step(p, n) == AddSpaceAt(p, x, n, id, o)
           Is(f, m) == f = [n \in 0..m |-> IF n = 0 THEN Base ELSE Step(f[n - 1], n)]
           T == {m \in 0..N : \E f : Is(f, m)}
<1>1. 0 \in T
  <2> DEFINE g == [n \in 0..0 |-> Base]
  <2>1. Is(g, 0)
    <3> HIDE DEF Base, Step
    <3> QED OBVIOUS
  <2>2. \E f : Is(f, 0)
    <3> HIDE DEF Is, g
    <3> QED BY <2>1
  <2> HIDE DEF Is
  <2> QED BY <2>2
<1>2. ASSUME NEW m \in 1..N, m - 1 \in T
      PROVE  m \in T
  <2>1. PICK f : Is(f, m - 1)
    <3> HIDE DEF Is
    <3> QED BY <1>2
  <2> HIDE DEF N, Base, Step
  <2> DEFINE g == [n \in 0..m |-> IF n = m THEN Step(f[m - 1], m) ELSE f[n]]
  <2>2. ASSUME NEW n \in 0..m
        PROVE  g[n] = IF n = 0 THEN Base ELSE Step(g[n - 1], n)
    <3>1. n # 0 => n - 1 \in 0..m /\ n - 1 # m /\ g[n - 1] = f[n - 1]
      OBVIOUS
    <3>2. CASE n = m
      BY <3>1, <3>2
    <3>3. CASE n # m
      <4>1. n \in 0..(m - 1) /\ g[n] = f[n]
        BY <3>3
      <4>2. f[n] = IF n = 0 THEN Base ELSE Step(f[n - 1], n)
        BY <2>1, <4>1
      <4> QED BY <3>1, <4>1, <4>2
    <3> QED BY <3>2, <3>3
  <2>3. Is(g, m)
    BY <2>2
  <2>4. \E h : Is(h, m)
    <3> HIDE DEF Is, g
    <3> QED BY <2>3
  <2> HIDE DEF Is
  <2> QED BY <2>4
<1>3. PICK f : Is(f, N)
  <2> HIDE DEF Is
  <2>1. N \in T
    <3> HIDE DEF T
    <3>1. 0..N \subseteq T
      BY <1>1, <1>2, BoundedInduction
    <3> QED BY <3>1
  <2> QED BY <2>1
<1> DEFINE h == CHOOSE f_1 : Is(f_1, N)
<1>4. AddSpaces(e, x, id, o) = h[N]
  BY DEF AddSpaces, AddSpaceAt
<1>5. Is(h, N)
  <2> HIDE DEF Is
  <2> QED BY <1>3
<1>6. h[0] = Base /\ \A n \in 1..N : h[n] = Step(h[n - 1], n)
  <2> HIDE DEF h, Base, Step
  <2>1. \A n \in 0..N : h[n] = IF n = 0 THEN Base ELSE Step(h[n - 1], n)
    BY <1>5
  <2>2. 0 \in 0..N /\ \A n \in 1..N : n \in 0..N /\ n # 0
    OBVIOUS
  <2> HIDE DEF N, Is
  <2>3. h[0] = Base
    BY <2>1, <2>2
  <2>4. ASSUME NEW n \in 1..N PROVE h[n] = Step(h[n - 1], n)
    BY <2>1, <2>2
  <2> QED BY <2>3, <2>4
<1>7. \E g : /\ g[0] = Base /\ AddSpaces(e, x, id, o) = g[N]
             /\ \A n \in 1..N : g[n] = Step(g[n - 1], n)
  <2> HIDE DEF h, Base, Step
  <2> QED BY <1>4, <1>6
<1> QED BY <1>7

(***************************************************************************)
(* The open files one after the other.                                     *)
(***************************************************************************)
LEMMA LoadEachSteps ==
  ASSUME NEW e, NEW kind, NEW input, Len(e.files) \in Nat
  PROVE  \E f : /\ f[0] = e /\ LoadEach(e, kind, input) = f[Len(e.files)]
                /\ \A n \in 1..Len(e.files) : f[n] = LoadNext(f[n - 1], e.files[n].obj, kind, input)
<1> DEFINE N == Len(e.files)
           Base == e
           Step(p, n) == LoadNext(p, e.files[n].obj, kind, input)
           Is(f, m) == f = [n \in 0..m |-> IF n = 0 THEN Base ELSE Step(f[n - 1], n)]
           T == {m \in 0..N : \E f : Is(f, m)}
<1>1. 0 \in T
  <2> DEFINE g == [n \in 0..0 |-> Base]
  <2>1. Is(g, 0)
    <3> HIDE DEF Base, Step
    <3> QED OBVIOUS
  <2>2. \E f : Is(f, 0)
    <3> HIDE DEF Is, g
    <3> QED BY <2>1
  <2> HIDE DEF Is
  <2> QED BY <2>2
<1>2. ASSUME NEW m \in 1..N, m - 1 \in T
      PROVE  m \in T
  <2>1. PICK f : Is(f, m - 1)
    <3> HIDE DEF Is
    <3> QED BY <1>2
  <2> HIDE DEF N, Base, Step
  <2> DEFINE g == [n \in 0..m |-> IF n = m THEN Step(f[m - 1], m) ELSE f[n]]
  <2>2. ASSUME NEW n \in 0..m
        PROVE  g[n] = IF n = 0 THEN Base ELSE Step(g[n - 1], n)
    <3>1. n # 0 => n - 1 \in 0..m /\ n - 1 # m /\ g[n - 1] = f[n - 1]
      OBVIOUS
    <3>2. CASE n = m
      BY <3>1, <3>2
    <3>3. CASE n # m
      <4>1. n \in 0..(m - 1) /\ g[n] = f[n]
        BY <3>3
      <4>2. f[n] = IF n = 0 THEN Base ELSE Step(f[n - 1], n)
        BY <2>1, <4>1
      <4> QED BY <3>1, <4>1, <4>2
    <3> QED BY <3>2, <3>3
  <2>3. Is(g, m)
    BY <2>2
  <2>4. \E h : Is(h, m)
    <3> HIDE DEF Is, g
    <3> QED BY <2>3
  <2> HIDE DEF Is
  <2> QED BY <2>4
<1>3. PICK f : Is(f, N)
  <2> HIDE DEF Is
  <2>1. N \in T
    <3> HIDE DEF T
    <3>1. 0..N \subseteq T
      BY <1>1, <1>2, BoundedInduction
    <3> QED BY <3>1
  <2> QED BY <2>1
<1> DEFINE h == CHOOSE f_1 : Is(f_1, N)
<1>4. LoadEach(e, kind, input) = h[N]
  BY DEF LoadEach
<1>5. Is(h, N)
  <2> HIDE DEF Is
  <2> QED BY <1>3
<1>6. h[0] = Base /\ \A n \in 1..N : h[n] = Step(h[n - 1], n)
  <2> HIDE DEF h, Base, Step
  <2>1. \A n \in 0..N : h[n] = IF n = 0 THEN Base ELSE Step(h[n - 1], n)
    BY <1>5
  <2>2. 0 \in 0..N /\ \A n \in 1..N : n \in 0..N /\ n # 0
    OBVIOUS
  <2> HIDE DEF N, Is
  <2>3. h[0] = Base
    BY <2>1, <2>2
  <2>4. ASSUME NEW n \in 1..N PROVE h[n] = Step(h[n - 1], n)
    BY <2>1, <2>2
  <2> QED BY <2>3, <2>4
<1>7. \E g : /\ g[0] = Base /\ LoadEach(e, kind, input) = g[N]
             /\ \A n \in 1..N : g[n] = Step(g[n - 1], n)
  <2> HIDE DEF h, Base, Step
  <2> QED BY <1>4, <1>6
<1> QED BY <1>7

(***************************************************************************)
(* The change files one after the other.                                   *)
(***************************************************************************)
LEMMA SaveDeltasSteps ==
  ASSUME NEW full, Len(ed.files) \in Nat
  PROVE  \E f : /\ f[0] = [e |-> ed, csv |-> disk.csv] /\ SaveDeltas(full) = f[Len(ed.files)]
                /\ \A n \in 1..Len(ed.files) : f[n] = SaveDeltaStep(f[n - 1], full, n)
<1> DEFINE N == Len(ed.files)
           Base == [e |-> ed, csv |-> disk.csv]
           Step(p, n) == SaveDeltaStep(p, full, n)
           Is(f, m) == f = [n \in 0..m |-> IF n = 0 THEN Base ELSE Step(f[n - 1], n)]
           T == {m \in 0..N : \E f : Is(f, m)}
<1>1. 0 \in T
  <2> DEFINE g == [n \in 0..0 |-> Base]
  <2>1. Is(g, 0)
    <3> HIDE DEF Base, Step
    <3> QED OBVIOUS
  <2>2. \E f : Is(f, 0)
    <3> HIDE DEF Is, g
    <3> QED BY <2>1
  <2> HIDE DEF Is
  <2> QED BY <2>2
<1>2. ASSUME NEW m \in 1..N, m - 1 \in T
      PROVE  m \in T
  <2>1. PICK f : Is(f, m - 1)
    <3> HIDE DEF Is
    <3> QED BY <1>2
  <2> HIDE DEF N, Base, Step
  <2> DEFINE g == [n \in 0..m |-> IF n = m THEN Step(f[m - 1], m) ELSE f[n]]
  <2>2. ASSUME NEW n \in 0..m
        PROVE  g[n] = IF n = 0 THEN Base ELSE Step(g[n - 1], n)
    <3>1. n # 0 => n - 1 \in 0..m /\ n - 1 # m /\ g[n - 1] = f[n - 1]
      OBVIOUS
    <3>2. CASE n = m
      BY <3>1, <3>2
    <3>3. CASE n # m
      <4>1. n \in 0..(m - 1) /\ g[n] = f[n]
        BY <3>3
      <4>2. f[n] = IF n = 0 THEN Base ELSE Step(f[n - 1], n)
        BY <2>1, <4>1
      <4> QED BY <3>1, <4>1, <4>2
    <3> QED BY <3>2, <3>3
  <2>3. Is(g, m)
    BY <2>2
  <2>4. \E h : Is(h, m)
    <3> HIDE DEF Is, g
    <3> QED BY <2>3
  <2> HIDE DEF Is
  <2> QED BY <2>4
<1>3. PICK f : Is(f, N)
  <2> HIDE DEF Is
  <2>1. N \in T
    <3> HIDE DEF T
    <3>1. 0..N \subseteq T
      BY <1>1, <1>2, BoundedInduction
    <3> QED BY <3>1
  <2> QED BY <2>1
<1> DEFINE h == CHOOSE f_1 : Is(f_1, N)
<1>4. SaveDeltas(full) = h[N]
  BY DEF SaveDeltas
<1>5. Is(h, N)
  <2> HIDE DEF Is
  <2> QED BY <1>3
<1>6. h[0] = Base /\ \A n \in 1..N : h[n] = Step(h[n - 1], n)
  <2> HIDE DEF h, Base, Step
  <2>1. \A n \in 0..N : h[n] = IF n = 0 THEN Base ELSE Step(h[n - 1], n)
    BY <1>5
  <2>2. 0 \in 0..N /\ \A n \in 1..N : n \in 0..N /\ n # 0
    OBVIOUS
  <2> HIDE DEF N, Is
  <2>3. h[0] = Base
    BY <2>1, <2>2
  <2>4. ASSUME NEW n \in 1..N PROVE h[n] = Step(h[n - 1], n)
    BY <2>1, <2>2
  <2> QED BY <2>3, <2>4
<1>7. \E g : /\ g[0] = Base /\ SaveDeltas(full) = g[N]
             /\ \A n \in 1..N : g[n] = Step(g[n - 1], n)
  <2> HIDE DEF h, Base, Step
  <2> QED BY <1>4, <1>6
<1> QED BY <1>7

-----------------------------------------------------------------------------
(* The objects: no operation changes which XML file an object is of *)

SameXml(c, d) == IsObject(d) /\ d.xml = c.xml

(***************************************************************************)
(* An object that was just loaded is of that XML file.                     *)
(***************************************************************************)
LEMMA LoadXmlObject ==
  ASSUME NEW x \in DOMAIN knobs
  PROVE  IsObject(LoadXml(x)) /\ LoadXml(x).xml = x
BY DEF LoadXml, IsObject

(***************************************************************************)
(* set_item_value                                                          *)
(***************************************************************************)
LEMMA SetItemObject ==
  ASSUME NEW c, IsObject(c), NEW i, NEW text
  PROVE  SameXml(c, SetItemValue(c, i, text).cfg)
<1> DEFINE new == set_subknob_text(c.xml, c.vals, i, text)
<1>1. SetItemValue(c, i, text) = ItemSet(c, i, text, new)
  BY DEF SetItemValue
<1> HIDE DEF new
<1>2. CASE new = Error
  BY <1>1, <1>2 DEF ItemSet, SameXml, IsObject
<1>3. CASE new # Error
  BY <1>1, <1>3 DEF ItemSet, SameXml, IsObject
<1> QED BY <1>2, <1>3

(***************************************************************************)
(* The values that a load has read, with or without the synchronisation.   *)
(***************************************************************************)
LEMMA SyncedObject ==
  ASSUME NEW c, IsObject(c), NEW read
  PROVE  SameXml(c, Synced(c, read))
<1>1. CASE read.err
  BY <1>1 DEF Synced, SameXml, IsObject
<1>2. CASE ~read.err
  BY <1>2 DEF Synced, SyncShimAndSchema, SameXml, IsObject
<1> QED BY <1>1, <1>2

(***************************************************************************)
(* load_default_from_bin                                                   *)
(***************************************************************************)
LEMMA LoadBinObject ==
  ASSUME NEW c, IsObject(c), NEW buf
  PROVE  SameXml(c, LoadDefaultFromBin(c, buf).cfg)
<1> DEFINE own == vlist_to_binary(c.xml, c.vals)
           list == read_vlist_from_buffer(buf)
           read == uefi_variables_to_knobs(c.xml, c.vals, GetVarListForInstance(own, list))
<1>1. CASE own = Error \/ list = Error
  BY <1>1 DEF LoadDefaultFromBin, LoadVariables, SameXml
<1>2. CASE ~(own = Error \/ list = Error)
  <2>1. LoadDefaultFromBin(c, buf).cfg = Synced(c, read)
    BY <1>2 DEF LoadDefaultFromBin, LoadVariables, AfterLoad
  <2> HIDE DEF read
  <2> QED BY <2>1, SyncedObject
<1> QED BY <1>1, <1>2

(***************************************************************************)
(* load_from_svd                                                           *)
(***************************************************************************)
LEMMA LoadSvdObject ==
  ASSUME NEW c, IsObject(c), NEW settings, Len(settings) \in Nat
  PROVE  SameXml(c, LoadFromSvd(c, settings).cfg)
<1>1. PICK f : /\ f[0] = [cfg |-> c, err |-> FALSE] /\ LoadFromSvd(c, settings) = f[Len(settings)]
               /\ \A n \in 1..Len(settings) : f[n] = LoadSetting(f[n - 1], settings[n])
  BY LoadFromSvdSteps
<1> DEFINE T == {n \in 0..Len(settings) : SameXml(c, f[n].cfg)}
<1>2. 0 \in T
  BY <1>1 DEF SameXml
<1>3. ASSUME NEW n \in 1..Len(settings), n - 1 \in T
      PROVE  n \in T
  <2> DEFINE st == f[n - 1]
  <2>1. SameXml(c, st.cfg) /\ f[n] = LoadSetting(st, settings[n])
    BY <1>1, <1>3
  <2> HIDE DEF st
  <2>2. SameXml(st.cfg, LoadDefaultFromBin(st.cfg, settings[n]).cfg)
    BY <2>1, LoadBinObject DEF SameXml
  <2>3. SameXml(c, f[n].cfg)
    <3>1. CASE st.err \/ settings[n] = None
      BY <2>1, <3>1 DEF LoadSetting
    <3>2. CASE ~(st.err \/ settings[n] = None)
      BY <2>1, <2>2, <3>2 DEF LoadSetting, SameXml
    <3> QED BY <3>1, <3>2
  <2> QED BY <2>3
<1>4. Len(settings) \in T
  <2> HIDE DEF T
  <2>1. 0..Len(settings) \subseteq T
    BY <1>2, <1>3, BoundedInduction
  <2> QED BY <2>1
<1> QED BY <1>1, <1>4

(***************************************************************************)
(* override_default_value                                                  *)
(***************************************************************************)
LEMMA OverrideObject ==
  ASSUME NEW c, IsObject(c), NEW csv
  PROVE  SameXml(c, OverrideDefaultValue(c, csv).cfg)
<1> DEFINE read == read_csv(c.xml, c.vals, csv)
<1>1. OverrideDefaultValue(c, csv).cfg = Synced(c, read)
  BY DEF OverrideDefaultValue, Overridden
<1> HIDE DEF read
<1> QED BY <1>1, SyncedObject

(***************************************************************************)
(* generate_delta_file_from_bin                                            *)
(***************************************************************************)
LEMMA GenerateDeltaObject ==
  ASSUME NEW c, IsObject(c), NEW new, NEW full
  PROVE  SameXml(c, GenerateDeltaFileFromBin(c, new, full).cfg)
<1>1. GenerateDeltaFileFromBin(c, new, full).cfg = LoadDefaultFromBin(c, new).cfg
  BY DEF GenerateDeltaFileFromBin, WrittenDelta, DeltaFile
<1> QED BY <1>1, LoadBinObject

-----------------------------------------------------------------------------
(* The application: what an operation keeps that opens no file *)

Keeps(e, f) ==
  AppFits(f) /\ f.files = e.files /\ f.tree = e.tree /\ f.pmap = e.pmap /\ f.plist = e.plist

(***************************************************************************)
(* One operation after the other.                                          *)
(***************************************************************************)
LEMMA KeepsTwice ==
  ASSUME NEW e, NEW f, NEW g, Keeps(e, f), Keeps(f, g)
  PROVE  Keeps(e, g)
BY DEF Keeps

(***************************************************************************)
(* The flags, the path and the defaults are nothing the invariant is about.*)
(***************************************************************************)
OnlyFlags(e, f) ==
  /\ DOMAIN f = DOMAIN e /\ f.objs = e.objs /\ f.sel = e.sel
  /\ f.files = e.files /\ f.tree = e.tree /\ f.pmap = e.pmap /\ f.plist = e.plist
  /\ f.cur = e.cur /\ f.total = e.total /\ f.wid = e.wid
LEMMA FlagsKeep ==
  ASSUME NEW e, AppFits(e), NEW f, OnlyFlags(e, f)
  PROVE  Keeps(e, f) /\ f.wid = e.wid
BY DEF Keeps, OnlyFlags, AppFits, AppTypeOK, TreeFits, PageFits, Showing

(***************************************************************************)
(* An exception.                                                           *)
(***************************************************************************)
LEMMA FailKeeps ==
  ASSUME NEW e, AppFits(e)
  PROVE  Keeps(e, Fail(e)) /\ Fail(e).wid = e.wid
<1>1. OnlyFlags(e, Fail(e))
  BY DEF Fail, OnlyFlags, AppFits, AppTypeOK
<1> QED BY <1>1, FlagsKeep

(***************************************************************************)
(* An object is replaced by one of the same XML file.                      *)
(***************************************************************************)
LEMMA PutObjectKeeps ==
  ASSUME NEW e, AppFits(e), NEW o, NEW c, o \in 1..Len(e.objs) => SameXml(e.objs[o], c)
  PROVE  Keeps(e, [e EXCEPT !.objs[o] = c]) /\ [e EXCEPT !.objs[o] = c].wid = e.wid
<1> DEFINE f == [e EXCEPT !.objs[o] = c]
           objs == e.objs
           new == [objs EXCEPT ![o] = c]
<1>1. /\ DOMAIN f = DOMAIN e /\ f.objs = new /\ f.sel = e.sel
      /\ f.files = e.files /\ f.tree = e.tree /\ f.pmap = e.pmap /\ f.plist = e.plist
      /\ f.cur = e.cur /\ f.total = e.total /\ f.wid = e.wid
  BY DEF AppFits, AppTypeOK
<1>2. PICK S : objs \in Seq(S)
  BY DEF AppFits, AppTypeOK
<1>3. \A n \in 1..Len(objs) : IsObject(objs[n])
  BY DEF AppFits, AppTypeOK
<1>4. o \in 1..Len(objs) => SameXml(objs[o], c)
  OBVIOUS
<1> HIDE DEF objs
<1>5. new \in Seq(S \union {c}) /\ Len(new) = Len(objs)
  <2>1. objs \in Seq(S \union {c})
    BY <1>2, SeqMonotonic
  <2>2. CASE o \in 1..Len(objs)
    BY <2>1, <2>2, ExceptSeq
  <2>3. CASE o \notin 1..Len(objs)
    <3>1. new = objs
      BY <2>1, <2>3
    <3> QED BY <2>1, <3>1
  <2> QED BY <2>2, <2>3
<1>6. \A n \in 1..Len(objs) : IsObject(new[n]) /\ new[n].xml = objs[n].xml
  BY <1>2, <1>3, <1>4 DEF SameXml
<1>7. \E V : new \in Seq(V)
  BY <1>5
<1> HIDE DEF f, new
<1>8. AppTypeOK(f)
  BY <1>1, <1>5, <1>6, <1>7 DEF AppFits, AppTypeOK, objs
<1>9. TreeFits(f)
  BY <1>1, <1>5, <1>6 DEF AppFits, TreeFits, objs
<1>10. PageFits(f)
  BY <1>1, <1>5, <1>6 DEF AppFits, PageFits, Showing, objs
<1>11. Keeps(e, f) /\ f.wid = e.wid
  BY <1>1, <1>8, <1>9, <1>10 DEF Keeps, AppFits
<1> QED BY <1>11 DEF f

-----------------------------------------------------------------------------
(* Fields and pages *)

\* What copying the fields keeps: what is shown stays.
KeepsShown(e, f) == Keeps(e, f) /\ f.wid = e.wid

(***************************************************************************)
(* update_config_data_from_widget, for an object that is there.            *)
(***************************************************************************)
LEMMA CopyTextKeeps ==
  ASSUME NEW e, AppFits(e), NEW o, NEW j, NEW text
  PROVE  KeepsShown(e, CopyText(e, o, j, text))
<1> DEFINE set == SetItemValue(e.objs[o], j, text)
           c == [set.cfg EXCEPT !.shim[j] = ReformatValueStr(set.cfg.xml, j, text)]
<1>1. KeepsShown(e, e)
  BY DEF KeepsShown, Keeps
<1>2. o \in 1..Len(e.objs) => SameXml(e.objs[o], c)
  <2> SUFFICES ASSUME o \in 1..Len(e.objs) PROVE SameXml(e.objs[o], c)
    OBVIOUS
  <2>1. IsObject(e.objs[o])
    BY DEF AppFits, AppTypeOK
  <2>2. SameXml(e.objs[o], set.cfg)
    BY <2>1, SetItemObject
  <2> HIDE DEF set
  <2>3. DOMAIN c = DOMAIN set.cfg /\ c.xml = set.cfg.xml
    BY <2>2 DEF SameXml, IsObject
  <2> HIDE DEF c
  <2> QED BY <2>2, <2>3 DEF SameXml, IsObject
<1>3. KeepsShown(e, [e EXCEPT !.objs[o] = c])
  <2> HIDE DEF c
  <2> QED BY <1>2, PutObjectKeeps DEF KeepsShown
<1>4. CopyText(e, o, j, text) = IF j = 0 \/ set.err THEN e ELSE [e EXCEPT !.objs[o] = c]
  BY DEF CopyText, Copied
<1> HIDE DEF set, c
<1> QED BY <1>1, <1>3, <1>4

(***************************************************************************)
(* update_config_data_from_widget                                          *)
(***************************************************************************)
LEMMA UpdateFromWidgetKeeps ==
  ASSUME NEW e, AppFits(e), NEW i
  PROVE  KeepsShown(e, UpdateFromWidget(e, i))
<1> DEFINE o == ObjOf(e, e.wid.fid)
           text == e.wid.text[i]
           j == FieldItem(e, o, i)
<1>1. UpdateFromWidget(e, i) = IF e.err THEN e ELSE IF o = 0 THEN Fail(e) ELSE CopyText(e, o, j, text)
  BY DEF UpdateFromWidget, CopyField
<1> HIDE DEF o, text, j
<1>2. KeepsShown(e, e)
  BY DEF KeepsShown, Keeps
<1>3. KeepsShown(e, Fail(e))
  BY FailKeeps DEF KeepsShown
<1>4. KeepsShown(e, CopyText(e, o, j, text))
  BY CopyTextKeeps
<1> QED BY <1>1, <1>2, <1>3, <1>4

(***************************************************************************)
(* The items of a page are a sequence of indices.                          *)
(***************************************************************************)
LEMMA ItemsSequence ==
  ASSUME NEW x \in DOMAIN knobs, NEW page \in PagesOf(x)
  PROVE  Items[x][page] \in Seq(1..Len(subknobs[x]))
<1> DEFINE N == Len(subknobs[x])
           Here(i) == PageOf(x, subknobs[x][i].k) = page
           Eq(f) == f = [i \in 0..N |-> IF i = 0 THEN <<>>
                                        ELSE IF Here(i) THEN Append(f[i - 1], i) ELSE f[i - 1]]
           G == [p \in (1..N) \X Seq(1..N) |-> IF Here(p[1]) THEN Append(p[2], p[1]) ELSE p[2]]
<1>1. N \in Nat
  BY ItemsAssumption
<1>2. Items[x][page] = GetCfgList(x, page)
  BY DEF Items
<1>3. GetCfgList(x, page) = (CHOOSE f : Eq(f))[N]
  BY DEF GetCfgList
<1> HIDE DEF N, Here
<1>4. IsStep(G, N, Seq(1..N))
  <2>1. \A p \in (1..N) \X Seq(1..N) : p[1] \in 1..N /\ p[2] \in Seq(1..N) /\ Append(p[2], p[1]) \in Seq(1..N)
    BY <1>1
  <2> QED BY <2>1 DEF IsStep
<1>5. PICK f : IsIteration(f, N, Seq(1..N), <<>>, G)
  <2>1. <<>> \in Seq(1..N)
    OBVIOUS
  <2> HIDE DEF G
  <2> QED BY <1>1, <1>4, <2>1, BoundedRecursion
<1>6. f \in [0..N -> Seq(1..N)] /\ f[0] = <<>>
  <2> HIDE DEF G
  <2> QED BY <1>5 DEF IsIteration
<1>7. ASSUME NEW i \in 1..N
      PROVE  f[i] = IF Here(i) THEN Append(f[i - 1], i) ELSE f[i - 1]
  <2>1. <<i, f[i - 1]>> \in (1..N) \X Seq(1..N)
    BY <1>1, <1>6
  <2>2. G[<<i, f[i - 1]>>] = IF Here(i) THEN Append(f[i - 1], i) ELSE f[i - 1]
    BY <2>1
  <2> HIDE DEF G
  <2> QED BY <1>5, <2>2 DEF IsIteration
<1> HIDE DEF G
<1>8. Eq(f)
  <2>1. \A i \in 0..N : f[i] = IF i = 0 THEN <<>>
                               ELSE IF Here(i) THEN Append(f[i - 1], i) ELSE f[i - 1]
    <3> TAKE i \in 0..N
    <3>1. CASE i = 0
      BY <3>1, <1>6
    <3>2. CASE i # 0
      <4>1. i \in 1..N
        BY <1>1, <3>2
      <4> QED BY <3>2, <4>1, <1>7
    <3> QED BY <3>1, <3>2
  <2> QED BY <1>6, <2>1
<1> DEFINE g == CHOOSE h : Eq(h)
<1>9. Eq(g)
  <2> HIDE DEF Eq
  <2> QED BY <1>8
<1> HIDE DEF g
<1>10. \A i \in 0..N : g[i] = IF i = 0 THEN <<>>
                              ELSE IF Here(i) THEN Append(g[i - 1], i) ELSE g[i - 1]
  BY <1>9
<1> DEFINE T == {i \in 0..N : g[i] \in Seq(1..N)}
<1>11. 0 \in T
  <2>1. 0 \in 0..N /\ <<>> \in Seq(1..N)
    BY <1>1
  <2>2. g[0] = <<>>
    BY <1>10, <2>1
  <2> QED BY <2>1, <2>2
<1>12. ASSUME NEW i \in 1..N, i - 1 \in T PROVE i \in T
  <2>1. i \in 0..N /\ i # 0 /\ g[i - 1] \in Seq(1..N)
    BY <1>12
  <2>2. g[i] = IF Here(i) THEN Append(g[i - 1], i) ELSE g[i - 1]
    BY <1>10, <2>1
  <2>3. g[i] \in Seq(1..N)
    <3>1. Append(g[i - 1], i) \in Seq(1..N)
      BY <2>1
    <3> QED BY <2>1, <2>2, <3>1
  <2> QED BY <2>1, <2>3
<1>13. N \in T
  <2> HIDE DEF T
  <2>1. 0..N \subseteq T
    BY <1>1, <1>11, <1>12, BoundedInduction
  <2> QED BY <1>1, <2>1
<1>14. g[N] \in Seq(1..N)
  BY <1>13
<1> QED BY <1>2, <1>3, <1>14 DEF g, N

(***************************************************************************)
(* The fields of a page are copied one after the other.                    *)
(***************************************************************************)
LEMMA UpdateItemsKeeps ==
  ASSUME NEW e, AppFits(e), NEW items, Len(items) \in Nat
  PROVE  KeepsShown(e, UpdateItems(e, items))
<1>1. PICK f : /\ f[0] = e /\ UpdateItems(e, items) = f[Len(items)]
               /\ \A n \in 1..Len(items) : f[n] = UpdateItem(f[n - 1], items[n])
  <2>1. \E f : ItemsCopied(f, e, items)
    BY UpdateItemsSteps
  <2> QED BY ONLY <2>1 DEF ItemsCopied
<1> DEFINE T == {n \in 0..Len(items) : KeepsShown(e, f[n])}
<1>2. 0 \in T
  BY <1>1 DEF KeepsShown, Keeps
<1>3. ASSUME NEW n \in 1..Len(items), n - 1 \in T
      PROVE  n \in T
  <2> DEFINE p == f[n - 1]
             i == items[n]
  <2>1. KeepsShown(e, p) /\ f[n] = UpdateItem(p, i)
    BY <1>1, <1>3
  <2> HIDE DEF p, i
  <2>2. AppFits(p)
    BY <2>1 DEF KeepsShown, Keeps
  <2>3. KeepsShown(p, UpdateFromWidget(p, i))
    BY <2>2, UpdateFromWidgetKeeps
  <2>4. KeepsShown(e, UpdateFromWidget(p, i))
    BY <2>1, <2>3 DEF KeepsShown, Keeps
  <2>5. KeepsShown(e, f[n])
    BY <2>1, <2>4 DEF UpdateItem
  <2> QED BY <2>5
<1>4. Len(items) \in T
  <2> HIDE DEF T
  <2>1. 0..Len(items) \subseteq T
    BY <1>2, <1>3, BoundedInduction
  <2> QED BY <2>1
<1> QED BY <1>1, <1>4

(***************************************************************************)
(* update_config_data_on_page                                              *)
(***************************************************************************)
LEMMA UpdatePageKeeps ==
  ASSUME NEW e, AppFits(e)
  PROVE  KeepsShown(e, UpdateConfigDataOnPage(e))
<1>1. CASE e.wid = NoWidgets
  BY <1>1 DEF UpdateConfigDataOnPage, KeepsShown, Keeps
<1>2. CASE e.wid # NoWidgets
  <2> DEFINE items == Items[Shown(e)][e.wid.page]
  <2>1. Showing(e)
    BY <1>2 DEF AppFits, PageFits
  <2>2. Shown(e) \in DOMAIN knobs /\ e.wid.page \in PagesOf(Shown(e))
    BY <2>1 DEF AppFits, AppTypeOK, IsObject, Showing, Shown
  <2>3. items \in Seq(1..Len(subknobs[Shown(e)]))
    BY <2>2, ItemsSequence
  <2>4. UpdateConfigDataOnPage(e) = UpdateItems(e, items)
    BY <1>2 DEF UpdateConfigDataOnPage
  <2> HIDE DEF items
  <2>5. Len(items) \in Nat
    BY <2>3
  <2> QED BY <2>4, <2>5, UpdateItemsKeeps
<1> QED BY <1>1, <1>2

(***************************************************************************)
(* The fields are taken away.                                              *)
(***************************************************************************)
LEMMA ClearKeeps ==
  ASSUME NEW e, AppFits(e)
  PROVE  Keeps(e, ClearWidgets(e)) /\ ClearWidgets(e).wid = NoWidgets
<1> DEFINE f == ClearWidgets(e)
<1>1. /\ DOMAIN f = DOMAIN e /\ f.objs = e.objs /\ f.sel = e.sel
      /\ f.files = e.files /\ f.tree = e.tree /\ f.pmap = e.pmap /\ f.plist = e.plist
      /\ f.cur = e.cur /\ f.total = e.total /\ f.wid = NoWidgets
  BY DEF AppFits, AppTypeOK, ClearWidgets
<1>2. DOMAIN NoWidgets = {"page", "fid", "obj", "text", "typed"}
  BY DEF NoWidgets
<1> HIDE DEF f
<1>3. AppTypeOK(f)
  BY <1>1, <1>2 DEF AppFits, AppTypeOK
<1>4. TreeFits(f) /\ PageFits(f)
  BY <1>1 DEF AppFits, TreeFits, PageFits
<1>5. Keeps(e, f) /\ f.wid = NoWidgets
  BY <1>1, <1>3, <1>4 DEF Keeps, AppFits
<1> QED BY <1>5 DEF f

(***************************************************************************)
(* The parts of a page: as many as it takes, and each of them, the last    *)
(* one included, begins with an item.                                      *)
(***************************************************************************)
LEMMA PartBegins ==
  ASSUME NEW items, Len(items) \in Nat, Len(items) > 2, NEW cur \in Nat
  PROVE  /\ PartCount(items) \in Nat \ {0}
         /\ Clamped(cur, PartCount(items)) \in Nat
         /\ 2 + Clamped(cur, PartCount(items)) * PageSize < Len(items)
<1> DEFINE n == Len(items) - 2 + PageSize - 1
           q == n \div PageSize
           k == Clamped(cur, q)
<1>1. PageSize \in Nat /\ PageSize > 0 /\ n \in Nat /\ n >= PageSize
  BY ItemsAssumption
<1>2. n = Len(items) - 2 + PageSize - 1 /\ PartCount(items) = q
  BY DEF PartCount
<1>3. q \in Nat /\ q * PageSize <= n /\ q >= 1
  <2> HIDE DEF n
  <2>1. q \in Int /\ q * PageSize <= n /\ n < (q + 1) * PageSize
    BY <1>1, Z3
  <2> HIDE DEF q
  <2>2. q >= 1
    <3> SUFFICES ASSUME q <= 0 PROVE FALSE
      BY <2>1
    <3>1. (q + 1) * PageSize <= PageSize
      BY <1>1, <2>1
    <3>2. (q + 1) * PageSize \in Int
      BY <1>1, <2>1
    <3> QED BY <1>1, <2>1, <3>1, <3>2
  <2> QED BY <2>1, <2>2
<1> HIDE DEF n, q
<1>4. k \in Nat /\ k <= q - 1
  BY <1>3 DEF Clamped
<1> HIDE DEF k
<1>5. k * PageSize \in Nat /\ k * PageSize <= (q - 1) * PageSize
  BY <1>1, <1>3, <1>4
<1>6. (q - 1) * PageSize = q * PageSize - PageSize /\ q * PageSize \in Nat
  BY <1>1, <1>3
<1>7. k * PageSize <= n - PageSize
  BY <1>1, <1>3, <1>5, <1>6
<1>8. 2 + k * PageSize < Len(items)
  BY <1>1, <1>2, <1>5, <1>7
<1>9. Clamped(cur, PartCount(items)) = k
  BY <1>2 DEF k
<1> QED BY <1>2, <1>3, <1>4, <1>8, <1>9

(***************************************************************************)
(* Each part of a page has a field.                                        *)
(***************************************************************************)
LEMMA PartHasField ==
  ASSUME NEW x \in DOMAIN knobs, NEW page \in PagesOf(x), NEW n \in Nat,
         2 + n * PageSize < Len(Items[x][page])
  PROVE  \E i \in OnPart(Items[x][page], n) : subknobs[x][i].leaf
<1> DEFINE items == Items[x][page]
           from == n * PageSize
           m == 2 + from + 1
<1>1. items \in Seq(1..Len(subknobs[x])) /\ Len(items) \in Nat
  <2>1. items \in Seq(1..Len(subknobs[x]))
    BY ItemsSequence
  <2> HIDE DEF items
  <2> QED BY <2>1
<1>2. PageSize \in Nat /\ from \in Nat /\ (n + 1) * PageSize = from + PageSize
  BY ItemsAssumption
<1>3. 2 + from < Len(items)
  OBVIOUS
<1>4. \A k \in 3..Len(items) : \E p \in k..Len(items) : p < k + PageSize /\ subknobs[x][items[p]].leaf
  BY ItemsAssumption
<1>5. OnPart(items, n) = {items[p] : p \in {k \in DOMAIN items : 2 + from < k /\ k <= 2 + (n + 1) * PageSize}}
  BY DEF OnPart
<1> HIDE DEF items, from
<1>6. m \in 3..Len(items)
  BY <1>1, <1>2, <1>3
<1>7. PICK p \in m..Len(items) : p < m + PageSize /\ subknobs[x][items[p]].leaf
  BY <1>4, <1>6
<1>8. p \in DOMAIN items /\ 2 + from < p /\ p <= 2 + (n + 1) * PageSize
  BY <1>1, <1>2, <1>7
<1>9. items[p] \in OnPart(items, n)
  BY <1>5, <1>8
<1>10. \E i \in OnPart(items, n) : subknobs[x][i].leaf
  BY <1>7, <1>9
<1> QED BY <1>10 DEF items

(***************************************************************************)
(* build_config_data_page, for a page of the tree.                         *)
(***************************************************************************)
LEMMA BuildPageKeeps ==
  ASSUME NEW e, AppFits(e), NEW page \in e.tree
  PROVE  Keeps(e, BuildConfigDataPage(e, page))
<1> DEFINE o == e.plist[page]
           x == e.objs[o].xml
           items == Items[x][page]
           n == Clamped(e.cur, PartCount(items))
           f == ShowPart(e, page, items, n)
<1>1. o \in 1..Len(e.objs) /\ x \in DOMAIN knobs /\ page \in PagesOf(x) /\ e.cur \in Nat
  BY DEF AppFits, AppTypeOK, TreeFits, IsObject
<1>2. BuildConfigDataPage(e, page) = IF Len(items) <= 2 THEN ClearWidgets(e) ELSE f
  BY DEF BuildConfigDataPage, ShowItems
<1>3. Len(items) \in Nat
  <2>1. items \in Seq(1..Len(subknobs[x]))
    BY <1>1, ItemsSequence
  <2> HIDE DEF items
  <2> QED BY <2>1
<1>4. CASE Len(items) <= 2
  <2> HIDE DEF items, f
  <2> QED BY <1>2, <1>4, ClearKeeps
<1>5. CASE Len(items) > 2
  <2>1. PartCount(items) \in Nat \ {0} /\ n \in Nat /\ 2 + n * PageSize < Len(items)
    <3> HIDE DEF items
    <3> QED BY <1>1, <1>3, <1>5, PartBegins
  <2>2. PICK i \in OnPart(items, n) : subknobs[x][i].leaf
    <3> HIDE DEF o, x, n
    <3> QED BY <1>1, <2>1, PartHasField
  <2> DEFINE wid == [page |-> page, fid |-> e.pmap[page], obj |-> o, typed |-> {},
                     text |-> AddConfigItems(e.objs[o], OnPart(items, n))]
  <2>3. /\ DOMAIN f = DOMAIN e /\ f.objs = e.objs /\ f.sel = e.sel
        /\ f.files = e.files /\ f.tree = e.tree /\ f.pmap = e.pmap /\ f.plist = e.plist
        /\ f.cur = n /\ f.total = PartCount(items) /\ f.wid = wid
    <3> HIDE DEF n, items
    <3> QED BY DEF ShowPart, AppFits, AppTypeOK
  <2>4. i \in DOMAIN wid.text
    <3>1. wid.text = AddConfigItems(e.objs[o], OnPart(items, n))
      OBVIOUS
    <3> HIDE DEF wid, n, items
    <3> QED BY <2>2, <3>1 DEF AddConfigItems
  <2>5. DOMAIN wid = {"page", "fid", "obj", "text", "typed"} /\ wid.page = page /\ wid.obj = o
    OBVIOUS
  <2> HIDE DEF f, n, items, wid
  <2>6. AppTypeOK(f)
    BY <2>1, <2>3, <2>5 DEF AppFits, AppTypeOK
  <2>7. TreeFits(f)
    BY <2>3 DEF AppFits, TreeFits
  <2>8. PageFits(f)
    BY <1>1, <2>3, <2>4, <2>5 DEF PageFits, Showing
  <2>9. Keeps(e, f)
    BY <2>3, <2>6, <2>7, <2>8 DEF Keeps, AppFits
  <2>10. ~(Len(items) <= 2)
    BY <1>3, <1>5
  <2> QED BY <1>2, <2>9, <2>10
<1>6. Len(items) <= 2 \/ Len(items) > 2
  <2> HIDE DEF items
  <2> QED BY <1>3
<1> QED BY <1>4, <1>5, <1>6

(***************************************************************************)
(* on_config_page_select_change                                            *)
(***************************************************************************)
LEMMA SelectChangeKeeps ==
  ASSUME NEW e, AppFits(e)
  PROVE  Keeps(e, OnSelectChange(e))
<1> DEFINE up == UpdateConfigDataOnPage(e)
<1>1. Keeps(e, up)
  BY UpdatePageKeeps DEF KeepsShown
<1>2. OnSelectChange(e) = IF up.err \/ up.sel = None THEN up ELSE BuildConfigDataPage(up, up.sel)
  BY DEF OnSelectChange, ShowSelected
<1> HIDE DEF up
<1>3. AppFits(up) /\ (up.sel = None \/ up.sel \in up.tree)
  BY <1>1 DEF Keeps, AppFits, TreeFits
<1>4. up.sel # None => Keeps(e, BuildConfigDataPage(up, up.sel))
  BY <1>1, <1>3, BuildPageKeeps, KeepsTwice
<1> QED BY <1>1, <1>2, <1>4

(***************************************************************************)
(* refresh_config_data_page                                                *)
(***************************************************************************)
LEMMA RefreshKeeps ==
  ASSUME NEW e, AppFits(e)
  PROVE  Keeps(e, RefreshConfigDataPage(e))
<1>1. Keeps(e, ClearWidgets(e))
  BY ClearKeeps
<1>2. Keeps(ClearWidgets(e), OnSelectChange(ClearWidgets(e)))
  BY <1>1, SelectChangeKeeps DEF Keeps
<1> QED BY <1>1, <1>2, KeepsTwice DEF RefreshConfigDataPage

-----------------------------------------------------------------------------
(* Loads *)

(***************************************************************************)
(* One file of a load.                                                     *)
(***************************************************************************)
LEMMA LoadNextKeeps ==
  ASSUME NEW e, AppFits(e), NEW o, NEW kind \in {"csv", "bin", "svd"}, NEW input,
         kind = "svd" => Len(input) \in Nat
  PROVE  Keeps(e, LoadNext(e, o, kind, input))
<1>1. Keeps(e, e) /\ Keeps(e, Fail(e))
  BY FailKeeps DEF Keeps
<1>2. o \in 1..Len(e.objs) => IsObject(e.objs[o])
  BY DEF AppFits, AppTypeOK
<1>3. kind = "csv" => Keeps(e, LoadInto(e, o, kind, input))
  <2> DEFINE r == OverrideDefaultValue(e.objs[o], input)
             put == [e EXCEPT !.objs[o] = r.cfg]
             f == CsvInto(e, o, r)
  <2>1. o \in 1..Len(e.objs) => SameXml(e.objs[o], r.cfg)
    BY <1>2, OverrideObject
  <2> HIDE DEF r
  <2>2. Keeps(e, put)
    BY <2>1, PutObjectKeeps
  <2>3. OnlyFlags(put, f)
    BY DEF CsvInto, OnlyFlags, AppFits, AppTypeOK
  <2> HIDE DEF put, f
  <2>4. Keeps(put, f)
    BY <2>2, <2>3, FlagsKeep DEF Keeps
  <2>5. Keeps(e, f)
    BY <2>2, <2>4, KeepsTwice
  <2> QED BY <2>5 DEF LoadInto, f, r
<1>4. ASSUME NEW r, o \in 1..Len(e.objs) => SameXml(e.objs[o], r.cfg)
      PROVE  Keeps(e, BinInto(e, o, r))
  <2> DEFINE put == [e EXCEPT !.objs[o] = r.cfg]
             f == [e EXCEPT !.objs[o] = r.cfg, !.err = TRUE]
  <2>1. Keeps(e, put)
    BY <1>4, PutObjectKeeps
  <2>2. OnlyFlags(put, f)
    BY DEF OnlyFlags, AppFits, AppTypeOK
  <2>3. BinInto(e, o, r) = IF r.err THEN f ELSE RefreshConfigDataPage(put)
    BY DEF BinInto
  <2> HIDE DEF put, f
  <2>4. AppFits(put)
    BY <2>1 DEF Keeps
  <2>5. Keeps(e, f)
    BY <2>1, <2>2, <2>4, FlagsKeep, KeepsTwice
  <2>6. Keeps(e, RefreshConfigDataPage(put))
    BY <2>1, <2>4, RefreshKeeps, KeepsTwice
  <2> QED BY <2>3, <2>5, <2>6
<1>5. kind = "bin" => Keeps(e, LoadInto(e, o, kind, input))
  <2> DEFINE r == LoadDefaultFromBin(e.objs[o], input)
  <2>1. o \in 1..Len(e.objs) => SameXml(e.objs[o], r.cfg)
    BY <1>2, LoadBinObject
  <2>2. Keeps(e, BinInto(e, o, r))
    <3> HIDE DEF r
    <3> QED BY <1>4, <2>1
  <2> QED BY <2>2 DEF LoadInto
<1>6. kind = "svd" => Keeps(e, LoadInto(e, o, kind, input))
  <2> SUFFICES ASSUME kind = "svd" PROVE Keeps(e, LoadInto(e, o, kind, input))
    OBVIOUS
  <2> DEFINE r == LoadFromSvd(e.objs[o], input)
  <2>1. o \in 1..Len(e.objs) => SameXml(e.objs[o], r.cfg)
    BY <1>2, LoadSvdObject
  <2>2. Keeps(e, BinInto(e, o, r))
    <3> HIDE DEF r
    <3> QED BY <1>4, <2>1
  <2> QED BY <2>2 DEF LoadInto
<1>7. Keeps(e, LoadInto(e, o, kind, input))
  BY <1>3, <1>5, <1>6
<1> QED BY <1>1, <1>7 DEF LoadNext

(***************************************************************************)
(* The loops over cfg_data_list.                                           *)
(***************************************************************************)
LEMMA LoadEachKeeps ==
  ASSUME NEW e, AppFits(e), NEW kind \in {"csv", "bin", "svd"}, NEW input,
         kind = "svd" => Len(input) \in Nat
  PROVE  Keeps(e, LoadEach(e, kind, input))
<1> DEFINE N == Len(e.files)
<1>1. N \in Nat
  BY DEF AppFits, AppTypeOK
<1>2. PICK f : /\ f[0] = e /\ LoadEach(e, kind, input) = f[N]
               /\ \A n \in 1..N : f[n] = LoadNext(f[n - 1], e.files[n].obj, kind, input)
  BY <1>1, LoadEachSteps
<1> HIDE DEF N
<1> DEFINE T == {n \in 0..N : Keeps(e, f[n])}
<1>3. 0 \in T
  BY <1>1, <1>2 DEF Keeps
<1>4. ASSUME NEW n \in 1..N, n - 1 \in T
      PROVE  n \in T
  <2> DEFINE p == f[n - 1]
             o == e.files[n].obj
  <2>1. Keeps(e, p) /\ f[n] = LoadNext(p, o, kind, input)
    BY <1>2, <1>4
  <2> HIDE DEF p, o
  <2>2. AppFits(p)
    BY <2>1 DEF Keeps
  <2>3. Keeps(p, LoadNext(p, o, kind, input))
    BY <2>2, LoadNextKeeps
  <2>4. Keeps(e, f[n])
    BY <2>1, <2>3, KeepsTwice
  <2> QED BY <2>4
<1>5. N \in T
  <2> HIDE DEF T
  <2>1. 0..N \subseteq T
    BY <1>1, <1>3, <1>4, BoundedInduction
  <2> QED BY <1>1, <2>1
<1> QED BY <1>2, <1>5

(***************************************************************************)
(* load_delta_file, load_bin_file and load_from_svd of the editor.         *)
(***************************************************************************)
LEMMA LoadFileKeeps ==
  ASSUME NEW e, AppFits(e), NEW input
  PROVE  /\ Keeps(e, LoadDeltaFile(e, input))
         /\ Keeps(e, LoadBinFile(e, input))
         /\ Len(input) \in Nat => Keeps(e, LoadSvdFile(e, input))
<1>1. Keeps(e, LoadBinFile(e, input))
  BY LoadEachKeeps DEF LoadBinFile
<1>2. Len(input) \in Nat => Keeps(e, LoadSvdFile(e, input))
  BY LoadEachKeeps DEF LoadSvdFile
<1>3. Keeps(e, LoadDeltaFile(e, input))
  <2> DEFINE all == LoadEach(e, "csv", input)
  <2>1. Keeps(e, all)
    BY LoadEachKeeps
  <2>2. LoadDeltaFile(e, input) = IF all.err \/ AppliesToNone(e, input) THEN all ELSE RefreshConfigDataPage(all)
    BY DEF LoadDeltaFile, Refreshed
  <2> HIDE DEF all
  <2>3. Keeps(e, RefreshConfigDataPage(all))
    BY <2>1, RefreshKeeps, KeepsTwice DEF Keeps
  <2> QED BY <2>1, <2>2, <2>3
<1> QED BY <1>1, <1>2, <1>3

-----------------------------------------------------------------------------
(* Opening *)

\* The entry of a file.
Has(e, id, o) == \E n \in 1..Len(e.files) : e.files[n] = [id |-> id, obj |-> o]

\* What the pages of object o are added to, and what stays as they are.
Hosts(e, x, id, o) == AppFits(e) /\ o \in 1..Len(e.objs) /\ e.objs[o].xml = x /\ Has(e, id, o)
Grows(e, f, x, id, o) ==
  Hosts(f, x, id, o) /\ f.files = e.files /\ f.objs = e.objs /\ f.wid = e.wid /\ (Owned(e) => Owned(f))

(***************************************************************************)
(* One page is added, also if its id is in the tree, which raises after    *)
(* the maps have been changed: they have the new object then.              *)
(***************************************************************************)
LEMMA AddPageGrows ==
  ASSUME NEW e, NEW x, NEW id, NEW o, Hosts(e, x, id, o), NEW page \in PagesOf(x)
  PROVE  Grows(e, AddPage(e, page, id, o), x, id, o)
<1> DEFINE pm == Put(e.pmap, page, id)
           pl == Put(e.plist, page, o)
           m == [e EXCEPT !.pmap = pm, !.plist = pl]
           f == AddToTree(m, page)
<1>1. CASE e.err
  BY <1>1 DEF AddPage, Grows
<1>2. CASE ~e.err
  <2>1. AddPage(e, page, id, o) = f
    BY <1>2 DEF AddPage
  <2>2. /\ \A p \in DOMAIN e.pmap : p \in DOMAIN pm /\ (p # page => pm[p] = e.pmap[p])
        /\ \A p \in DOMAIN e.plist : p \in DOMAIN pl /\ (p # page => pl[p] = e.plist[p])
        /\ page \in DOMAIN pm /\ pm[page] = id /\ page \in DOMAIN pl /\ pl[page] = o
    BY DEF Put
  <2> HIDE DEF pm, pl
  <2>3. /\ DOMAIN f = DOMAIN e /\ f.objs = e.objs /\ f.sel = e.sel /\ f.files = e.files
        /\ f.tree = e.tree \union {page} /\ f.pmap = pm /\ f.plist = pl
        /\ f.cur = e.cur /\ f.total = e.total /\ f.wid = e.wid
    <3>1. CASE page \in e.tree
      BY <3>1 DEF AddToTree, Fail, Hosts, AppFits, AppTypeOK
    <3>2. CASE page \notin e.tree
      BY <3>2 DEF AddToTree, Hosts, AppFits, AppTypeOK
    <3> QED BY <3>1, <3>2
  <2> HIDE DEF m, f
  <2>4. AppTypeOK(f)
    BY <2>3 DEF Hosts, AppFits, AppTypeOK
  <2>5. TreeFits(f)
    <3>1. ASSUME NEW p \in f.tree
          PROVE  /\ p \in DOMAIN f.pmap /\ p \in DOMAIN f.plist
                 /\ f.plist[p] \in 1..Len(f.objs) /\ p \in PagesOf(f.objs[f.plist[p]].xml)
      <4>1. CASE p = page
        BY <2>2, <2>3, <4>1 DEF Hosts
      <4>2. CASE p # page
        BY <2>2, <2>3, <4>2 DEF Hosts, AppFits, TreeFits
      <4> QED BY <4>1, <4>2
    <3>2. f.sel = None \/ f.sel \in f.tree
      BY <2>3 DEF Hosts, AppFits, TreeFits
    <3> QED BY <3>1, <3>2 DEF TreeFits
  <2>6. PageFits(f)
    BY <2>3 DEF Hosts, AppFits, PageFits, Showing
  <2>7. Hosts(f, x, id, o)
    BY <2>3, <2>4, <2>5, <2>6 DEF Hosts, AppFits, Has
  <2>8. Owned(e) => Owned(f)
    <3> SUFFICES ASSUME Owned(e), NEW p \in f.tree
                 PROVE  \E n \in 1..Len(f.files) : f.files[n] = [id |-> f.pmap[p], obj |-> f.plist[p]]
      BY DEF Owned
    <3>1. CASE p = page
      BY <2>2, <2>3, <3>1 DEF Hosts, Has
    <3>2. CASE p # page
      <4>1. p \in e.tree /\ p \in DOMAIN e.pmap /\ p \in DOMAIN e.plist
        BY <2>3, <3>2 DEF Hosts, AppFits, TreeFits
      <4>2. f.pmap[p] = e.pmap[p] /\ f.plist[p] = e.plist[p]
        BY <2>2, <2>3, <3>2, <4>1
      <4> QED BY <2>3, <4>1, <4>2 DEF Owned
    <3> QED BY <3>1, <3>2
  <2> QED BY <2>1, <2>3, <2>7, <2>8 DEF Grows
<1> QED BY <1>1, <1>2

(***************************************************************************)
(* One growth after the other.                                             *)
(***************************************************************************)
LEMMA GrowsTwice ==
  ASSUME NEW e, NEW f, NEW g, NEW x, NEW id, NEW o, Grows(e, f, x, id, o), Grows(f, g, x, id, o)
  PROVE  Grows(e, g, x, id, o)
BY DEF Grows

(***************************************************************************)
(* The page of a namespace and those of its knobs.                         *)
(***************************************************************************)
LEMMA AddSpaceGrows ==
  ASSUME NEW e, NEW x \in DOMAIN knobs, NEW id, NEW o, Hosts(e, x, id, o), NEW j \in DOMAIN knobs[x]
  PROVE  Grows(e, AddSpace(e, x, knobs[x][j].ns, id, o), x, id, o)
<1> DEFINE ns == knobs[x][j].ns
           N == Len(knobs[x])
<1>1. N \in Nat /\ DOMAIN knobs[x] = 1..N
  BY ItemsAssumption
<1>2. PICK f : /\ f[0] = AddPage(e, SpacePage(ns), id, o) /\ AddSpace(e, x, ns, id, o) = f[N]
               /\ \A n \in 1..N : f[n] = AddKnob(f[n - 1], x, ns, n, id, o)
  BY <1>1, AddSpaceSteps
<1>3. SpacePage(ns) \in PagesOf(x)
  BY DEF PagesOf
<1>4. \A k \in 1..N : PageOf(x, k) \in PagesOf(x)
  BY <1>1 DEF PagesOf
<1> HIDE DEF N, ns
<1> DEFINE T == {n \in 0..N : Grows(e, f[n], x, id, o)}
<1>5. 0 \in T
  BY <1>1, <1>2, <1>3, AddPageGrows
<1>6. ASSUME NEW n \in 1..N, n - 1 \in T
      PROVE  n \in T
  <2> DEFINE p == f[n - 1]
  <2>1. Grows(e, p, x, id, o) /\ f[n] = AddKnob(p, x, ns, n, id, o)
    BY <1>2, <1>6
  <2> HIDE DEF p
  <2>2. Grows(p, AddPage(p, PageOf(x, n), id, o), x, id, o)
    BY <1>4, <2>1, AddPageGrows DEF Grows
  <2>3. Grows(e, AddPage(p, PageOf(x, n), id, o), x, id, o)
    BY <2>1, <2>2, GrowsTwice
  <2>4. Grows(e, f[n], x, id, o)
    BY <2>1, <2>3 DEF AddKnob
  <2> QED BY <2>4
<1>7. N \in T
  <2> HIDE DEF T
  <2>1. 0..N \subseteq T
    BY <1>1, <1>5, <1>6, BoundedInduction
  <2> QED BY <1>1, <2>1
<1> QED BY <1>2, <1>7 DEF ns

(***************************************************************************)
(* All pages of an XML file.                                               *)
(***************************************************************************)
LEMMA AddSpacesGrows ==
  ASSUME NEW e, NEW x \in DOMAIN knobs, NEW id, NEW o, Hosts(e, x, id, o)
  PROVE  Grows(e, AddSpaces(e, x, id, o), x, id, o)
<1> DEFINE N == Len(knobs[x])
<1>1. N \in Nat /\ DOMAIN knobs[x] = 1..N
  BY ItemsAssumption
<1>2. PICK f : /\ f[0] = e /\ AddSpaces(e, x, id, o) = f[N]
               /\ \A n \in 1..N : f[n] = AddSpaceAt(f[n - 1], x, n, id, o)
  BY <1>1, AddSpacesSteps
<1> HIDE DEF N
<1> DEFINE T == {n \in 0..N : Grows(e, f[n], x, id, o)}
<1>3. 0 \in T
  BY <1>1, <1>2 DEF Grows
<1>4. ASSUME NEW n \in 1..N, n - 1 \in T
      PROVE  n \in T
  <2> DEFINE p == f[n - 1]
             q == AddSpace(p, x, knobs[x][n].ns, id, o)
  <2>1. Grows(e, p, x, id, o) /\ f[n] = IF NewSpace(x, n) THEN q ELSE p
    BY <1>2, <1>4 DEF AddSpaceAt
  <2> HIDE DEF p
  <2>2. Grows(p, q, x, id, o)
    BY <1>1, <2>1, AddSpaceGrows DEF Grows
  <2> HIDE DEF q
  <2>3. Grows(e, q, x, id, o)
    BY <2>1, <2>2, GrowsTwice
  <2>4. Grows(e, f[n], x, id, o)
    BY <2>1, <2>3
  <2> QED BY <2>4
<1>5. N \in T
  <2> HIDE DEF T
  <2>1. 0..N \subseteq T
    BY <1>1, <1>3, <1>4, BoundedInduction
  <2> QED BY <1>1, <2>1
<1> QED BY <1>2, <1>5

\* The entry is there, and the others are.
IsPut(put, files, id, o) ==
  /\ put \in Seq([id : Nat, obj : Nat])
  /\ \E n \in 1..Len(put) : put[n] = [id |-> id, obj |-> o]
  /\ \A n \in 1..Len(put) : put[n].obj = o \/ (n \in 1..Len(files) /\ put[n] = files[n])
  /\ (\A n \in 1..Len(files) : files[n].id # id) => put = Append(files, [id |-> id, obj |-> o])

(***************************************************************************)
(* A file gets an entry: its own if the id is new, or that of the id.      *)
(***************************************************************************)
LEMMA PutFileEntry ==
  ASSUME NEW files \in Seq([id : Nat, obj : Nat]), NEW id \in Nat, NEW o \in Nat
  PROVE  IsPut(PutFile(files, id, o), files, id, o)
<1> DEFINE F == [id : Nat, obj : Nat]
           new == [id |-> id, obj |-> o]
           put == PutFile(files, id, o)
<1>0. new \in F /\ new.id = id /\ new.obj = o /\ Len(files) \in Nat /\ DOMAIN files = 1..Len(files)
  OBVIOUS
<1>1. CASE \E n \in 1..Len(files) : files[n].id = id
  <2>1. put = [n \in 1..Len(files) |-> IF files[n].id = id THEN new ELSE files[n]]
    BY <1>0, <1>1 DEF PutFile
  <2>2. put \in Seq(F) /\ Len(put) = Len(files)
    <3>1. \A n \in 1..Len(files) : (IF files[n].id = id THEN new ELSE files[n]) \in F
      <4>0. files \in Seq(F)
        OBVIOUS
      <4> HIDE DEF F, new
      <4>1. \A n \in 1..Len(files) : files[n] \in F
        BY <4>0, ElementOfSeq
      <4> QED BY <1>0, <4>1
    <3> HIDE DEF put, F, new
    <3> QED BY <1>0, <2>1, <3>1
  <2>3. \A n \in 1..Len(files) : put[n] = IF files[n].id = id THEN new ELSE files[n]
    <3> HIDE DEF put, new
    <3> QED BY <2>1
  <2> HIDE DEF put, new
  <2>4. PICK k \in 1..Len(files) : files[k].id = id
    BY <1>1
  <2>5. put[k] = new /\ k \in 1..Len(put)
    BY <2>2, <2>3, <2>4
  <2>6. \A n \in 1..Len(put) : put[n].obj = o \/ (n \in 1..Len(files) /\ put[n] = files[n])
    BY <1>0, <2>2, <2>3
  <2>7. ~\A n \in 1..Len(files) : files[n].id # id
    BY <1>1
  <2>8. IsPut(put, files, id, o)
    BY <2>2, <2>5, <2>6, <2>7 DEF new, IsPut
  <2> QED BY <2>8 DEF put
<1>2. CASE ~\E n \in 1..Len(files) : files[n].id = id
  <2>1. put = Append(files, new)
    BY <1>0, <1>2 DEF PutFile
  <2> HIDE DEF put, new
  <2>2. put \in Seq(F) /\ Len(put) = Len(files) + 1 /\ put[Len(files) + 1] = new
    BY <1>0, <2>1
  <2>3. \A n \in 1..Len(files) : put[n] = files[n]
    BY <1>0, <2>1
  <2>4. Len(files) + 1 \in 1..Len(put)
    BY <1>0, <2>2
  <2>5. \A n \in 1..Len(put) : put[n].obj = o \/ (n \in 1..Len(files) /\ put[n] = files[n])
    <3> TAKE n \in 1..Len(put)
    <3>1. n \in 1..Len(files) \/ n = Len(files) + 1
      BY <1>0, <2>2
    <3> QED BY <1>0, <2>2, <2>3, <3>1
  <2>6. IsPut(put, files, id, o)
    BY <2>1, <2>2, <2>4, <2>5 DEF new, IsPut
  <2> QED BY <2>6 DEF put
<1> QED BY <1>1, <1>2

\* There is a file more, behind the others.
OneMore(e, f) ==
  /\ Belongs(f) /\ Len(f.files) = Len(e.files) + 1
  /\ \A n \in 1..Len(e.files) : f.files[n] = e.files[n]

\* At most one object more.
OneLoaded(e, f) == f.objs = e.objs \/ \E x \in DOMAIN knobs : f.objs = Append(e.objs, LoadXml(x))

\* What opening a file does: the application fits again and the fields stay; where the
\* id is the number of files it is the next one, and the pages belong to the files.
Opens(e, f, id) ==
  AppFits(f) /\ f.wid = e.wid /\ OneLoaded(e, f) /\ (Belongs(e) /\ id = Len(e.files) => OneMore(e, f))

\* The same with the old files cleared out.
Reopens(e, f) == AppFits(f) /\ f.wid = NoWidgets /\ OneLoaded(e, f) /\ Belongs(f)

(***************************************************************************)
(* The next entry leaves the pages their files.                            *)
(***************************************************************************)
LEMMA NextEntryBelongs ==
  ASSUME NEW e, AppFits(e), Belongs(e), NEW o \in Nat, NEW f,
         f.files = PutFile(e.files, Len(e.files), o), f.tree = e.tree, f.pmap = e.pmap, f.plist = e.plist
  PROVE  OneMore(e, f)
<1> DEFINE new == [id |-> Len(e.files), obj |-> o]
<1>1. e.files \in Seq([id : Nat, obj : Nat]) /\ Len(e.files) \in Nat
  BY DEF AppFits, AppTypeOK
<1>2. \A n \in 1..Len(e.files) : e.files[n].id # Len(e.files)
  BY <1>1 DEF Belongs
<1>3. f.files = Append(e.files, new)
  BY <1>1, <1>2, PutFileEntry DEF IsPut
<1>4. new.id = Len(e.files) /\ new \in [id : Nat, obj : Nat]
  BY <1>1
<1> HIDE DEF new
<1>5. Len(f.files) = Len(e.files) + 1 /\ f.files[Len(e.files) + 1] = new
  BY <1>1, <1>3, <1>4
<1>6. \A n \in 1..Len(e.files) : n \in 1..Len(f.files) /\ f.files[n] = e.files[n]
  BY <1>1, <1>3, <1>4, <1>5
<1>7. \A n \in 1..Len(f.files) : f.files[n].id = n - 1
  <2> TAKE n \in 1..Len(f.files)
  <2>1. n \in 1..Len(e.files) \/ n = Len(e.files) + 1
    BY <1>1, <1>5
  <2>2. CASE n \in 1..Len(e.files)
    BY <1>6, <2>2 DEF Belongs
  <2>3. CASE n = Len(e.files) + 1
    BY <1>1, <1>4, <1>5, <2>3
  <2> QED BY <2>1, <2>2, <2>3
<1>8. Owned(f)
  BY <1>6 DEF Belongs, Owned
<1> QED BY <1>5, <1>6, <1>7, <1>8 DEF Belongs, OneMore

(***************************************************************************)
(* A file that loads: the object, its entry and its pages.                 *)
(***************************************************************************)
LEMMA BuildTreeOpens ==
  ASSUME NEW e, AppFits(e), NEW x \in DOMAIN knobs, NEW id \in Nat
  PROVE  Opens(e, BuildTree(e, x, id, Len(e.objs) + 1), id)
<1> DEFINE o == Len(e.objs) + 1
           files == PutFile(e.files, id, o)
           s == Entered(e, x, id, o)
           p == AddPage(s, FilePage(x), id, o)
           f == AddSpaces(p, x, id, o)
<1>1. /\ \E S : e.objs \in Seq(S)
      /\ e.files \in Seq([id : Nat, obj : Nat]) /\ Len(e.files) \in Nat
      /\ \A n \in 1..Len(e.objs) : IsObject(e.objs[n])
      /\ \A n \in 1..Len(e.files) : e.files[n].obj <= Len(e.objs)
  BY DEF AppFits, AppTypeOK
<1>2. PICK S : e.objs \in Seq(S)
  BY <1>1
<1>3. Len(e.objs) \in Nat /\ o \in Nat
  BY <1>2
<1>4. /\ DOMAIN s = DOMAIN e /\ s.objs = Append(e.objs, LoadXml(x)) /\ s.sel = e.sel
      /\ s.files = files /\ s.tree = e.tree /\ s.pmap = e.pmap /\ s.plist = e.plist
      /\ s.cur = e.cur /\ s.total = e.total /\ s.wid = e.wid
  BY DEF Entered, AppFits, AppTypeOK
<1>5. BuildTree(e, x, id, o) = f
  BY DEF BuildTree
<1> HIDE DEF s, f
<1>6. /\ Len(s.objs) = o /\ s.objs[o] = LoadXml(x)
      /\ s.objs \in Seq(S \union {LoadXml(x)})
      /\ \A n \in 1..Len(e.objs) : n \in 1..o /\ s.objs[n] = e.objs[n]
  <2>1. e.objs \in Seq(S \union {LoadXml(x)})
    BY <1>2, SeqMonotonic
  <2> QED BY <1>3, <1>4, <2>1
<1>7. /\ s.files \in Seq([id : Nat, obj : Nat]) /\ Has(s, id, o)
      /\ \A n \in 1..Len(s.files) : s.files[n].obj = o \/ (n \in 1..Len(e.files) /\ s.files[n] = e.files[n])
  <2>1. IsPut(s.files, e.files, id, o)
    BY <1>1, <1>3, <1>4, PutFileEntry
  <2> QED BY <2>1 DEF Has, IsPut
<1>8. \A n \in 1..o : IsObject(s.objs[n])
  <2> TAKE n \in 1..o
  <2>1. n \in 1..Len(e.objs) \/ n = o
    BY <1>3
  <2> QED BY <1>1, <1>6, <2>1, LoadXmlObject
<1>9. \A n \in 1..Len(s.files) : s.files[n].obj <= o
  <2> TAKE n \in 1..Len(s.files)
  <2>1. CASE s.files[n].obj = o
    BY <1>3, <2>1
  <2>2. CASE n \in 1..Len(e.files) /\ s.files[n] = e.files[n]
    <3>1. e.files[n].obj \in Nat /\ e.files[n].obj <= Len(e.objs)
      <4>1. e.files[n] \in [id : Nat, obj : Nat]
        BY <1>1, <2>2, ElementOfSeq
      <4> QED BY <1>1, <2>2, <4>1
    <3> QED BY <1>3, <2>2, <3>1
  <2> QED BY <1>7, <2>1, <2>2
<1> HIDE DEF o
<1>10. AppTypeOK(s)
  BY <1>4, <1>6, <1>7, <1>8, <1>9 DEF AppFits, AppTypeOK
<1>11. TreeFits(s)
  BY <1>4, <1>6 DEF AppFits, TreeFits
<1>12. PageFits(s)
  BY <1>4, <1>6 DEF AppFits, PageFits, Showing
<1>13. Hosts(s, x, id, o)
  <2>1. o \in 1..o
    BY <1>3 DEF o
  <2> QED BY <1>6, <1>7, <1>10, <1>11, <1>12, <2>1, LoadXmlObject DEF Hosts, AppFits
<1>14. Grows(s, p, x, id, o)
  BY <1>13, AddPageGrows DEF PagesOf
<1> HIDE DEF p
<1>15. Grows(s, f, x, id, o)
  <2>1. Grows(p, f, x, id, o)
    BY <1>14, AddSpacesGrows DEF Grows, f
  <2> QED BY <1>14, <2>1, GrowsTwice
<1>16. AppFits(f)
  BY <1>15 DEF Grows, Hosts
<1>17. ASSUME Belongs(e), id = Len(e.files)
       PROVE  OneMore(e, f)
  <2> HIDE DEF files
  <2>1. s.files = PutFile(e.files, Len(e.files), o)
    BY <1>4, <1>17 DEF files
  <2>2. OneMore(e, s)
    BY <1>3, <1>4, <1>17, <2>1, NextEntryBelongs
  <2> QED BY <1>15, <2>2 DEF Grows, Belongs, OneMore
<1>18. f.wid = e.wid /\ OneLoaded(e, f)
  BY <1>4, <1>15 DEF Grows, OneLoaded
<1>19. Opens(e, f, id)
  BY <1>16, <1>17, <1>18 DEF Opens
<1> QED BY <1>5, <1>19 DEF o

(***************************************************************************)
(* A file is read, or does not load and leaves an entry without an object. *)
(***************************************************************************)
LEMMA ReadCfgFileOpens ==
  ASSUME NEW e, AppFits(e), NEW x \in XmlFiles, NEW id \in Nat
  PROVE  Opens(e, ReadCfgFile(e, x, id), id)
<1>1. CASE x = Broken
  <2> DEFINE m == [e EXCEPT !.files = PutFile(@, id, 0)]
             f == Fail(m)
  <2>1. ReadCfgFile(e, x, id) = f
    BY <1>1 DEF ReadCfgFile
  <2>2. /\ DOMAIN f = DOMAIN e /\ f.objs = e.objs /\ f.sel = e.sel
        /\ f.files = PutFile(e.files, id, 0) /\ f.tree = e.tree /\ f.pmap = e.pmap /\ f.plist = e.plist
        /\ f.cur = e.cur /\ f.total = e.total /\ f.wid = e.wid
    BY DEF Fail, AppFits, AppTypeOK
  <2> HIDE DEF f
  <2>3. e.files \in Seq([id : Nat, obj : Nat]) /\ \A n \in 1..Len(e.files) : e.files[n].obj <= Len(e.objs)
    BY DEF AppFits, AppTypeOK
  <2>4. Len(e.objs) \in Nat
    BY DEF AppFits, AppTypeOK
  <2>5. /\ f.files \in Seq([id : Nat, obj : Nat])
        /\ \A n \in 1..Len(f.files) : f.files[n].obj = 0 \/ (n \in 1..Len(e.files) /\ f.files[n] = e.files[n])
    <3>1. IsPut(f.files, e.files, id, 0)
      BY <2>2, <2>3, PutFileEntry
    <3> QED BY <3>1 DEF IsPut
  <2>6. \A n \in 1..Len(f.files) : f.files[n].obj <= Len(f.objs)
    <3> TAKE n \in 1..Len(f.files)
    <3>1. CASE f.files[n].obj = 0
      BY <2>2, <2>4, <3>1
    <3>2. CASE n \in 1..Len(e.files) /\ f.files[n] = e.files[n]
      BY <2>2, <2>3, <3>2
    <3> QED BY <2>5, <3>1, <3>2
  <2>7. AppTypeOK(f)
    BY <2>2, <2>5, <2>6 DEF AppFits, AppTypeOK
  <2>8. TreeFits(f) /\ PageFits(f)
    BY <2>2 DEF AppFits, TreeFits, PageFits, Showing
  <2>9. Belongs(e) /\ id = Len(e.files) => OneMore(e, f)
    BY <2>2, NextEntryBelongs
  <2> QED BY <2>1, <2>2, <2>7, <2>8, <2>9 DEF Opens, OneLoaded, AppFits
<1>2. CASE x # Broken
  <2> DEFINE built == BuildTree(e, x, id, Len(e.objs) + 1)
             f == Enabled(built, x)
  <2>1. ReadCfgFile(e, x, id) = f
    BY <1>2 DEF ReadCfgFile
  <2>2. Opens(e, built, id)
    BY <1>2, BuildTreeOpens DEF XmlFiles
  <2> HIDE DEF built
  <2>3. AppFits(built)
    BY <2>2 DEF Opens
  <2>4. OnlyFlags(built, f)
    BY <2>3 DEF OnlyFlags, Enabled, AppFits, AppTypeOK
  <2> HIDE DEF f
  <2>5. Keeps(built, f)
    BY <2>3, <2>4, FlagsKeep
  <2>6. OneMore(e, built) => OneMore(e, f)
    BY <2>5 DEF Keeps, Belongs, Owned, OneMore
  <2> QED BY <2>1, <2>2, <2>4, <2>5, <2>6 DEF Opens, OneLoaded, Keeps, OnlyFlags
<1> QED BY <1>1, <1>2

(***************************************************************************)
(* load_cfg_file.  With the old files cleared out, the pages belong to the *)
(* files whatever was before.                                              *)
(***************************************************************************)
LEMMA LoadCfgFileOpens ==
  ASSUME NEW e, AppFits(e), NEW x \in XmlFiles, NEW id \in Nat
  PROVE  /\ Opens(e, LoadCfgFile(e, x, id, FALSE), id)
         /\ id = 0 => Reopens(e, LoadCfgFile(e, x, id, TRUE))
<1>1. Opens(e, LoadCfgFile(e, x, id, FALSE), id)
  BY ReadCfgFileOpens DEF LoadCfgFile
<1>2. ASSUME id = 0
      PROVE  Reopens(e, LoadCfgFile(e, x, id, TRUE))
  <2> DEFINE c == ClearWidgets(e)
             s == [ClearWidgets(e) EXCEPT !.tree = {}, !.files = <<>>, !.sel = None]
  <2>1. LoadCfgFile(e, x, id, TRUE) = ReadCfgFile(s, x, id)
    BY DEF LoadCfgFile
  <2>2. AppFits(c) /\ c.wid = NoWidgets /\ c.objs = e.objs
    BY ClearKeeps DEF Keeps, ClearWidgets, AppFits, AppTypeOK
  <2>3. /\ DOMAIN s = DOMAIN c /\ s.objs = c.objs /\ s.sel = None /\ s.files = <<>> /\ s.tree = {}
        /\ s.cur = c.cur /\ s.total = c.total /\ s.wid = NoWidgets
    <3> HIDE DEF c
    <3>1. s = [c EXCEPT !.tree = {}, !.files = <<>>, !.sel = None]
      BY DEF c
    <3> HIDE DEF s
    <3> QED BY <2>2, <3>1 DEF AppFits, AppTypeOK
  <2> HIDE DEF c, s
  <2>4. <<>> \in Seq([id : Nat, obj : Nat]) /\ Len(<<>>) = 0
    OBVIOUS
  <2>5. AppTypeOK(s)
    BY <2>2, <2>3, <2>4 DEF AppFits, AppTypeOK
  <2>6. TreeFits(s) /\ PageFits(s)
    BY <2>3 DEF TreeFits, PageFits
  <2>7. Belongs(s) /\ id = Len(s.files)
    BY <1>2, <2>3, <2>4 DEF Belongs, Owned
  <2>8. Opens(s, ReadCfgFile(s, x, id), id)
    BY <2>5, <2>6, ReadCfgFileOpens DEF AppFits
  <2> QED BY <2>1, <2>2, <2>3, <2>7, <2>8 DEF Opens, OneMore, Reopens, OneLoaded
<1> QED BY <1>1, <1>2

-----------------------------------------------------------------------------
(* Saves *)

(***************************************************************************)
(* The change files: each object loads its own binary first.               *)
(***************************************************************************)
LEMMA SaveDeltasKeep ==
  ASSUME AppFits(ed), NEW full
  PROVE  Keeps(ed, SaveDeltas(full).e)
<1> DEFINE N == Len(ed.files)
           Right(st) == DOMAIN st = {"e", "csv"} /\ Keeps(ed, st.e)
<1>1. N \in Nat
  BY DEF AppFits, AppTypeOK
<1>2. PICK f : /\ f[0] = [e |-> ed, csv |-> disk.csv] /\ SaveDeltas(full) = f[N]
               /\ \A n \in 1..N : f[n] = SaveDeltaStep(f[n - 1], full, n)
  BY <1>1, SaveDeltasSteps
<1> HIDE DEF N
<1> DEFINE T == {n \in 0..N : Right(f[n])}
<1>3. 0 \in T
  BY <1>1, <1>2 DEF Keeps
<1>4. ASSUME NEW n \in 1..N, n - 1 \in T
      PROVE  n \in T
  <2> DEFINE st == f[n - 1]
             up == UpdateConfigDataOnPage(st.e)
             o == up.files[n].obj
             w == GenerateDeltaFileFromBin(up.objs[o], GenerateBinaryArray(up.objs[o]), full)
             put == [up EXCEPT !.objs[o] = w.cfg]
             saved == [up EXCEPT !.objs[o] = w.cfg, !.err = w.err]
  <2>1. Right(st) /\ f[n] = SaveDeltaStep(st, full, n)
    BY <1>2, <1>4
  <2> HIDE DEF st
  <2>2. Keeps(ed, up)
    <3>1. AppFits(st.e)
      BY <2>1 DEF Keeps
    <3>2. Keeps(st.e, up)
      BY <3>1, UpdatePageKeeps DEF KeepsShown
    <3> QED BY <2>1, <3>2, KeepsTwice
  <2>3. f[n] = IF st.e.err THEN st ELSE SaveObject(st, up, full, o)
    BY <2>1 DEF SaveDeltaStep, SaveUpdated
  <2>4. SaveObject(st, up, full, o) = IF up.err \/ o = 0 THEN [st EXCEPT !.e = Fail(up)] ELSE CsvSaved(st, up, o, w)
    BY DEF SaveObject
  <2>5. CsvSaved(st, up, o, w) = [e |-> saved, csv |-> CsvSaved(st, up, o, w).csv]
    BY DEF CsvSaved
  <2> HIDE DEF up, o
  <2>6. AppFits(up)
    BY <2>2 DEF Keeps
  <2>7. Keeps(ed, Fail(up))
    BY <2>2, <2>6, FailKeeps, KeepsTwice
  <2>8. o \in 1..Len(up.objs) => SameXml(up.objs[o], w.cfg)
    <3>1. o \in 1..Len(up.objs) => IsObject(up.objs[o])
      BY <2>6 DEF AppFits, AppTypeOK
    <3> QED BY <3>1, GenerateDeltaObject
  <2> HIDE DEF w
  <2>9. Keeps(up, put)
    BY <2>6, <2>8, PutObjectKeeps
  <2>10. OnlyFlags(put, saved)
    BY <2>6 DEF OnlyFlags, AppFits, AppTypeOK
  <2> HIDE DEF put, saved
  <2>11. Keeps(put, saved)
    BY <2>9, <2>10, FlagsKeep DEF Keeps
  <2>12. Keeps(ed, saved)
    BY <2>2, <2>9, <2>11, KeepsTwice
  <2>13. Right(f[n])
    <3>1. CASE st.e.err
      BY <2>1, <2>3, <3>1
    <3>2. CASE ~st.e.err /\ (up.err \/ o = 0)
      <4>1. f[n] = [st EXCEPT !.e = Fail(up)]
        BY <2>3, <2>4, <3>2
      <4> QED BY <2>1, <2>7, <4>1
    <3>3. CASE ~st.e.err /\ ~(up.err \/ o = 0)
      <4>1. f[n] = [e |-> saved, csv |-> CsvSaved(st, up, o, w).csv]
        BY <2>3, <2>4, <2>5, <3>3
      <4> QED BY <2>12, <4>1
    <3> QED BY <3>1, <3>2, <3>3
  <2> QED BY <2>13
<1>5. N \in T
  <2> HIDE DEF T
  <2>1. 0..N \subseteq T
    BY <1>1, <1>3, <1>4, BoundedInduction
  <2> QED BY <1>1, <2>1
<1> QED BY <1>2, <1>5

(***************************************************************************)
(* Lists of any elements are lists over all of their elements.             *)
(***************************************************************************)
LEMMA ListsOfOneKind ==
  ASSUME NEW N \in Nat, NEW seqs, seqs = [n \in 1..N |-> seqs[n]],
         \A n \in 1..N : \E S : seqs[n] \in Seq(S)
  PROVE  \E V : seqs \in Seq(Seq(V))
<1> DEFINE V == UNION {{seqs[n][i] : i \in 1..Len(seqs[n])} : n \in 1..N}
<1>1. ASSUME NEW n \in 1..N PROVE seqs[n] \in Seq(V)
  <2> DEFINE s == seqs[n]
  <2>1. PICK S : s \in Seq(S)
    OBVIOUS
  <2>2. Len(s) \in Nat /\ s \in [1..Len(s) -> S]
    BY <2>1, LenProperties
  <2>3. \A i \in 1..Len(s) : s[i] \in V
    OBVIOUS
  <2> HIDE DEF V, s
  <2>4. s \in [1..Len(s) -> V]
    BY <2>2, <2>3
  <2>5. s \in Seq(V)
    BY <2>2, <2>4, SeqDef
  <2> QED BY <2>5 DEF s
<1> HIDE DEF V
<1>2. seqs \in [1..N -> Seq(V)]
  BY <1>1
<1> QED BY <1>2, SeqDef

(***************************************************************************)
(* Lists of any elements, joined, are a list.                              *)
(***************************************************************************)
LEMMA FlattenLists ==
  ASSUME NEW N \in Nat, NEW seqs, seqs = [n \in 1..N |-> seqs[n]],
         \A n \in 1..N : \E S : seqs[n] \in Seq(S)
  PROVE  \E S : FlattenSeq(seqs) \in Seq(S)
<1>1. PICK V : seqs \in Seq(Seq(V))
  BY ListsOfOneKind
<1>2. PICK f \in [0..Len(seqs) -> Seq(V)] : FlattenSeq(seqs) = f[Len(seqs)]
  BY <1>1, FlattenSteps
<1>3. Len(seqs) \in 0..Len(seqs)
  BY <1>1
<1> QED BY <1>2, <1>3

(***************************************************************************)
(* What is written to an SVD file is a list.                               *)
(***************************************************************************)
LEMMA SvdListIsList ==
  ASSUME PacksLists, NEW e, AppFits(e), NEW full
  PROVE  IsList(SvdList(e, full))
<1>0. /\ Len(e.files) \in Nat /\ DOMAIN e.files = 1..Len(e.files) /\ Len(e.objs) \in Nat
      /\ \A n \in 1..Len(e.files) : e.files[n].obj # 0 => e.objs[e.files[n].obj].xml \in DOMAIN knobs
  <2>1. e.files \in Seq([id : Nat, obj : Nat]) /\ Len(e.objs) \in Nat
    BY DEF AppFits, AppTypeOK
  <2>2. \A n \in 1..Len(e.files) : e.files[n] \in [id : Nat, obj : Nat]
    BY <2>1, ElementOfSeq
  <2>3. \A n \in 1..Len(e.files) : e.files[n].obj # 0 => e.files[n].obj \in 1..Len(e.objs)
    BY <2>1, <2>2 DEF AppFits, AppTypeOK
  <2> QED BY <2>1, <2>3 DEF AppFits, AppTypeOK, IsObject
<1>1. IsList(FullList(e))
  <2> DEFINE Of(c) == GenerateBinaryArray(c)
             seqs == [n \in DOMAIN e.files |-> Of(e.objs[e.files[n].obj])]
             bad == \E n \in DOMAIN e.files : e.files[n].obj = 0 \/ Of(e.objs[e.files[n].obj]) = Error
  <2>1. FullList(e) = IF e.err \/ bad THEN Error ELSE FlattenSeq(seqs)
    BY DEF FullList, AllBinaries
  <2>2. CASE e.err \/ bad
    BY <2>1, <2>2 DEF IsList
  <2>3. CASE ~(e.err \/ bad)
    <3>1. \A n \in 1..Len(e.files) : \E S : seqs[n] \in Seq(S)
      BY <1>0, <2>3 DEF PacksLists, IsList, GenerateBinaryArray
    <3>2. seqs = [n \in 1..Len(e.files) |-> seqs[n]]
      BY <1>0
    <3> HIDE DEF seqs
    <3>3. \E S : FlattenSeq(seqs) \in Seq(S)
      BY <1>0, <3>1, <3>2, FlattenLists
    <3> HIDE DEF bad
    <3> QED BY <2>1, <2>3, <3>3 DEF IsList
  <2> QED BY <2>2, <2>3
<1>2. IsList(DeltaList(e))
  <2> DEFINE Of(c) == GenerateDeltaBinaryArray(c)
             seqs == [n \in DOMAIN e.files |-> Of(e.objs[e.files[n].obj])]
             bad == \E n \in DOMAIN e.files : e.files[n].obj = 0 \/ Of(e.objs[e.files[n].obj]) = Error
  <2>1. DeltaList(e) = IF e.err \/ bad THEN Error ELSE FlattenSeq(seqs)
    BY DEF DeltaList, AllBinaries
  <2>2. CASE e.err \/ bad
    BY <2>1, <2>2 DEF IsList
  <2>3. CASE ~(e.err \/ bad)
    <3>1. \A n \in 1..Len(e.files) : \E S : seqs[n] \in Seq(S)
      BY <1>0, <2>3 DEF PacksLists, IsList, GenerateDeltaBinaryArray
    <3>2. seqs = [n \in 1..Len(e.files) |-> seqs[n]]
      BY <1>0
    <3> HIDE DEF seqs
    <3>3. \E S : FlattenSeq(seqs) \in Seq(S)
      BY <1>0, <3>1, <3>2, FlattenLists
    <3> HIDE DEF bad
    <3> QED BY <2>1, <2>3, <3>3 DEF IsList
  <2> QED BY <2>2, <2>3
<1> QED BY <1>1, <1>2 DEF SvdList

(***************************************************************************)
(* The settings of an SVD file can be counted.                             *)
(***************************************************************************)
LEMMA SinglyCounts ==
  ASSUME NEW list, IsList(list), list # Error
  PROVE  Len(Singly(list)) \in Nat
<1>1. PICK S : list \in Seq(S)
  BY DEF IsList
<1>2. Len(list) \in Nat /\ DOMAIN list = 1..Len(list)
  BY <1>1
<1>3. Singly(list) = [n \in 1..Len(list) |-> <<list[n]>>]
  BY <1>2 DEF Singly
<1> QED BY <1>2, <1>3

-----------------------------------------------------------------------------
(* The events *)

\* What an event of the user leaves: the application and the files on disk fit, the
\* pages belong to their files if they did, and no argument is left to handle.
Stays == AppFits(ed') /\ DiskFits' /\ (Belongs(ed) => Belongs(ed')) /\ args' = args

(***************************************************************************)
(* The handler returns, whether it raised or not.                          *)
(***************************************************************************)
LEMMA HandlerKeeps ==
  ASSUME NEW e, NEW f, Keeps(e, f), NEW g, g = [f EXCEPT !.err = FALSE]
  PROVE  AppFits(g) /\ (Belongs(e) => Belongs(g)) /\ g.files = e.files
<1>1. OnlyFlags(f, g)
  BY DEF OnlyFlags, Keeps, AppFits, AppTypeOK
<1>2. Keeps(f, g)
  BY <1>1, FlagsKeep DEF Keeps
<1>3. Keeps(e, g)
  BY <1>2, KeepsTwice
<1> QED BY <1>3 DEF Keeps, Belongs, Owned

(***************************************************************************)
(* The same for a file that is opened.                                     *)
(***************************************************************************)
LEMMA HandlerOpens ==
  ASSUME NEW e, NEW f, NEW id, Opens(e, f, id), NEW g, g = [f EXCEPT !.err = FALSE]
  PROVE  Opens(e, g, id)
<1>1. Keeps(f, f)
  BY DEF Opens, Keeps
<1>2. AppFits(g) /\ (Belongs(f) => Belongs(g)) /\ g.files = f.files
  BY <1>1, HandlerKeeps
<1>3. g.wid = f.wid /\ g.objs = f.objs
  BY DEF Opens, AppFits, AppTypeOK
<1> QED BY <1>2, <1>3 DEF Opens, OneMore, OneLoaded

(***************************************************************************)
(* An event whose handler opens no file and saves nothing.                 *)
(***************************************************************************)
LEMMA EventStays ==
  ASSUME IInv, NEW op, NEW f, Keeps(ed, f), Event(op, f), UNCHANGED disk
  PROVE  Stays
<1>1. ed' = [f EXCEPT !.err = FALSE] /\ args' = args
  BY DEF Event
<1>2. AppFits(ed') /\ (Belongs(ed) => Belongs(ed'))
  BY <1>1, HandlerKeeps
<1> QED BY <1>1, <1>2 DEF Stays, IInv, DiskFits

(***************************************************************************)
(* Another page is selected, or another part of the page.                  *)
(***************************************************************************)
LEMMA SelectedKeeps ==
  ASSUME NEW e, AppFits(e)
  PROVE  /\ \A page \in e.tree : Keeps(e, [e EXCEPT !.sel = page])
         /\ \A n \in Nat : KeepsShown(e, [e EXCEPT !.cur = n])
<1>1. ASSUME NEW page \in e.tree PROVE Keeps(e, [e EXCEPT !.sel = page])
  <2> DEFINE f == [e EXCEPT !.sel = page]
  <2>1. /\ DOMAIN f = DOMAIN e /\ f.objs = e.objs /\ f.sel = page
        /\ f.files = e.files /\ f.tree = e.tree /\ f.pmap = e.pmap /\ f.plist = e.plist
        /\ f.cur = e.cur /\ f.total = e.total /\ f.wid = e.wid
    BY DEF AppFits, AppTypeOK
  <2> HIDE DEF f
  <2>2. AppTypeOK(f)
    BY <2>1 DEF AppFits, AppTypeOK
  <2>3. TreeFits(f) /\ PageFits(f)
    BY <2>1 DEF AppFits, TreeFits, PageFits, Showing
  <2>4. Keeps(e, f)
    BY <2>1, <2>2, <2>3 DEF Keeps, AppFits
  <2> QED BY <2>4 DEF f
<1>2. ASSUME NEW n \in Nat PROVE KeepsShown(e, [e EXCEPT !.cur = n])
  <2> DEFINE f == [e EXCEPT !.cur = n]
  <2>1. /\ DOMAIN f = DOMAIN e /\ f.objs = e.objs /\ f.sel = e.sel
        /\ f.files = e.files /\ f.tree = e.tree /\ f.pmap = e.pmap /\ f.plist = e.plist
        /\ f.cur = n /\ f.total = e.total /\ f.wid = e.wid
    BY DEF AppFits, AppTypeOK
  <2> HIDE DEF f
  <2>2. AppTypeOK(f)
    BY <2>1 DEF AppFits, AppTypeOK
  <2>3. TreeFits(f) /\ PageFits(f)
    BY <2>1 DEF AppFits, TreeFits, PageFits, Showing
  <2>4. KeepsShown(e, f)
    BY <2>1, <2>2, <2>3 DEF KeepsShown, Keeps, AppFits
  <2> QED BY <2>4 DEF f
<1> QED BY <1>1, <1>2

(***************************************************************************)
(* A field of the page has another text.                                   *)
(***************************************************************************)
LEMMA FieldKeeps ==
  ASSUME NEW e, AppFits(e), NEW f, NEW wid, f = [e EXCEPT !.wid = wid],
         DOMAIN wid = DOMAIN e.wid, DOMAIN wid.text = DOMAIN e.wid.text, DOMAIN e.wid.text # {},
         wid.page = e.wid.page, wid.fid = e.wid.fid, wid.obj = e.wid.obj
  PROVE  Keeps(e, f)
<1>1. /\ DOMAIN f = DOMAIN e /\ f.objs = e.objs /\ f.sel = e.sel
      /\ f.files = e.files /\ f.tree = e.tree /\ f.pmap = e.pmap /\ f.plist = e.plist
      /\ f.cur = e.cur /\ f.total = e.total /\ f.wid = wid
  BY DEF AppFits, AppTypeOK
<1>2. Showing(e)
  <2>1. e.wid # NoWidgets
    BY DEF NoWidgets
  <2> QED BY <2>1 DEF AppFits, PageFits
<1>3. AppTypeOK(f)
  BY <1>1 DEF AppFits, AppTypeOK
<1>4. TreeFits(f)
  BY <1>1 DEF AppFits, TreeFits
<1>5. PageFits(f)
  BY <1>1, <1>2 DEF PageFits, Showing
<1> QED BY <1>1, <1>3, <1>4, <1>5 DEF Keeps, AppFits

(***************************************************************************)
(* load_from_ml and load_from_ml_and_clear                                 *)
(***************************************************************************)
LEMMA OpenStays ==
  ASSUME IInv, OpenXml \/ OpenXmlAndClear
  PROVE  Stays
<1>1. AppFits(ed) /\ Len(ed.files) \in Nat /\ DiskFits
  BY DEF IInv, AppFits, AppTypeOK
<1>2. Offered \subseteq XmlFiles
  BY FilesAssumption
<1>3. CASE OpenXml
  <2>1. PICK x \in Offered : /\ ed' = [LoadCfgFile(ed, x, Len(ed.files), FALSE) EXCEPT !.err = FALSE]
                             /\ args' = args /\ disk' = disk
    BY <1>3 DEF OpenXml, Event
  <2>2. Opens(ed, LoadCfgFile(ed, x, Len(ed.files), FALSE), Len(ed.files))
    BY <1>1, <1>2, LoadCfgFileOpens
  <2>3. Opens(ed, ed', Len(ed.files))
    BY <2>1, <2>2, HandlerOpens
  <2> QED BY <1>1, <2>1, <2>3 DEF Stays, Opens, OneMore, DiskFits
<1>4. CASE OpenXmlAndClear
  <2>1. PICK x \in Offered : /\ ed' = [LoadCfgFile(ed, x, 0, TRUE) EXCEPT !.err = FALSE]
                             /\ args' = args /\ disk' = disk
    BY <1>4 DEF OpenXmlAndClear, Event
  <2> DEFINE f == LoadCfgFile(ed, x, 0, TRUE)
  <2>2. AppFits(f) /\ Belongs(f) /\ ed' = [f EXCEPT !.err = FALSE]
    BY <1>1, <1>2, <2>1, LoadCfgFileOpens DEF Reopens
  <2> HIDE DEF f
  <2>3. Keeps(f, f)
    BY <2>2 DEF Keeps
  <2>4. AppFits(ed') /\ Belongs(ed')
    BY <2>2, <2>3, HandlerKeeps
  <2> QED BY <1>1, <2>1, <2>4 DEF Stays, DiskFits
<1> QED BY <1>3, <1>4

(***************************************************************************)
(* The tree, the fields and the buttons of the page.                       *)
(***************************************************************************)
LEMMA PageStays ==
  ASSUME IInv, SelectPage \/ TypeEntry \/ SelectCombo \/ TurnPage
  PROVE  Stays
<1>1. AppFits(ed) /\ {"wid", "err", "files"} \subseteq DOMAIN ed
      /\ DOMAIN ed.wid = {"page", "fid", "obj", "text", "typed"} /\ ed.total \in Nat
  BY DEF IInv, AppFits, AppTypeOK
<1>2. CASE SelectPage
  <2>1. PICK page \in ed.tree : Event("select", OnSelectChange([ed EXCEPT !.sel = page])) /\ UNCHANGED disk
    BY <1>2 DEF SelectPage
  <2> DEFINE s == [ed EXCEPT !.sel = page]
  <2>2. Keeps(ed, s)
    BY <1>1, SelectedKeeps
  <2> HIDE DEF s
  <2>3. Keeps(ed, OnSelectChange(s))
    BY <2>2, SelectChangeKeeps, KeepsTwice DEF Keeps
  <2> QED BY <2>1, <2>3, EventStays DEF s
<1>3. CASE TypeEntry
  <2>1. PICK i \in DOMAIN ed.wid.text, text \in Entries :
          Event("type", [ed EXCEPT !.wid.text[i] = text, !.wid.typed = @ \union {i}]) /\ UNCHANGED disk
    BY <1>3 DEF TypeEntry
  <2> DEFINE wid == [ed.wid EXCEPT !.text[i] = text, !.typed = @ \union {i}]
             f == [ed EXCEPT !.wid.text[i] = text, !.wid.typed = @ \union {i}]
  <2>2. /\ DOMAIN wid = DOMAIN ed.wid /\ DOMAIN wid.text = DOMAIN ed.wid.text
        /\ wid.page = ed.wid.page /\ wid.fid = ed.wid.fid /\ wid.obj = ed.wid.obj
    BY <1>1
  <2>3. f = [ed EXCEPT !.wid = wid]
    BY <1>1
  <2> HIDE DEF wid, f
  <2>4. Keeps(ed, f)
    BY <1>1, <2>2, <2>3, FieldKeeps
  <2> QED BY <2>1, <2>4, EventStays DEF f
<1>4. CASE SelectCombo
  <2>1. PICK i \in DOMAIN ed.wid.text :
          \E option : Event("combo", UpdateFromWidget([ed EXCEPT !.wid.text[i] = option], i)) /\ UNCHANGED disk
    BY <1>4 DEF SelectCombo
  <2>2. PICK option : Event("combo", UpdateFromWidget([ed EXCEPT !.wid.text[i] = option], i)) /\ UNCHANGED disk
    BY <2>1
  <2> DEFINE wid == [ed.wid EXCEPT !.text[i] = option]
             f == [ed EXCEPT !.wid.text[i] = option]
  <2>3. /\ DOMAIN wid = DOMAIN ed.wid /\ DOMAIN wid.text = DOMAIN ed.wid.text
        /\ wid.page = ed.wid.page /\ wid.fid = ed.wid.fid /\ wid.obj = ed.wid.obj
    BY <1>1
  <2>4. f = [ed EXCEPT !.wid = wid]
    BY <1>1
  <2> HIDE DEF wid, f
  <2>5. Keeps(ed, f)
    BY <1>1, <2>3, <2>4, FieldKeeps
  <2>6. Keeps(ed, UpdateFromWidget(f, i))
    BY <2>5, UpdateFromWidgetKeeps, KeepsTwice DEF Keeps, KeepsShown
  <2> QED BY <2>2, <2>6, EventStays DEF f
<1>5. CASE TurnPage
  <2>1. PICK n \in 0..(ed.total - 1) :
          Event("turn", ShowAgain(UpdateConfigDataOnPage([ed EXCEPT !.cur = n]))) /\ UNCHANGED disk
    BY <1>5 DEF TurnPage
  <2> DEFINE s == [ed EXCEPT !.cur = n]
             up == UpdateConfigDataOnPage(s)
  <2>2. KeepsShown(ed, s)
    <3>1. n \in Nat
      BY <1>1
    <3> QED BY <1>1, <3>1, SelectedKeeps
  <2> HIDE DEF s
  <2>3. KeepsShown(s, up)
    BY <2>2, UpdatePageKeeps DEF KeepsShown, Keeps
  <2>4. KeepsShown(ed, up)
    BY <2>2, <2>3, KeepsTwice DEF KeepsShown
  <2> HIDE DEF up
  <2>5. up.wid.page \in up.tree
    BY <1>5, <2>4 DEF TurnPage, KeepsShown, Keeps, AppFits, PageFits, Showing
  <2>6. Keeps(ed, BuildConfigDataPage(up, up.wid.page))
    BY <2>4, <2>5, BuildPageKeeps, KeepsTwice DEF KeepsShown, Keeps
  <2>7. Keeps(ed, ShowAgain(up))
    BY <2>4, <2>6 DEF ShowAgain, KeepsShown
  <2> QED BY <2>1, <2>7, EventStays DEF s, up
<1> QED BY <1>2, <1>3, <1>4, <1>5

(***************************************************************************)
(* The loads of the menus.                                                 *)
(***************************************************************************)
LEMMA LoadStays ==
  ASSUME IInv, LoadFromDelta \/ LoadFromBin \/ LoadSvd
  PROVE  Stays
<1>1. AppFits(ed)
  BY DEF IInv
<1>2. CASE LoadFromDelta
  <2>1. PICK csv : Event("load_csv", LoadDeltaFile(ed, csv)) /\ UNCHANGED disk
    BY <1>2 DEF LoadFromDelta
  <2> QED BY <1>1, <2>1, LoadFileKeeps, EventStays
<1>3. CASE LoadFromBin
  <2>1. PICK bin : Event("load_bin", LoadBinFile(ed, bin)) /\ UNCHANGED disk
    BY <1>3 DEF LoadFromBin
  <2> QED BY <1>1, <2>1, LoadFileKeeps, EventStays
<1>4. CASE LoadSvd
  <2>1. PICK svd \in (UserSvds \union {disk.svd}) \ {None} :
          Event("load_svd", LoadSvdFile(ed, svd)) /\ UNCHANGED disk
    BY <1>4 DEF LoadSvd
  <2>2. Len(svd) \in Nat
    BY <2>1, FilesAssumption DEF IInv, DiskFits
  <2> QED BY <1>1, <2>1, <2>2, LoadFileKeeps, EventStays
<1> QED BY <1>2, <1>3, <1>4

(***************************************************************************)
(* The saves of the menus.                                                 *)
(***************************************************************************)
LEMMA SaveStays ==
  ASSUME PacksLists, IInv, SaveToBin \/ SaveDeltaToBin \/ SaveToSvd \/ SaveDeltaFile
  PROVE  Stays
<1> DEFINE up == UpdateConfigDataOnPage(ed)
<1>1. AppFits(ed) /\ DiskFits
  BY DEF IInv
<1>2. Keeps(ed, up)
  BY <1>1, UpdatePageKeeps DEF KeepsShown
<1> HIDE DEF up
<1>3. ASSUME NEW op, NEW list, Save(op, up, list)
      PROVE  AppFits(ed') /\ (Belongs(ed) => Belongs(ed')) /\ args' = args
  <2>1. Keeps(ed, IF list = Error THEN Fail(up) ELSE up)
    BY <1>2, FailKeeps, KeepsTwice DEF Keeps
  <2>2. ed' = [(IF list = Error THEN Fail(up) ELSE up) EXCEPT !.err = FALSE] /\ args' = args
    BY <1>3 DEF Save, Event
  <2> QED BY <2>1, <2>2, HandlerKeeps
<1>4. CASE SaveToBin
  <2>1. PICK list : /\ Save("save_bin", up, list)
                    /\ disk' = IF up.err THEN disk ELSE [disk EXCEPT !.bin = IF list = Error THEN <<>> ELSE list]
    BY <1>4 DEF SaveToBin, up
  <2>2. DiskFits'
    BY <1>1, <2>1 DEF DiskFits
  <2> QED BY <1>3, <2>1, <2>2 DEF Stays
<1>5. CASE SaveDeltaToBin
  <2>1. PICK list : /\ Save("save_delta_bin", up, list)
                    /\ disk' = IF list = Error THEN disk ELSE [disk EXCEPT !.bin = list]
    BY <1>5 DEF SaveDeltaToBin, up
  <2>2. DiskFits'
    BY <1>1, <2>1 DEF DiskFits
  <2> QED BY <1>3, <2>1, <2>2 DEF Stays
<1>6. CASE SaveToSvd
  <2>1. PICK full \in BOOLEAN : \E list \in {SvdList(up, full)} :
          /\ Save("save_svd", up, list)
          /\ disk' = IF list = Error THEN disk ELSE [disk EXCEPT !.svd = Singly(list)]
    BY <1>6 DEF SaveToSvd, up
  <2> DEFINE list == SvdList(up, full)
  <2>2. IsList(list)
    BY <1>2, SvdListIsList DEF Keeps
  <2>3. /\ Save("save_svd", up, list)
        /\ disk' = IF list = Error THEN disk ELSE [disk EXCEPT !.svd = Singly(list)]
    BY <2>1
  <2> HIDE DEF list
  <2>4. list # Error => Len(Singly(list)) \in Nat
    BY <2>2, SinglyCounts
  <2>5. DiskFits'
    BY <1>1, <2>3, <2>4 DEF DiskFits
  <2> QED BY <1>3, <2>3, <2>5 DEF Stays
<1>7. CASE SaveDeltaFile
  <2>1. PICK full \in BOOLEAN : /\ ed' = [SaveDeltas(full).e EXCEPT !.err = FALSE] /\ args' = args
                                /\ disk' = [disk EXCEPT !.csv = SaveDeltas(full).csv]
    BY <1>7 DEF SaveDeltaFile, Event
  <2>2. Keeps(ed, SaveDeltas(full).e)
    BY <1>1, SaveDeltasKeep
  <2>3. AppFits(ed') /\ (Belongs(ed) => Belongs(ed'))
    BY <2>1, <2>2, HandlerKeeps
  <2>4. DiskFits'
    BY <1>1, <2>1 DEF DiskFits
  <2> QED BY <2>1, <2>3, <2>4 DEF Stays
<1> QED BY <1>4, <1>5, <1>6, <1>7

(***************************************************************************)
(* The variables of the system.                                            *)
(***************************************************************************)
LEMMA RuntimeStays ==
  ASSUME IInv, LoadVariableRuntime \/ SetVariableRuntime \/ DelAllVariableRuntime
  PROVE  Stays
<1>1. AppFits(ed)
  BY DEF IInv
<1>2. ASSUME NEW e, Keeps(ed, e), NEW nv PROVE Keeps(ed, LoadRuntimeInto(e, nv))
  <2> DEFINE list == ReadAllUefiVars(nv, e.path)
  <2>1. LoadRuntimeInto(e, nv) = IF list = <<>> THEN e ELSE LoadBinFile(e, list)
    BY DEF LoadRuntimeInto, LoadRuntimeList
  <2> HIDE DEF list
  <2>2. Keeps(ed, LoadBinFile(e, list))
    BY <1>2, LoadFileKeeps, KeepsTwice DEF Keeps
  <2> QED BY <1>2, <2>1, <2>2
<1>3. Keeps(ed, ed)
  BY <1>1 DEF Keeps
<1>4. CASE LoadVariableRuntime
  BY <1>2, <1>3, <1>4, EventStays DEF LoadVariableRuntime
<1>5. CASE SetVariableRuntime
  <2> DEFINE up == UpdateConfigDataOnPage(ed)
  <2>1. Keeps(ed, up)
    BY <1>1, UpdatePageKeeps DEF KeepsShown
  <2>2. Keeps(ed, Fail(up))
    BY <2>1, FailKeeps, KeepsTwice DEF Keeps
  <2>3. UNCHANGED disk /\ (Event("set_runtime", Fail(up)) \/ SetVariables(up, LastList(up)))
    BY <1>5 DEF SetVariableRuntime
  <2> HIDE DEF up
  <2>4. CASE Event("set_runtime", Fail(up))
    BY <2>2, <2>3, <2>4, EventStays
  <2>5. CASE SetVariables(up, LastList(up))
    <3> DEFINE list == LastList(up)
    <3>1. PICK n \in 0..Len(list) :
            Event("set_refused", up) \/ Event("set_runtime", LoadRuntimeInto(up, AfterSetting(list, n)))
      BY <2>5 DEF SetVariables
    <3> QED BY <1>2, <2>1, <2>3, <3>1, EventStays
  <2> QED BY <2>3, <2>4, <2>5
<1>6. CASE DelAllVariableRuntime
  BY <1>3, <1>6, EventStays DEF DelAllVariableRuntime
<1> QED BY <1>4, <1>5, <1>6

(***************************************************************************)
(* Whatever the user does.                                                 *)
(***************************************************************************)
LEMMA UserEventStays ==
  ASSUME PacksLists, IInv, UserEvent
  PROVE  Stays
BY OpenStays, PageStays, LoadStays, SaveStays, RuntimeStays DEF UserEvent

-----------------------------------------------------------------------------
(* The command line *)

(***************************************************************************)
(* With the XML files first, the rest of the line has them first too, and  *)
(* one that is still to come is behind an XML file.                        *)
(***************************************************************************)
LEMMA RestOfLine ==
  ASSUME NEW line \in Seq(Arguments), line # <<>>, XmlFirst(line), line[1].kind # "other"
  PROVE  /\ XmlFirst(Tail(line))
         /\ XmlComes(Tail(line)) => line[1].kind = "xml"
<1> DEFINE rest == Tail(line)
<1>1. /\ Len(line) \in Nat \ {0} /\ Len(rest) = Len(line) - 1
      /\ \A j \in 1..Len(rest) : j + 1 \in 1..Len(line) /\ rest[j] = line[j + 1]
  OBVIOUS
<1> HIDE DEF rest
<1>2. ASSUME NEW j \in 1..Len(rest), rest[j].kind = "xml", \A i \in 1..(j - 1) : rest[i].kind # "other"
      PROVE  \A i \in 1..j : line[i].kind = "xml"
  <2>1. j + 1 \in 1..Len(line) /\ line[j + 1].kind = "xml"
    BY <1>1, <1>2
  <2>2. \A i \in 1..j : line[i].kind # "other"
    <3> TAKE i \in 1..j
    <3>1. CASE i = 1
      BY <3>1
    <3>2. CASE i # 1
      <4>1. i - 1 \in 1..(j - 1) /\ i - 1 \in 1..Len(rest) /\ (i - 1) + 1 = i
        BY <1>1, <3>2
      <4> QED BY <1>1, <1>2, <4>1
    <3> QED BY <3>1, <3>2
  <2>3. 1..((j + 1) - 1) = 1..j
    BY <1>1
  <2> QED BY <2>1, <2>2, <2>3 DEF XmlFirst
<1>3. XmlFirst(rest)
  <2> SUFFICES ASSUME NEW j \in 1..Len(rest), rest[j].kind = "xml",
                      \A i \in 1..(j - 1) : rest[i].kind # "other",
                      NEW i \in 1..(j - 1)
               PROVE  rest[i].kind = "xml"
    BY DEF XmlFirst
  <2>1. i \in 1..Len(rest) /\ i + 1 \in 1..j
    BY <1>1
  <2> QED BY <1>1, <1>2, <2>1
<1>4. XmlComes(rest) => line[1].kind = "xml"
  <2> SUFFICES ASSUME NEW j \in 1..Len(rest), rest[j].kind = "xml", \A i \in 1..(j - 1) : rest[i].kind # "other"
               PROVE  line[1].kind = "xml"
    BY DEF XmlComes
  <2>1. 1 \in 1..j
    BY <1>1
  <2> QED BY <1>2, <2>1
<1> QED BY <1>3, <1>4 DEF rest

(***************************************************************************)
(* An argument is handled.                                                 *)
(***************************************************************************)
LEMMA ArgumentFits ==
  ASSUME IInv, StartArgument
  PROVE  /\ AppFits(ed') /\ ArgsFit' /\ DiskFits'
         /\ FilesFit => FilesFit'
<1> DEFINE a == Head(args.left)
           f == Handled(a)
<1>1. /\ args.left \in Seq(Arguments) /\ args.left # <<>> /\ args.idx \in Nat /\ AppFits(ed)
      /\ Len(args.left) \in Nat \ {0} /\ a = args.left[1]
  BY DEF IInv, ArgsFit, StartArgument
<1>2. ed' = [f EXCEPT !.err = FALSE] /\ args' = NextArgument(a) /\ disk' = disk
  BY DEF StartArgument
<1>3. a \in Arguments
  BY <1>1
<1> HIDE DEF a
<1>4. a.kind \in {"xml", "csv", "vl", "other"} /\ (a.kind = "xml" => a.file \in XmlFiles)
  BY <1>3 DEF Arguments
<1>5. a.kind = "xml" => Opens(ed, f, args.idx)
  BY <1>1, <1>4, LoadCfgFileOpens DEF Handled
<1>6. a.kind # "xml" => Keeps(ed, f)
  <2>1. Keeps(ed, ed)
    BY <1>1 DEF Keeps
  <2>2. a.kind = "csv" => f = LoadDeltaFile(ed, a.file)
    BY DEF Handled
  <2>3. a.kind = "vl" => f = LoadBinFile(ed, a.file)
    BY DEF Handled
  <2>4. a.kind = "other" => f = ed
    BY DEF Handled
  <2> HIDE DEF f
  <2> QED BY <1>1, <1>4, <2>1, <2>2, <2>3, <2>4, LoadFileKeeps
<1> HIDE DEF f
<1>7. a.kind = "xml" => Opens(ed, ed', args.idx)
  BY <1>2, <1>5, HandlerOpens
<1>8. a.kind # "xml" => AppFits(ed') /\ (Belongs(ed) => Belongs(ed'))
  BY <1>2, <1>6, HandlerKeeps
<1>9. ArgsFit'
  <2>1. CASE a.kind = "other" \/ Len(args.left) = 1
    BY <1>2, <2>1 DEF NextArgument, ArgsFit
  <2>2. CASE ~(a.kind = "other" \/ Len(args.left) = 1)
    <3>1. args' = [left |-> Tail(args.left), idx |-> args.idx + 1]
      BY <1>2, <2>2 DEF NextArgument
    <3>2. Tail(args.left) \in Seq(Arguments)
      BY <1>1
    <3> QED BY <1>1, <3>1, <3>2 DEF ArgsFit
  <2> QED BY <2>1, <2>2
<1>10. ASSUME FilesFit PROVE FilesFit'
  <2>1. Belongs(ed) /\ XmlFirst(args.left) /\ (XmlComes(args.left) => args.idx = Len(ed.files))
    BY <1>10 DEF FilesFit
  <2>2. a.kind = "xml" => Belongs(ed') /\ Len(ed'.files) = args.idx + 1
    <3>1. a.kind = "xml" => XmlComes(args.left)
      <4>1. 1 \in 1..Len(args.left) /\ \A i \in 1..(1 - 1) : args.left[i].kind # "other"
        BY <1>1
      <4> QED BY <1>1, <4>1 DEF XmlComes
    <3> QED BY <1>7, <2>1, <3>1 DEF Opens, OneMore
  <2>3. Belongs(ed')
    BY <1>8, <2>1, <2>2
  <2>4. XmlFirst(args'.left) /\ (XmlComes(args'.left) => args'.idx = Len(ed'.files))
    <3>1. CASE a.kind = "other" \/ Len(args.left) = 1
      <4>1. args'.left = <<>> /\ Len(<<>>) = 0
        BY <1>2, <3>1 DEF NextArgument
      <4> QED BY <4>1 DEF XmlFirst, XmlComes
    <3>2. CASE ~(a.kind = "other" \/ Len(args.left) = 1)
      <4>1. args' = [left |-> Tail(args.left), idx |-> args.idx + 1]
        BY <1>2, <3>2 DEF NextArgument
      <4>2. XmlFirst(Tail(args.left)) /\ (XmlComes(Tail(args.left)) => a.kind = "xml")
        BY <1>1, <2>1, <3>2, RestOfLine
      <4> QED BY <2>2, <4>1, <4>2
    <3> QED BY <3>1, <3>2
  <2> QED BY <2>3, <2>4 DEF FilesFit
<1> QED BY <1>2, <1>7, <1>8, <1>9, <1>10 DEF Opens, IInv, DiskFits

(***************************************************************************)
(* The application that was just started.                                  *)
(***************************************************************************)
LEMMA EditorInit ==
  ASSUME Init
  PROVE  IInv /\ Belongs(ed)
<1>1. ed = Empty /\ session \in Sessions /\ args = [left |-> session.line, idx |-> 0]
      /\ disk = [bin |-> None, svd |-> None, csv |-> [x \in DOMAIN knobs |-> None]]
  BY DEF Init
<1>2. /\ DOMAIN ed = {"objs", "files", "tree", "pmap", "plist", "sel", "cur", "total", "wid", "menu", "path",
                      "dflt", "err"}
      /\ ed.objs = <<>> /\ ed.files = <<>> /\ ed.tree = {} /\ ed.sel = None /\ ed.cur = 0 /\ ed.total = 0
      /\ ed.wid = NoWidgets
  BY <1>1 DEF Empty
<1>3. DOMAIN NoWidgets = {"page", "fid", "obj", "text", "typed"}
  BY DEF NoWidgets
<1>4. <<>> \in Seq([id : Nat, obj : Nat]) /\ Len(<<>>) = 0
  OBVIOUS
<1>5. \E S : ed.objs \in Seq(S)
  BY <1>2, <1>4
<1>6. AppTypeOK(ed)
  BY <1>2, <1>3, <1>4, <1>5 DEF AppTypeOK
<1>7. TreeFits(ed) /\ PageFits(ed)
  BY <1>2 DEF TreeFits, PageFits
<1>8. ArgsFit
  BY <1>1, FilesAssumption DEF ArgsFit
<1>9. DiskFits
  BY <1>1 DEF DiskFits
<1>10. Belongs(ed)
  BY <1>2, <1>4 DEF Belongs, Owned
<1> QED BY <1>6, <1>7, <1>8, <1>9, <1>10 DEF IInv, AppFits

-----------------------------------------------------------------------------
(***************************************************************************)
(* What VariableList.py promises: Values[x] is what the knobs of XML file x*)
(* may hold.                                                               *)
(***************************************************************************)

\* Whatever text, list or CSV file the values are set from, they stay among them.
Closed(Values, x, v) ==
  /\ \A i \in Leaves(x) : \A text : set_subknob_text(x, v, i, text) \in Values[x] \union {Error}
  /\ \A list : uefi_variables_to_knobs(x, v, list).vals \in Values[x]
  /\ \A csv : read_csv(x, v, csv).vals \in Values[x]

\* The laws of texts, for one leaf.
SetsTexts(Values, x, i, v) ==
  /\ TextStands(x, i, v) /\ OptionsStand(x, i, v)
  /\ \A text : SetsOneLeaf(x, i, v, text) /\ \A w \in Values[x] : RefusesAlike(x, i, v, w, text)

\* The laws of lists and CSV files.
ReadsLists(Values, x, v) ==
  /\ \A w \in Values[x] : ReadsBack(x, w, v)
  /\ \A y \in DOMAIN knobs \ {x} : \A w \in Values[y] : LeavesAlone(x, v, y, w)
  /\ \A S : \A s, t \in Seq(S) : ReadsInOrder(x, v, s, t)
  /\ \A csv : CountsKnobs(x, v, csv)

Lawful(Values) ==
  /\ \A list : ReadsAll(list)
  /\ \A x \in DOMAIN knobs :
       /\ Defaulted(x) \in Values[x] /\ PathsDiffer(x)
       /\ \A v \in Values[x] :
            /\ Closed(Values, x, v) /\ ReadsLists(Values, x, v)
            /\ \A i \in Leaves(x) : SetsTexts(Values, x, i, v)

-----------------------------------------------------------------------------
(* Objects: values that may be, and a shim that has their texts *)

ObjectFits(Values, c) == IsObject(c) /\ c.vals \in Values[c.xml] /\ DOMAIN c.shim = DOMAIN subknobs[c.xml]

InSync(c) == \A i \in Leaves(c.xml) : c.shim[i] = subknob_text(c.xml, c.vals, i)

\* What a load makes of an object.
Loaded(Values, c, r) ==
  ObjectFits(Values, r.cfg) /\ r.cfg.xml = c.xml /\ (InSync(c) /\ ~r.err => InSync(r.cfg))

(***************************************************************************)
(* load_xml                                                                *)
(***************************************************************************)
LEMMA LoadXmlInSync ==
  ASSUME NEW Values, Lawful(Values), NEW x \in DOMAIN knobs
  PROVE  ObjectFits(Values, LoadXml(x)) /\ InSync(LoadXml(x)) /\ LoadXml(x).vals = Defaulted(x)
<1>1. /\ LoadXml(x).xml = x /\ LoadXml(x).vals = Defaulted(x) /\ LoadXml(x).shim = Shim(x, Defaulted(x))
      /\ IsObject(LoadXml(x))
  BY LoadXmlObject DEF LoadXml
<1>2. Defaulted(x) \in Values[x]
  BY DEF Lawful
<1> QED BY <1>1, <1>2 DEF ObjectFits, InSync, Shim, Leaves

(***************************************************************************)
(* The values that a load has read.                                        *)
(***************************************************************************)
LEMMA SyncedLoads ==
  ASSUME NEW Values, NEW c, ObjectFits(Values, c), NEW read, read.vals \in Values[c.xml]
  PROVE  /\ ObjectFits(Values, Synced(c, read)) /\ Synced(c, read).xml = c.xml
         /\ Synced(c, read).vals = read.vals
         /\ ~read.err => InSync(Synced(c, read))
<1> DEFINE d == Synced(c, read)
<1>1. DOMAIN c = {"xml", "vals", "shim"}
  BY DEF ObjectFits, IsObject
<1>2. SameXml(c, d)
  BY SyncedObject DEF ObjectFits
<1>3. d.vals = read.vals /\ d.shim = IF read.err THEN c.shim ELSE Shim(c.xml, read.vals)
  <2>1. CASE read.err
    BY <1>1, <2>1 DEF Synced
  <2>2. CASE ~read.err
    BY <1>1, <2>2 DEF Synced, SyncShimAndSchema
  <2> QED BY <2>1, <2>2
<1> HIDE DEF d
<1>4. ObjectFits(Values, d)
  BY <1>2, <1>3 DEF ObjectFits, SameXml, Shim
<1>5. ~read.err => InSync(d)
  BY <1>2, <1>3 DEF InSync, SameXml, Shim, Leaves
<1> QED BY <1>2, <1>3, <1>4, <1>5 DEF d, SameXml

(***************************************************************************)
(* load_default_from_bin                                                   *)
(***************************************************************************)
LEMMA LoadBinLoads ==
  ASSUME NEW Values, Lawful(Values), NEW c, ObjectFits(Values, c), NEW buf
  PROVE  Loaded(Values, c, LoadDefaultFromBin(c, buf))
<1> DEFINE own == vlist_to_binary(c.xml, c.vals)
           list == read_vlist_from_buffer(buf)
           read == uefi_variables_to_knobs(c.xml, c.vals, GetVarListForInstance(own, list))
           r == LoadDefaultFromBin(c, buf)
<1>1. CASE own = Error \/ list = Error
  <2>1. r = [cfg |-> c, err |-> TRUE]
    BY <1>1 DEF LoadDefaultFromBin, LoadVariables
  <2> QED BY <2>1 DEF Loaded
<1>2. CASE ~(own = Error \/ list = Error)
  <2>1. r = [cfg |-> Synced(c, read), err |-> read.err]
    BY <1>2 DEF LoadDefaultFromBin, LoadVariables, AfterLoad
  <2>2. read.vals \in Values[c.xml]
    BY DEF Lawful, Closed, ObjectFits, IsObject
  <2> HIDE DEF read, r
  <2>3. ObjectFits(Values, Synced(c, read)) /\ Synced(c, read).xml = c.xml /\ (~read.err => InSync(Synced(c, read)))
    BY <2>2, SyncedLoads
  <2>4. Loaded(Values, c, r)
    BY <2>1, <2>3 DEF Loaded
  <2> QED BY <2>4 DEF r
<1> QED BY <1>1, <1>2

(***************************************************************************)
(* load_from_svd                                                           *)
(***************************************************************************)
LEMMA LoadSvdLoads ==
  ASSUME NEW Values, Lawful(Values), NEW c, ObjectFits(Values, c), NEW settings, Len(settings) \in Nat
  PROVE  Loaded(Values, c, LoadFromSvd(c, settings))
<1>1. PICK f : /\ f[0] = [cfg |-> c, err |-> FALSE] /\ LoadFromSvd(c, settings) = f[Len(settings)]
               /\ \A n \in 1..Len(settings) : f[n] = LoadSetting(f[n - 1], settings[n])
  BY LoadFromSvdSteps
<1> DEFINE T == {n \in 0..Len(settings) : Loaded(Values, c, f[n])}
<1>2. 0 \in T
  BY <1>1 DEF Loaded
<1>3. ASSUME NEW n \in 1..Len(settings), n - 1 \in T
      PROVE  n \in T
  <2> DEFINE st == f[n - 1]
             r == LoadDefaultFromBin(st.cfg, settings[n])
  <2>1. Loaded(Values, c, st) /\ f[n] = LoadSetting(st, settings[n])
    BY <1>1, <1>3
  <2> HIDE DEF st
  <2>2. Loaded(Values, st.cfg, r)
    BY <2>1, LoadBinLoads DEF Loaded
  <2>3. f[n] = IF st.err \/ settings[n] = None THEN st ELSE r
    BY <2>1 DEF LoadSetting
  <2> HIDE DEF r
  <2>4. Loaded(Values, c, f[n])
    BY <2>1, <2>2, <2>3 DEF Loaded
  <2> QED BY <2>4
<1>4. Len(settings) \in T
  <2> HIDE DEF T
  <2>1. 0..Len(settings) \subseteq T
    BY <1>2, <1>3, BoundedInduction
  <2> QED BY <2>1
<1> QED BY <1>1, <1>4

(***************************************************************************)
(* override_default_value; a file that updates no knob changes no value.   *)
(***************************************************************************)
LEMMA OverrideLoads ==
  ASSUME NEW Values, Lawful(Values), NEW c, ObjectFits(Values, c), NEW csv
  PROVE  LET r == OverrideDefaultValue(c, csv)
         IN  /\ Loaded(Values, c, r) /\ (~r.err => InSync(r.cfg))
             /\ ~r.err /\ r.count = 0 => r.cfg.vals = c.vals
<1> DEFINE read == read_csv(c.xml, c.vals, csv)
           r == OverrideDefaultValue(c, csv)
<1>1. r = [cfg |-> Synced(c, read), err |-> read.err, count |-> read.count]
  BY DEF OverrideDefaultValue, Overridden
<1>2. read.vals \in Values[c.xml]
  BY DEF Lawful, Closed, ObjectFits, IsObject
<1>3. ~read.err /\ read.count = 0 => read.vals = c.vals
  BY DEF Lawful, ReadsLists, ObjectFits, IsObject, CountsKnobs
<1> HIDE DEF read, r
<1>4. /\ ObjectFits(Values, Synced(c, read)) /\ Synced(c, read).xml = c.xml
      /\ Synced(c, read).vals = read.vals /\ (~read.err => InSync(Synced(c, read)))
  BY <1>2, SyncedLoads
<1>5. /\ Loaded(Values, c, r) /\ (~r.err => InSync(r.cfg))
      /\ ~r.err /\ r.count = 0 => r.cfg.vals = c.vals
  BY <1>1, <1>3, <1>4 DEF Loaded
<1> QED BY <1>5 DEF r

(***************************************************************************)
(* The variables of an object are all knobs of its own list.               *)
(***************************************************************************)
LEMMA OwnVariables ==
  ASSUME NEW S, NEW own \in Seq(S)
  PROVE  GetVarListForInstance(own, own) = own
<1> DEFINE N == Len(own)
           Eq(f) == f = [n \in 0..N |-> IF n = 0 THEN <<>>
                                        ELSE IF IsKnob(own, own[n]) THEN Append(f[n - 1], own[n]) ELSE f[n - 1]]
           g == [n \in 0..N |-> SubSeq(own, 1, n)]
           h == CHOOSE f : Eq(f)
<1>1. N \in Nat /\ DOMAIN own = 1..N
  OBVIOUS
<1>2. GetVarListForInstance(own, own) = h[N]
  BY DEF GetVarListForInstance
<1>3. \A n \in 1..N : IsKnob(own, own[n])
  BY <1>1 DEF IsKnob
<1>4. SubSeq(own, 1, 0) = <<>> /\ SubSeq(own, 1, N) = own
  OBVIOUS
<1>5. ASSUME NEW n \in 1..N PROVE SubSeq(own, 1, n) = Append(SubSeq(own, 1, n - 1), own[n])
  <2> DEFINE s == SubSeq(own, 1, n)
             t == Append(SubSeq(own, 1, n - 1), own[n])
  <2>1. s \in Seq(S) /\ Len(s) = n /\ \A i \in 1..n : s[i] = own[i]
    OBVIOUS
  <2>2. t \in Seq(S) /\ Len(t) = n /\ \A i \in 1..n : t[i] = own[i]
    <3> DEFINE u == SubSeq(own, 1, n - 1)
    <3>1. u \in Seq(S) /\ Len(u) = n - 1 /\ \A i \in 1..(n - 1) : u[i] = own[i]
      OBVIOUS
    <3>2. own[n] \in S
      BY ElementOfSeq
    <3> HIDE DEF u
    <3> QED BY <3>1, <3>2 DEF u
  <2> HIDE DEF s, t
  <2>3. s = t
    BY <2>1, <2>2, SeqEqual
  <2> QED BY <2>3 DEF s, t
<1> HIDE DEF N
<1>6. Eq(g)
  <2>1. \A n \in 0..N : g[n] = IF n = 0 THEN <<>>
                               ELSE IF IsKnob(own, own[n]) THEN Append(g[n - 1], own[n]) ELSE g[n - 1]
    <3> TAKE n \in 0..N
    <3>1. CASE n = 0
      BY <1>4, <3>1
    <3>2. CASE n # 0
      <4>1. n \in 1..N /\ n - 1 \in 0..N
        BY <1>1, <3>2
      <4>2. g[n] = SubSeq(own, 1, n) /\ g[n - 1] = SubSeq(own, 1, n - 1)
        BY <4>1
      <4> QED BY <1>3, <1>5, <3>2, <4>1, <4>2
    <3> QED BY <3>1, <3>2
  <2> QED BY <2>1
<1>7. Eq(h)
  <2> HIDE DEF Eq, g
  <2> QED BY <1>6
<1> HIDE DEF h
<1>8. \A n \in 0..N : h[n] = IF n = 0 THEN <<>>
                             ELSE IF IsKnob(own, own[n]) THEN Append(h[n - 1], own[n]) ELSE h[n - 1]
  BY <1>7
<1> DEFINE T == {n \in 0..N : h[n] = SubSeq(own, 1, n)}
<1>9. 0 \in T
  <2>1. 0 \in 0..N
    BY <1>1
  <2>2. h[0] = <<>>
    BY <1>8, <2>1
  <2>3. h[0] = SubSeq(own, 1, 0)
    BY <1>4, <2>2
  <2> QED BY <2>1, <2>3
<1>10. ASSUME NEW n \in 1..N, n - 1 \in T PROVE n \in T
  <2>1. n \in 0..N /\ n # 0 /\ h[n - 1] = SubSeq(own, 1, n - 1)
    BY <1>10
  <2>2. h[n] = Append(h[n - 1], own[n])
    BY <1>3, <1>8, <2>1
  <2> QED BY <1>5, <2>1, <2>2
<1>11. N \in T
  <2> HIDE DEF T
  <2>1. 0..N \subseteq T
    BY <1>1, <1>9, <1>10, BoundedInduction
  <2> QED BY <1>1, <2>1
<1> QED BY <1>2, <1>4, <1>11 DEF h

\* What a save of the object's own variables leaves: the same texts.
Saved(Values, c, d) ==
  ObjectFits(Values, d) /\ d.xml = c.xml /\ SameTexts(c.xml, d.vals, c.vals) /\ (InSync(c) => InSync(d))

(***************************************************************************)
(* generate_delta_file_from_bin, for the binary of the object itself: it   *)
(* is loaded without raising, and no leaf has another text afterwards.     *)
(***************************************************************************)
LEMMA SaveKeepsTexts ==
  ASSUME NEW Values, Lawful(Values), PacksLists, NEW c, ObjectFits(Values, c), NEW full
  PROVE  Saved(Values, c, GenerateDeltaFileFromBin(c, GenerateBinaryArray(c), full).cfg)
<1> DEFINE own == vlist_to_binary(c.xml, c.vals)
           list == read_vlist_from_buffer(own)
           read == uefi_variables_to_knobs(c.xml, c.vals, own)
           d == GenerateDeltaFileFromBin(c, GenerateBinaryArray(c), full).cfg
<1>1. d = LoadDefaultFromBin(c, own).cfg
  BY DEF GenerateDeltaFileFromBin, WrittenDelta, DeltaFile, GenerateBinaryArray
<1>2. list \in {own, Error}
  BY DEF Lawful, ReadsAll
<1>3. CASE own = Error \/ list = Error
  <2>1. d = c
    BY <1>1, <1>3 DEF LoadDefaultFromBin, LoadVariables
  <2> QED BY <2>1 DEF Saved, SameTexts
<1>4. CASE ~(own = Error \/ list = Error)
  <2>1. list = own
    BY <1>2, <1>4
  <2>2. GetVarListForInstance(own, own) = own
    <3>1. \E S : own \in Seq(S)
      BY <1>4 DEF PacksLists, IsList, ObjectFits, IsObject
    <3> HIDE DEF own
    <3> QED BY <3>1, OwnVariables
  <2>3. d = Synced(c, read)
    BY <1>1, <1>4, <2>1, <2>2 DEF LoadDefaultFromBin, LoadVariables, AfterLoad
  <2>4. read.vals \in Values[c.xml]
    BY DEF Lawful, Closed, ObjectFits, IsObject
  <2>5. ~read.err /\ SameTexts(c.xml, read.vals, c.vals)
    <3>1. ReadsBack(c.xml, c.vals, c.vals)
      BY DEF Lawful, ReadsLists, ObjectFits, IsObject
    <3> QED BY <1>4, <3>1 DEF ReadsBack, PackedAgain
  <2> HIDE DEF read, d, own, list
  <2>6. ObjectFits(Values, d) /\ d.xml = c.xml /\ d.vals = read.vals /\ InSync(d)
    BY <2>3, <2>4, <2>5, SyncedLoads
  <2>7. Saved(Values, c, d)
    BY <2>5, <2>6 DEF Saved
  <2> QED BY <2>7 DEF d
<1> QED BY <1>3, <1>4

-----------------------------------------------------------------------------
(* One field *)

\* The leaf has what the text says, unless the text is refused.
StoredIn(c, i, text) ==
  set_subknob_text(c.xml, c.vals, i, text) # Error =>
    subknob_text(c.xml, c.vals, i) = ReformatValueStr(c.xml, i, text)
Stored(e, i) == StoredIn(e.objs[e.wid.obj], i, e.wid.text[i])

\* The object after a text has been copied.
WithText(c, i, text, new) == [c EXCEPT !.vals = new, !.shim[i] = ReformatValueStr(c.xml, i, text)]

\* What copying the text of leaf i makes of an object.
FieldSet(Values, c, d, i, text) ==
  /\ ObjectFits(Values, d) /\ d.xml = c.xml /\ (InSync(c) => InSync(d))
  /\ d.shim[i] = ReformatValueStr(c.xml, i, text) /\ \A k \in Leaves(c.xml) \ {i} : d.shim[k] = c.shim[k]
  /\ InSync(c) /\ text = c.shim[i] => d.shim[i] = text
  /\ StoredIn(d, i, text) /\ \A k \in Leaves(c.xml) \ {i} : \A t : StoredIn(c, k, t) => StoredIn(d, k, t)

(***************************************************************************)
(* set_config_item_value: the value and the shim get the same text, and the*)
(* other leaves keep theirs.                                               *)
(***************************************************************************)
LEMMA FieldIsSet ==
  ASSUME NEW Values, Lawful(Values), NEW c, ObjectFits(Values, c), NEW i \in Leaves(c.xml), NEW text,
         NEW new, new = set_subknob_text(c.xml, c.vals, i, text), new # Error
  PROVE  FieldSet(Values, c, WithText(c, i, text, new), i, text)
<1> DEFINE d == WithText(c, i, text, new)
           x == c.xml
           shown == ReformatValueStr(x, i, text)
           Texts(v, k) == subknob_text(x, v, k)
<1>1. DOMAIN c = {"xml", "vals", "shim"} /\ x \in DOMAIN knobs /\ c.vals \in Values[x]
      /\ DOMAIN c.shim = DOMAIN subknobs[x] /\ i \in DOMAIN subknobs[x]
  BY DEF ObjectFits, IsObject, Leaves
<1>2. /\ DOMAIN d = DOMAIN c /\ d.xml = x /\ d.vals = new /\ DOMAIN d.shim = DOMAIN c.shim
      /\ d.shim[i] = shown /\ \A k \in DOMAIN c.shim \ {i} : d.shim[k] = c.shim[k]
  <2> HIDE DEF shown
  <2>1. d = [c EXCEPT !.vals = new, !.shim = [c.shim EXCEPT ![i] = shown]]
    BY DEF WithText, shown
  <2> HIDE DEF d
  <2> QED BY <1>1, <2>1
<1> HIDE DEF d
<1>3. new \in Values[x]
  BY <1>1 DEF Lawful, Closed
<1>4. Texts(new, i) = shown /\ \A k \in Leaves(x) \ {i} : Texts(new, k) = Texts(c.vals, k)
  <2>1. SetsOneLeaf(x, i, c.vals, text)
    BY <1>1 DEF Lawful, SetsTexts
  <2> QED BY <2>1 DEF SetsOneLeaf, OneLeafIsSet
<1>5. ObjectFits(Values, d)
  BY <1>1, <1>2, <1>3 DEF ObjectFits, IsObject
<1>6. InSync(c) => InSync(d)
  BY <1>1, <1>2, <1>4 DEF InSync, Leaves
<1>7. InSync(c) /\ text = c.shim[i] => d.shim[i] = text
  <2>1. TextStands(x, i, c.vals)
    BY <1>1 DEF Lawful, SetsTexts
  <2> QED BY <1>2, <2>1 DEF TextStands, InSync
<1>8. StoredIn(d, i, text)
  BY <1>2, <1>4 DEF StoredIn
<1>9. ASSUME NEW k \in Leaves(x) \ {i}, NEW t, StoredIn(c, k, t)
      PROVE  StoredIn(d, k, t)
  <2>1. RefusesAlike(x, k, c.vals, new, t)
    BY <1>1, <1>3 DEF Lawful, SetsTexts
  <2>2. Texts(new, k) = Texts(c.vals, k)
    BY <1>4
  <2> QED BY <1>2, <1>9, <2>1, <2>2 DEF StoredIn, RefusesAlike
<1>10. \A k \in Leaves(x) \ {i} : d.shim[k] = c.shim[k]
  BY <1>1, <1>2 DEF Leaves
<1>11. FieldSet(Values, c, d, i, text)
  BY <1>2, <1>5, <1>6, <1>7, <1>8, <1>9, <1>10 DEF FieldSet
<1> QED BY <1>11 DEF d

-----------------------------------------------------------------------------
(* The application: the objects fit, and the fields are of one of them *)

AllSync(e) == \A o \in 1..Len(e.objs) : InSync(e.objs[o])
ShowsShim(e) == \A i \in DOMAIN e.wid.text \ e.wid.typed : e.wid.text[i] = e.objs[e.wid.obj].shim[i]
InStep(e) == AllSync(e) /\ ShowsShim(e)

\* The fields are of leaves of the page, and its object is that of the file.
Listed(x, page, i) == i \in Leaves(x) /\ \E m \in 1..Len(Items[x][page]) : Items[x][page][m] = i
FieldsListed(e) == \A i \in DOMAIN e.wid.text : Listed(Shown(e), e.wid.page, i)
Held(e) == e.wid = NoWidgets \/ Has(e, e.wid.fid, e.wid.obj)

AllFit(Values, e) == \A o \in 1..Len(e.objs) : ObjectFits(Values, e.objs[o])
Good(Values, e) == AppFits(e) /\ Belongs(e) /\ AllFit(Values, e) /\ FieldsListed(e) /\ Held(e)

\* What an operation carries over that opens no file.
Carries(Values, e, f) == Keeps(e, f) /\ Good(Values, f) /\ (InStep(e) => InStep(f))

(***************************************************************************)
(* The pages belong to the files as before.                                *)
(***************************************************************************)
LEMMA KeptBelong ==
  ASSUME NEW e, NEW f, Keeps(e, f), Belongs(e)
  PROVE  Belongs(f)
BY DEF Keeps, Belongs, Owned

(***************************************************************************)
(* One operation after the other.                                          *)
(***************************************************************************)
LEMMA CarriesTwice ==
  ASSUME NEW Values, NEW e, NEW f, NEW g, Carries(Values, e, f), Carries(Values, f, g)
  PROVE  Carries(Values, e, g)
BY KeepsTwice DEF Carries

(***************************************************************************)
(* Flags say nothing of objects or fields.                                 *)
(***************************************************************************)
LEMMA FlagsCarry ==
  ASSUME NEW Values, NEW e, Good(Values, e), NEW f, OnlyFlags(e, f)
  PROVE  Carries(Values, e, f) /\ (InStep(f) <=> InStep(e)) /\ (AllSync(f) <=> AllSync(e))
<1>1. Keeps(e, f) /\ Belongs(f) /\ f.wid = e.wid /\ f.objs = e.objs /\ f.files = e.files
  BY FlagsKeep, KeptBelong DEF Good, OnlyFlags
<1>2. AppFits(f)
  BY <1>1 DEF Keeps
<1>3. AllFit(Values, f) /\ FieldsListed(f) /\ Held(f)
  BY <1>1 DEF Good, AllFit, FieldsListed, Shown, Held, Has
<1>4. AllSync(f) <=> AllSync(e)
  BY <1>1 DEF AllSync
<1>5. ShowsShim(f) <=> ShowsShim(e)
  BY <1>1 DEF ShowsShim
<1> QED BY <1>1, <1>2, <1>3, <1>4, <1>5 DEF Carries, Good, InStep

(***************************************************************************)
(* An exception.                                                           *)
(***************************************************************************)
LEMMA FailCarries ==
  ASSUME NEW Values, NEW e, Good(Values, e)
  PROVE  Carries(Values, e, Fail(e)) /\ Fail(e).err
<1>1. OnlyFlags(e, Fail(e)) /\ Fail(e).err
  BY DEF Fail, OnlyFlags, Good, AppFits, AppTypeOK
<1> QED BY <1>1, FlagsCarry

\* An object is another one.
IsPutObject(e, f, o, c) ==
  /\ f.wid = e.wid /\ f.err = e.err /\ f.sel = e.sel /\ Len(f.objs) = Len(e.objs) /\ f.objs[o] = c
  /\ \A n \in 1..Len(e.objs) \ {o} : f.objs[n] = e.objs[n]
PutsObject(Values, e, f, o, c) ==
  Keeps(e, f) /\ Good(Values, f) /\ IsPutObject(e, f, o, c) /\ (AllSync(e) /\ InSync(c) => AllSync(f))

(***************************************************************************)
(* An object is replaced by one of the same XML file that fits.            *)
(***************************************************************************)
LEMMA PutObjectGood ==
  ASSUME NEW Values, NEW e, Good(Values, e), NEW o \in 1..Len(e.objs), NEW c, ObjectFits(Values, c),
         c.xml = e.objs[o].xml
  PROVE  PutsObject(Values, e, [e EXCEPT !.objs[o] = c], o, c)
<1> DEFINE objs == e.objs
           f == [e EXCEPT !.objs[o] = c]
<1>1. AppFits(e) /\ \E S : objs \in Seq(S)
  BY DEF Good, AppFits, AppTypeOK
<1>2. SameXml(e.objs[o], c)
  BY DEF SameXml, ObjectFits
<1>3. Keeps(e, f) /\ f.wid = e.wid
  BY <1>1, <1>2, PutObjectKeeps
<1>4. f.objs = [objs EXCEPT ![o] = c] /\ f.err = e.err /\ f.sel = e.sel
  BY <1>1 DEF AppFits, AppTypeOK
<1>5. Len(f.objs) = Len(e.objs) /\ f.objs[o] = c /\ \A n \in 1..Len(e.objs) \ {o} : f.objs[n] = e.objs[n]
  <2> HIDE DEF objs
  <2>1. Len(f.objs) = Len(objs) /\ f.objs[o] = c /\ \A n \in 1..Len(objs) \ {o} : f.objs[n] = objs[n]
    BY <1>1, <1>4 DEF objs
  <2> QED BY <2>1 DEF objs
<1> HIDE DEF objs, f
<1>6. IsPutObject(e, f, o, c)
  BY <1>3, <1>4, <1>5 DEF IsPutObject
<1>7. AllFit(Values, f)
  BY <1>5 DEF Good, AllFit
<1>8. AllSync(e) /\ InSync(c) => AllSync(f)
  BY <1>5 DEF AllSync
<1>9. FieldsListed(f)
  <2> SUFFICES ASSUME NEW i \in DOMAIN f.wid.text PROVE Listed(Shown(f), f.wid.page, i)
    BY DEF FieldsListed
  <2>1. e.wid # NoWidgets
    BY <1>3 DEF NoWidgets
  <2>2. e.wid.obj \in 1..Len(e.objs)
    BY <2>1 DEF Good, AppFits, PageFits, Showing
  <2>3. Shown(f) = Shown(e)
    BY <1>3, <1>5, <2>2 DEF Shown
  <2> QED BY <1>3, <2>3 DEF Good, FieldsListed
<1>10. Held(f) /\ Belongs(f) /\ AppFits(f)
  BY <1>3, KeptBelong DEF Good, Held, Has, Keeps
<1>11. PutsObject(Values, e, f, o, c)
  BY <1>3, <1>6, <1>7, <1>8, <1>9, <1>10 DEF Good, PutsObject
<1> QED BY <1>11 DEF f

(***************************************************************************)
(* update_config_data_from_widget finds the item the field was made from,  *)
(* in the object it was made from: the file_id is of that object, and no   *)
(* other leaf has that namespace and name.                                 *)
(***************************************************************************)
LEMMA FieldTarget ==
  ASSUME NEW Values, Lawful(Values), NEW e, Good(Values, e), NEW i \in DOMAIN e.wid.text
  PROVE  /\ e.wid.obj \in 1..Len(e.objs) /\ ObjOf(e, e.wid.fid) = e.wid.obj /\ i \in Leaves(Shown(e))
         /\ FieldItem(e, e.wid.obj, i) = i /\ i # 0
<1> DEFINE o == e.wid.obj
           x == Shown(e)
           hits == {j \in DOMAIN subknobs[x] :
                      subknobs[x][j].name = subknobs[x][i].name
                        /\ knobs[x][subknobs[x][j].k].ns = knobs[x][subknobs[x][i].k].ns /\ subknobs[x][j].leaf}
<1>1. e.wid # NoWidgets
  BY DEF NoWidgets
<1>2. o \in 1..Len(e.objs) /\ x = e.objs[o].xml /\ x \in DOMAIN knobs
  BY <1>1 DEF Good, AppFits, AppTypeOK, PageFits, Showing, Shown, IsObject
<1>3. i \in Leaves(x)
  BY DEF Good, FieldsListed, Listed
<1>4. Len(subknobs[x]) \in Nat /\ DOMAIN subknobs[x] = 1..Len(subknobs[x])
  BY <1>2, ItemsAssumption
<1>5. i \in DOMAIN subknobs[x] /\ subknobs[x][i].leaf /\ i \in Nat \ {0}
  BY <1>3, <1>4 DEF Leaves
<1>6. ObjOf(e, e.wid.fid) = o
  <2>1. PICK n \in 1..Len(e.files) : e.files[n] = [id |-> e.wid.fid, obj |-> o]
    BY <1>1 DEF Good, Held, Has
  <2>2. DOMAIN e.files = 1..Len(e.files) /\ Len(e.files) \in Nat
    BY DEF Good, AppFits, AppTypeOK
  <2>3. e.files[n].id = e.wid.fid /\ e.files[n].obj = o
    BY <2>1
  <2>4. \A m \in 1..Len(e.files) : e.files[m].id = e.wid.fid => m = n
    <3>1. \A m \in 1..Len(e.files) : e.files[m].id = m - 1
      BY DEF Good, Belongs
    <3> QED BY <2>2, <2>3, <3>1
  <2>5. (CHOOSE m \in DOMAIN e.files : e.files[m].id = e.wid.fid) = n
    BY <2>2, <2>3, <2>4
  <2> QED BY <2>3, <2>5 DEF ObjOf
<1>7. FieldItem(e, o, i) = FirstIndex(hits)
  BY <1>2 DEF FieldItem, GetItemByPath
<1>8. hits = {i}
  <2>1. PathsDiffer(x)
    BY <1>2 DEF Lawful
  <2> QED BY <1>3, <1>5, <2>1 DEF PathsDiffer, Leaves
<1> HIDE DEF hits, x, o
<1>9. FirstIndex({i}) = i
  BY <1>5 DEF FirstIndex, Min
<1> QED BY <1>2, <1>3, <1>5, <1>6, <1>7, <1>8, <1>9 DEF x, o

\* What a text makes of the values, and of the application.
NewValues(c, i, text) == set_subknob_text(c.xml, c.vals, i, text)
PutText(e, o, c, i, text) ==
  IF NewValues(c, i, text) = Error THEN e ELSE [e EXCEPT !.objs[o] = WithText(c, i, text, NewValues(c, i, text))]

(***************************************************************************)
(* A field is copied: its text is refused, which changes nothing, or the   *)
(* value and the shim get it.                                              *)
(***************************************************************************)
LEMMA FieldCopied ==
  ASSUME NEW Values, Lawful(Values), NEW e, Good(Values, e), ~e.err, NEW i \in DOMAIN e.wid.text
  PROVE  UpdateFromWidget(e, i) = PutText(e, e.wid.obj, e.objs[e.wid.obj], i, e.wid.text[i])
<1> DEFINE o == e.wid.obj
           c == e.objs[o]
           new == NewValues(c, i, e.wid.text[i])
           text == e.wid.text[i]
           set == SetItemValue(c, i, text)
<1>1. o \in 1..Len(e.objs) /\ ObjOf(e, e.wid.fid) = o /\ FieldItem(e, o, i) = i /\ i # 0
  BY FieldTarget
<1>2. o # 0
  <2>1. Len(e.objs) \in Nat
    BY DEF Good, AppFits, AppTypeOK
  <2> QED BY <1>1, <2>1
<1>3. UpdateFromWidget(e, i) = Copied(e, o, i, text, set)
  BY <1>1, <1>2 DEF UpdateFromWidget, CopyField, CopyText
<1>4. set = ItemSet(c, i, text, new)
  BY DEF SetItemValue, NewValues
<1>5. DOMAIN c = {"xml", "vals", "shim"}
  BY <1>1 DEF Good, AllFit, ObjectFits, IsObject
<1>6. CASE new = Error
  <2>1. set.err
    BY <1>4, <1>6 DEF ItemSet
  <2> HIDE DEF set
  <2> QED BY <1>3, <1>6, <2>1 DEF Copied, PutText
<1>7. CASE new # Error
  <2> DEFINE d == [c EXCEPT !.vals = new]
  <2>1. ~set.err /\ set.cfg = d
    BY <1>4, <1>7 DEF ItemSet
  <2> HIDE DEF set
  <2>2. d.xml = c.xml
    BY <1>5
  <2>3. Copied(e, o, i, text, set) = [e EXCEPT !.objs[o] = [d EXCEPT !.shim[i] = ReformatValueStr(d.xml, i, text)]]
    BY <2>1 DEF Copied
  <2>4. [d EXCEPT !.shim[i] = ReformatValueStr(d.xml, i, text)] = WithText(c, i, text, new)
    BY <2>2 DEF WithText
  <2> HIDE DEF d
  <2> QED BY <1>3, <1>7, <2>3, <2>4 DEF PutText
<1> QED BY <1>6, <1>7

\* What copying fields leaves: the page is the same, and no field that was stored
\* is lost.
CopiesFields(Values, e, f) ==
  /\ Carries(Values, e, f) /\ f.wid = e.wid /\ ~f.err
  /\ \A k \in DOMAIN e.wid.text : Stored(e, k) => Stored(f, k)

(***************************************************************************)
(* One field of the page.                                                  *)
(***************************************************************************)
LEMMA FieldStored ==
  ASSUME NEW Values, Lawful(Values), NEW e, Good(Values, e), ~e.err, NEW i \in DOMAIN e.wid.text
  PROVE  CopiesFields(Values, e, UpdateFromWidget(e, i)) /\ Stored(UpdateFromWidget(e, i), i)
<1> DEFINE o == e.wid.obj
           c == e.objs[o]
           text == e.wid.text[i]
           new == set_subknob_text(c.xml, c.vals, i, text)
           d == WithText(c, i, text, new)
           f == UpdateFromWidget(e, i)
<1>1. o \in 1..Len(e.objs) /\ i \in Leaves(c.xml)
  BY FieldTarget DEF Shown
<1>2. ObjectFits(Values, c)
  BY <1>1 DEF Good, AllFit
<1>3. f = IF new = Error THEN e ELSE [e EXCEPT !.objs[o] = d]
  <2>1. f = PutText(e, o, c, i, text)
    BY FieldCopied
  <2> HIDE DEF f, c, o, text
  <2> QED BY <2>1 DEF PutText, NewValues
<1>4. CASE new = Error
  <2>1. f = e
    BY <1>3, <1>4
  <2>2. Stored(e, i)
    BY <1>4 DEF Stored, StoredIn
  <2>3. Carries(Values, e, e)
    BY DEF Carries, Keeps, Good
  <2> QED BY <2>1, <2>2, <2>3 DEF CopiesFields
<1>5. CASE new # Error
  <2>1. FieldSet(Values, c, d, i, text)
    BY <1>1, <1>2, <1>5, FieldIsSet
  <2>2. f = [e EXCEPT !.objs[o] = d]
    BY <1>3, <1>5
  <2>3. \A k \in DOMAIN e.wid.text : k \in Leaves(c.xml)
    BY DEF Good, FieldsListed, Listed, Shown
  <2> HIDE DEF c, d, f, new, text
  <2>4. /\ Keeps(e, f) /\ Good(Values, f) /\ IsPutObject(e, f, o, d) /\ (AllSync(e) /\ InSync(d) => AllSync(f))
    <3>1. ObjectFits(Values, d) /\ d.xml = e.objs[o].xml
      BY <2>1 DEF FieldSet, c
    <3> HIDE DEF o
    <3> QED BY <1>1, <2>2, <3>1, PutObjectGood DEF PutsObject
  <2>5. f.wid = e.wid /\ ~f.err /\ f.objs[o] = d
    BY <2>4 DEF IsPutObject
  <2>6. InStep(e) => InStep(f)
    <3> SUFFICES ASSUME InStep(e) PROVE InStep(f)
      OBVIOUS
    <3>1. InSync(c) /\ AllSync(f)
      BY <1>1, <2>1, <2>4 DEF InStep, AllSync, FieldSet, c
    <3>2. ASSUME NEW k \in DOMAIN f.wid.text \ f.wid.typed PROVE f.wid.text[k] = f.objs[f.wid.obj].shim[k]
      <4>1. k \in Leaves(c.xml) /\ e.wid.text[k] = c.shim[k]
        BY <2>3, <2>5, <3>2 DEF InStep, ShowsShim, c
      <4>2. d.shim[k] = c.shim[k]
        <5>1. CASE k = i
          BY <2>1, <3>1, <4>1, <5>1 DEF FieldSet, text
        <5>2. CASE k # i
          BY <2>1, <4>1, <5>2 DEF FieldSet
        <5> QED BY <5>1, <5>2
      <4> QED BY <2>5, <4>1, <4>2
    <3> QED BY <3>1, <3>2 DEF InStep, ShowsShim
  <2>7. Stored(f, i)
    BY <2>1, <2>5 DEF Stored, FieldSet, text
  <2>8. ASSUME NEW k \in DOMAIN e.wid.text, Stored(e, k) PROVE Stored(f, k)
    <3>1. CASE k = i
      BY <2>7, <3>1
    <3>2. CASE k # i
      BY <2>1, <2>3, <2>5, <2>8, <3>2 DEF Stored, FieldSet, c
    <3> QED BY <3>1, <3>2
  <2>9. CopiesFields(Values, e, f) /\ Stored(f, i)
    BY <2>4, <2>5, <2>6, <2>7, <2>8 DEF CopiesFields, Carries
  <2> QED BY <2>9 DEF f
<1> QED BY <1>4, <1>5

(***************************************************************************)
(* combo_select_changed: the list of options shows what was selected, and  *)
(* so do the shim and the value then.                                      *)
(***************************************************************************)
LEMMA OptionSelected ==
  ASSUME NEW Values, Lawful(Values), NEW e, Good(Values, e), ~e.err, NEW i \in DOMAIN e.wid.text,
         NEW option \in GetCfgItemOptions(Shown(e), i), NEW s, s = [e EXCEPT !.wid.text[i] = option]
  PROVE  Carries(Values, e, UpdateFromWidget(s, i))
<1> DEFINE o == e.wid.obj
           c == e.objs[o]
           wid == [e.wid EXCEPT !.text[i] = option]
           new == set_subknob_text(c.xml, c.vals, i, option)
           d == WithText(c, i, option, new)
           f == UpdateFromWidget(s, i)
<1>1. o \in 1..Len(e.objs) /\ i \in Leaves(c.xml) /\ c.xml = Shown(e)
  BY FieldTarget DEF Shown
<1>2. ObjectFits(Values, c)
  BY <1>1 DEF Good, AllFit
<1>3. new # Error /\ ReformatValueStr(c.xml, i, option) = option
  BY <1>1, <1>2 DEF ObjectFits, IsObject, Lawful, SetsTexts, OptionsStand
<1>4. /\ DOMAIN wid = DOMAIN e.wid /\ DOMAIN wid.text = DOMAIN e.wid.text /\ wid.typed = e.wid.typed
      /\ wid.page = e.wid.page /\ wid.fid = e.wid.fid /\ wid.obj = o
      /\ wid.text[i] = option /\ \A k \in DOMAIN e.wid.text \ {i} : wid.text[k] = e.wid.text[k]
  BY DEF Good, AppFits, AppTypeOK
<1>5. s = [e EXCEPT !.wid = wid]
  BY DEF Good, AppFits, AppTypeOK
<1>6. AppFits(e)
  BY DEF Good
<1> HIDE DEF wid
<1>7. Keeps(e, s)
  BY <1>4, <1>5, <1>6, FieldKeeps
<1>8. s.wid = wid /\ s.objs = e.objs /\ s.err = e.err
  BY <1>5, <1>6 DEF AppFits, AppTypeOK
<1>9. Good(Values, s)
  <2>1. AppFits(s) /\ Belongs(s)
    BY <1>7, KeptBelong DEF Good, Keeps
  <2>2. AllFit(Values, s)
    BY <1>8 DEF Good, AllFit
  <2>3. Shown(s) = Shown(e)
    BY <1>4, <1>8 DEF Shown
  <2>4. FieldsListed(s)
    BY <1>4, <1>8, <2>3 DEF Good, FieldsListed
  <2>5. Held(s)
    <3>1. e.wid # NoWidgets
      BY DEF NoWidgets
    <3> QED BY <1>4, <1>7, <1>8, <3>1 DEF Good, Held, Has, Keeps
  <2> QED BY <2>1, <2>2, <2>4, <2>5 DEF Good
<1>10. f = [s EXCEPT !.objs[o] = d]
  <2>1. i \in DOMAIN s.wid.text /\ s.wid.text[i] = option /\ s.objs[s.wid.obj] = c /\ s.wid.obj = o /\ ~s.err
    BY <1>4, <1>8
  <2>2. f = IF new = Error THEN s ELSE [s EXCEPT !.objs[o] = d]
    <3>1. f = PutText(s, s.wid.obj, s.objs[s.wid.obj], i, s.wid.text[i])
      BY <1>9, <2>1, FieldCopied
    <3>2. f = PutText(s, o, c, i, option)
      BY <2>1, <3>1
    <3> HIDE DEF f, c, o
    <3> QED BY <3>2 DEF PutText, NewValues
  <2> QED BY <1>3, <2>2
<1>11. FieldSet(Values, c, d, i, option)
  BY <1>1, <1>2, <1>3, FieldIsSet
<1>12. \A k \in DOMAIN e.wid.text : k \in Leaves(c.xml)
  BY DEF Good, FieldsListed, Listed, Shown
<1> HIDE DEF d, f, new
<1>13. /\ Keeps(s, f) /\ Good(Values, f) /\ IsPutObject(s, f, o, d) /\ (AllSync(s) /\ InSync(d) => AllSync(f))
  <2>1. ObjectFits(Values, d) /\ d.xml = s.objs[o].xml /\ o \in 1..Len(s.objs)
    BY <1>1, <1>8, <1>11 DEF FieldSet
  <2> HIDE DEF c, o
  <2> QED BY <1>9, <1>10, <2>1, PutObjectGood DEF PutsObject
<1>14. f.wid = wid /\ f.objs[o] = d
  BY <1>8, <1>13 DEF IsPutObject
<1>15. InStep(e) => InStep(f)
  <2> SUFFICES ASSUME InStep(e) PROVE InStep(f)
    OBVIOUS
  <2>1. InSync(c) /\ AllSync(f)
    BY <1>1, <1>8, <1>11, <1>13 DEF InStep, AllSync, FieldSet
  <2>2. ASSUME NEW k \in DOMAIN f.wid.text \ f.wid.typed PROVE f.wid.text[k] = f.objs[f.wid.obj].shim[k]
    <3>1. k \in DOMAIN e.wid.text \ e.wid.typed
      BY <1>4, <1>14, <2>2
    <3>2. CASE k = i
      BY <1>3, <1>4, <1>11, <1>14, <3>2 DEF FieldSet
    <3>3. CASE k # i
      <4>1. e.wid.text[k] = c.shim[k] /\ d.shim[k] = c.shim[k]
        BY <1>11, <1>12, <3>1, <3>3 DEF InStep, ShowsShim, FieldSet
      <4> QED BY <1>4, <1>14, <3>1, <3>3, <4>1
    <3> QED BY <3>2, <3>3
  <2> QED BY <2>1, <2>2 DEF InStep, ShowsShim
<1>16. Carries(Values, e, f)
  BY <1>7, <1>13, <1>15, KeepsTwice DEF Carries
<1> QED BY <1>16 DEF f

(***************************************************************************)
(* Some fields and then some more.                                         *)
(***************************************************************************)
LEMMA CopiesTwice ==
  ASSUME NEW Values, NEW e, NEW f, NEW g, CopiesFields(Values, e, f), CopiesFields(Values, f, g)
  PROVE  CopiesFields(Values, e, g)
<1>1. Carries(Values, e, g)
  BY CarriesTwice DEF CopiesFields
<1> QED BY <1>1 DEF CopiesFields

(***************************************************************************)
(* No field.                                                               *)
(***************************************************************************)
LEMMA CopiesNone ==
  ASSUME NEW Values, NEW e, Good(Values, e), ~e.err
  PROVE  CopiesFields(Values, e, e)
BY DEF CopiesFields, Carries, Keeps, Good

(***************************************************************************)
(* The fields of the items of a page, from top to bottom: each is stored,  *)
(* and the later ones leave the earlier ones alone.                        *)
(***************************************************************************)
LEMMA ItemsStored ==
  ASSUME NEW Values, Lawful(Values), NEW e, Good(Values, e), ~e.err, NEW items, Len(items) \in Nat
  PROVE  /\ CopiesFields(Values, e, UpdateItems(e, items))
         /\ \A m \in 1..Len(items) : items[m] \in DOMAIN e.wid.text => Stored(UpdateItems(e, items), items[m])
<1>1. PICK f : /\ f[0] = e /\ UpdateItems(e, items) = f[Len(items)]
               /\ \A n \in 1..Len(items) : f[n] = UpdateItem(f[n - 1], items[n])
  <2>1. \E f : ItemsCopied(f, e, items)
    BY UpdateItemsSteps
  <2> QED BY ONLY <2>1 DEF ItemsCopied
<1> DEFINE Right(p, n) == /\ CopiesFields(Values, e, p)
                          /\ \A m \in 1..n : items[m] \in DOMAIN e.wid.text => Stored(p, items[m])
           T == {n \in 0..Len(items) : Right(f[n], n)}
<1>2. 0 \in T
  BY <1>1, CopiesNone
<1>3. ASSUME NEW n \in 1..Len(items), n - 1 \in T
      PROVE  n \in T
  <2> DEFINE p == f[n - 1]
             i == items[n]
             q == UpdateFromWidget(p, i)
  <2>1. CopiesFields(Values, e, p) /\ f[n] = UpdateItem(p, i)
    BY <1>1, <1>3
  <2>2. \A m \in 1..(n - 1) : items[m] \in DOMAIN e.wid.text => Stored(p, items[m])
    BY <1>3
  <2>3. \A m \in 1..n : m \in 1..(n - 1) \/ m = n
    OBVIOUS
  <2> HIDE DEF p
  <2>4. Good(Values, p) /\ ~p.err /\ p.wid = e.wid
    BY <2>1 DEF CopiesFields, Carries
  <2>5. CASE i \in DOMAIN e.wid.text
    <3>1. f[n] = q
      BY <2>1, <2>4, <2>5 DEF UpdateItem
    <3>2. CopiesFields(Values, p, q) /\ Stored(q, i)
      BY <2>4, <2>5, FieldStored
    <3> HIDE DEF q
    <3>3. CopiesFields(Values, e, q)
      BY <2>1, <3>2, CopiesTwice
    <3>4. \A m \in 1..(n - 1) : items[m] \in DOMAIN e.wid.text => Stored(q, items[m])
      BY <2>2, <2>4, <3>2 DEF CopiesFields
    <3>5. Right(q, n)
      BY <2>3, <3>2, <3>3, <3>4
    <3> QED BY <3>1, <3>5
  <2>6. CASE i \notin DOMAIN e.wid.text
    <3>1. f[n] = p
      BY <2>1, <2>4, <2>6 DEF UpdateItem
    <3>2. Right(p, n)
      BY <2>1, <2>2, <2>3, <2>6
    <3> QED BY <3>1, <3>2
  <2> QED BY <2>5, <2>6
<1>4. Len(items) \in T
  <2> HIDE DEF T
  <2>1. 0..Len(items) \subseteq T
    BY <1>2, <1>3, BoundedInduction
  <2> QED BY <2>1
<1> QED BY <1>1, <1>4

(***************************************************************************)
(* update_config_data_on_page: every field of the page is stored.          *)
(***************************************************************************)
LEMMA PageStored ==
  ASSUME NEW Values, Lawful(Values), NEW e, Good(Values, e), ~e.err
  PROVE  /\ CopiesFields(Values, e, UpdateConfigDataOnPage(e))
         /\ \A i \in DOMAIN e.wid.text : Stored(UpdateConfigDataOnPage(e), i)
<1>1. CASE e.wid = NoWidgets
  <2>1. UpdateConfigDataOnPage(e) = e
    BY <1>1 DEF UpdateConfigDataOnPage
  <2>2. DOMAIN e.wid.text = {}
    BY <1>1 DEF NoWidgets
  <2> QED BY <2>1, <2>2, CopiesNone
<1>2. CASE e.wid # NoWidgets
  <2> DEFINE items == Items[Shown(e)][e.wid.page]
             f == UpdateItems(e, items)
  <2>1. Showing(e)
    BY <1>2 DEF Good, AppFits, PageFits
  <2>2. Shown(e) \in DOMAIN knobs /\ e.wid.page \in PagesOf(Shown(e))
    BY <2>1 DEF Good, AppFits, AppTypeOK, IsObject, Showing, Shown
  <2>3. items \in Seq(1..Len(subknobs[Shown(e)]))
    BY <2>2, ItemsSequence
  <2>4. UpdateConfigDataOnPage(e) = f
    BY <1>2 DEF UpdateConfigDataOnPage
  <2>5. \A i \in DOMAIN e.wid.text : \E m \in 1..Len(items) : items[m] = i
    BY DEF Good, FieldsListed, Listed
  <2>6. Len(items) \in Nat
    <3> HIDE DEF items
    <3> QED BY <2>3
  <2>7. /\ CopiesFields(Values, e, f)
        /\ \A m \in 1..Len(items) : items[m] \in DOMAIN e.wid.text => Stored(f, items[m])
    <3> HIDE DEF items
    <3> QED BY <2>6, ItemsStored
  <2> HIDE DEF f, items
  <2> QED BY <2>4, <2>5, <2>7
<1> QED BY <1>1, <1>2

-----------------------------------------------------------------------------
(* Pages *)

\* What showing a page does: fields that show the shim.
Shows(Values, e, f) ==
  Keeps(e, f) /\ Good(Values, f) /\ f.err = e.err /\ f.objs = e.objs /\ (AllSync(e) => InStep(f))

(***************************************************************************)
(* No fields show the shim.                                                *)
(***************************************************************************)
LEMMA ClearShows ==
  ASSUME NEW Values, NEW e, Good(Values, e)
  PROVE  Shows(Values, e, ClearWidgets(e)) /\ ClearWidgets(e).wid = NoWidgets
<1> DEFINE f == ClearWidgets(e)
<1>1. Keeps(e, f) /\ f.wid = NoWidgets
  BY ClearKeeps DEF Good
<1>2. f.err = e.err /\ f.objs = e.objs
  BY DEF ClearWidgets, Good, AppFits, AppTypeOK
<1> HIDE DEF f
<1>3. DOMAIN f.wid.text = {}
  BY <1>1 DEF NoWidgets
<1>4. AppFits(f) /\ Belongs(f)
  BY <1>1, KeptBelong DEF Good, Keeps
<1>5. AllFit(Values, f) /\ FieldsListed(f) /\ Held(f)
  BY <1>1, <1>2, <1>3 DEF Good, AllFit, FieldsListed, Held
<1>6. AllSync(e) => InStep(f)
  BY <1>2, <1>3 DEF AllSync, InStep, ShowsShim
<1>7. Shows(Values, e, f)
  BY <1>1, <1>2, <1>4, <1>5, <1>6 DEF Shows, Good
<1> QED BY <1>1, <1>7 DEF f

(***************************************************************************)
(* build_config_data_page                                                  *)
(***************************************************************************)
LEMMA BuildPageShows ==
  ASSUME NEW Values, NEW e, Good(Values, e), NEW page \in e.tree
  PROVE  Shows(Values, e, BuildConfigDataPage(e, page))
<1> DEFINE o == e.plist[page]
           x == e.objs[o].xml
           items == Items[x][page]
           n == Clamped(e.cur, PartCount(items))
           part == OnPart(items, n)
           text == AddConfigItems(e.objs[o], part)
           wid == [page |-> page, fid |-> e.pmap[page], obj |-> o, typed |-> {}, text |-> text]
           f == ShowPart(e, page, items, n)
           g == BuildConfigDataPage(e, page)
<1>1. AppFits(e)
  BY DEF Good
<1>2. Keeps(e, g)
  BY <1>1, BuildPageKeeps
<1>3. o \in 1..Len(e.objs) /\ x \in DOMAIN knobs /\ page \in PagesOf(x)
  BY <1>1 DEF AppFits, AppTypeOK, TreeFits, IsObject
<1>4. g = IF Len(items) <= 2 THEN ClearWidgets(e) ELSE f
  BY DEF BuildConfigDataPage, ShowItems
<1>5. CASE Len(items) <= 2
  <2>1. g = ClearWidgets(e)
    BY <1>4, <1>5
  <2> QED BY <2>1, ClearShows
<1>6. CASE ~(Len(items) <= 2)
  <2>1. f.objs = e.objs /\ f.err = e.err /\ f.files = e.files /\ f.wid = wid
    <3> HIDE DEF n, items
    <3> QED BY <1>1 DEF ShowPart, AppFits, AppTypeOK, part, text
  <2>2. wid.page = page /\ wid.fid = e.pmap[page] /\ wid.obj = o /\ wid.typed = {} /\ wid.text = text
    OBVIOUS
  <2>3. items \in Seq(1..Len(subknobs[x])) /\ Len(items) \in Nat /\ DOMAIN items = 1..Len(items)
    <3>1. items \in Seq(1..Len(subknobs[x]))
      BY <1>3, ItemsSequence
    <3> HIDE DEF items
    <3> QED BY <3>1
  <2>4. DOMAIN subknobs[x] = 1..Len(subknobs[x])
    BY <1>3, ItemsAssumption
  <2>5. ASSUME NEW i \in DOMAIN text PROVE Listed(x, page, i) /\ text[i] = e.objs[o].shim[i]
    <3> HIDE DEF items, part
    <3>1. text = [k \in {j \in part : subknobs[x][j].leaf} |-> e.objs[o].shim[k]]
      BY DEF AddConfigItems
    <3> HIDE DEF text
    <3>2. i \in part /\ subknobs[x][i].leaf /\ text[i] = e.objs[o].shim[i]
      BY <2>5, <3>1
    <3>3. \E m \in DOMAIN items : items[m] = i
      BY <3>2 DEF part, OnPart
    <3>4. PICK m \in 1..Len(items) : items[m] = i
      BY <2>3, <3>3
    <3>5. i \in DOMAIN subknobs[x]
      BY <2>3, <2>4, <3>4, ElementOfSeq
    <3> HIDE DEF x
    <3> QED BY <3>2, <3>4, <3>5 DEF Listed, Leaves, items
  <2>6. g = f
    BY <1>4, <1>6
  <2> HIDE DEF f, g, text, wid, items
  <2>7. AllFit(Values, f)
    BY <2>1 DEF Good, AllFit
  <2>8. FieldsListed(f)
    BY <2>1, <2>2, <2>5 DEF FieldsListed, Shown
  <2>9. Held(f)
    <3>1. Has(e, e.pmap[page], o)
      BY DEF Good, Belongs, Owned, Has
    <3> QED BY <2>1, <2>2, <3>1 DEF Held, Has
  <2>10. AllSync(e) => InStep(f)
    BY <2>1, <2>2, <2>5 DEF AllSync, InStep, ShowsShim
  <2>11. AppFits(f) /\ Belongs(f)
    BY <1>2, <2>6, KeptBelong DEF Good, Keeps
  <2>12. Shows(Values, e, f)
    BY <1>2, <2>1, <2>6, <2>7, <2>8, <2>9, <2>10, <2>11 DEF Shows, Good
  <2> QED BY <2>6, <2>12 DEF g
<1> QED BY <1>5, <1>6

(***************************************************************************)
(* Showing a page carries everything over.                                 *)
(***************************************************************************)
LEMMA ShowsCarries ==
  ASSUME NEW Values, NEW e, NEW f, Shows(Values, e, f)
  PROVE  Carries(Values, e, f)
BY DEF Shows, Carries, InStep

(***************************************************************************)
(* on_config_page_select_change                                            *)
(***************************************************************************)
LEMMA SelectChangeCarries ==
  ASSUME NEW Values, Lawful(Values), NEW e, Good(Values, e), ~e.err
  PROVE  Carries(Values, e, OnSelectChange(e)) /\ ~OnSelectChange(e).err
<1> DEFINE up == UpdateConfigDataOnPage(e)
<1>1. CopiesFields(Values, e, up)
  BY PageStored
<1>2. OnSelectChange(e) = IF up.err \/ up.sel = None THEN up ELSE BuildConfigDataPage(up, up.sel)
  BY DEF OnSelectChange, ShowSelected
<1> HIDE DEF up
<1>3. Carries(Values, e, up) /\ Good(Values, up) /\ ~up.err
  BY <1>1 DEF CopiesFields, Carries
<1>4. CASE up.sel = None
  BY <1>2, <1>3, <1>4
<1>5. CASE up.sel # None
  <2> DEFINE f == BuildConfigDataPage(up, up.sel)
  <2>1. up.sel \in up.tree
    BY <1>3, <1>5 DEF Good, AppFits, TreeFits
  <2>2. Shows(Values, up, f)
    BY <1>3, <2>1, BuildPageShows
  <2>3. OnSelectChange(e) = f
    BY <1>2, <1>3, <1>5
  <2> HIDE DEF f
  <2>4. Carries(Values, e, f) /\ ~f.err
    BY <1>3, <2>2, ShowsCarries, CarriesTwice DEF Shows
  <2> QED BY <2>3, <2>4
<1> QED BY <1>4, <1>5

(***************************************************************************)
(* refresh_config_data_page: the fields show the shims again.              *)
(***************************************************************************)
LEMMA RefreshShows ==
  ASSUME NEW Values, NEW e, Good(Values, e), ~e.err
  PROVE  Shows(Values, e, RefreshConfigDataPage(e))
<1> DEFINE c == ClearWidgets(e)
<1>1. Shows(Values, e, c) /\ c.wid = NoWidgets
  BY ClearShows
<1>2. RefreshConfigDataPage(e) = OnSelectChange(c)
  BY DEF RefreshConfigDataPage
<1> HIDE DEF c
<1>3. UpdateConfigDataOnPage(c) = c
  BY <1>1 DEF UpdateConfigDataOnPage
<1>4. OnSelectChange(c) = IF c.err \/ c.sel = None THEN c ELSE BuildConfigDataPage(c, c.sel)
  BY <1>3 DEF OnSelectChange, ShowSelected
<1>5. Good(Values, c)
  BY <1>1 DEF Shows
<1>6. CASE c.err \/ c.sel = None
  BY <1>1, <1>2, <1>4, <1>6
<1>7. CASE ~(c.err \/ c.sel = None)
  <2> DEFINE f == BuildConfigDataPage(c, c.sel)
  <2>1. c.sel \in c.tree
    BY <1>5, <1>7 DEF Good, AppFits, TreeFits
  <2>2. Shows(Values, c, f)
    BY <1>5, <2>1, BuildPageShows
  <2>3. RefreshConfigDataPage(e) = f
    BY <1>2, <1>4, <1>7
  <2> HIDE DEF f
  <2>4. Shows(Values, e, f)
    BY <1>1, <2>2, KeepsTwice DEF Shows, InStep
  <2> QED BY <2>3, <2>4
<1> QED BY <1>6, <1>7

-----------------------------------------------------------------------------
(* Loads that do not raise *)

\* What a load keeps: the objects fit, and where it has not raised all is in step.
Loads(Values, e, f) ==
  Keeps(e, f) /\ Good(Values, f) /\ (e.err => f.err) /\ (InStep(e) /\ ~f.err => InStep(f))

(***************************************************************************)
(* The entry of a file has an object, or none.                             *)
(***************************************************************************)
LEMMA EntryObject ==
  ASSUME NEW e, AppFits(e), NEW n \in 1..Len(e.files)
  PROVE  e.files[n].obj = 0 \/ e.files[n].obj \in 1..Len(e.objs)
<1>1. e.files \in Seq([id : Nat, obj : Nat]) /\ e.files[n].obj <= Len(e.objs) /\ Len(e.objs) \in Nat
  BY DEF AppFits, AppTypeOK
<1>2. e.files[n].obj \in Nat
  <2>1. e.files[n] \in [id : Nat, obj : Nat]
    BY <1>1, ElementOfSeq
  <2> QED BY <2>1
<1> QED BY <1>1, <1>2

(***************************************************************************)
(* Nothing is loaded, or an exception.                                     *)
(***************************************************************************)
LEMMA LoadsNothing ==
  ASSUME NEW Values, NEW e, Good(Values, e)
  PROVE  Loads(Values, e, e) /\ Loads(Values, e, Fail(e))
<1>1. Loads(Values, e, e)
  BY DEF Loads, Keeps, Good
<1>2. Loads(Values, e, Fail(e))
  BY FailCarries DEF Loads, Carries
<1> QED BY <1>1, <1>2

(***************************************************************************)
(* A list or the settings of an SVD file are loaded into one object, and   *)
(* the page is shown anew unless that raised.                              *)
(***************************************************************************)
LEMMA BinIntoLoads ==
  ASSUME NEW Values, NEW e, Good(Values, e), ~e.err, NEW o \in 1..Len(e.objs),
         NEW r, Loaded(Values, e.objs[o], r)
  PROVE  Loads(Values, e, BinInto(e, o, r))
<1> DEFINE put == [e EXCEPT !.objs[o] = r.cfg]
           f == [e EXCEPT !.objs[o] = r.cfg, !.err = TRUE]
<1>1. ObjectFits(Values, r.cfg) /\ r.cfg.xml = e.objs[o].xml
  BY DEF Loaded
<1>2. PutsObject(Values, e, put, o, r.cfg)
  BY <1>1, PutObjectGood
<1>3. DOMAIN put = DOMAIN e /\ OnlyFlags(put, f) /\ f.err = TRUE
  BY DEF OnlyFlags, Good, AppFits, AppTypeOK
<1>4. BinInto(e, o, r) = IF r.err THEN f ELSE RefreshConfigDataPage(put)
  BY DEF BinInto
<1> HIDE DEF put, f
<1>5. Keeps(e, put) /\ Good(Values, put) /\ ~put.err
  BY <1>2 DEF PutsObject, IsPutObject
<1>6. CASE r.err
  <2>1. Carries(Values, put, f)
    BY <1>3, <1>5, FlagsCarry
  <2>2. Loads(Values, e, f)
    BY <1>3, <1>5, <2>1, KeepsTwice DEF Loads, Carries
  <2> QED BY <1>4, <1>6, <2>2
<1>7. CASE ~r.err
  <2> DEFINE g == RefreshConfigDataPage(put)
  <2>1. Shows(Values, put, g)
    BY <1>5, RefreshShows
  <2>2. InStep(e) => AllSync(put)
    <3>1. InStep(e) => InSync(e.objs[o])
      BY DEF InStep, AllSync
    <3>2. InStep(e) => InSync(r.cfg)
      BY <1>7, <3>1 DEF Loaded
    <3> QED BY <1>2, <3>2 DEF PutsObject, InStep
  <2> HIDE DEF g
  <2>3. Loads(Values, e, g)
    BY <1>5, <2>1, <2>2, KeepsTwice DEF Loads, Shows
  <2> QED BY <1>4, <1>7, <2>3 DEF g
<1> QED BY <1>6, <1>7

(***************************************************************************)
(* One file of a load of a list or of an SVD file.                         *)
(***************************************************************************)
LEMMA LoadNextLoads ==
  ASSUME NEW Values, Lawful(Values), NEW e, Good(Values, e), NEW o, o = 0 \/ o \in 1..Len(e.objs),
         NEW kind \in {"bin", "svd"}, NEW input, kind = "svd" => Len(input) \in Nat
  PROVE  Loads(Values, e, LoadNext(e, o, kind, input))
<1>1. CASE e.err \/ o = 0
  BY <1>1, LoadsNothing DEF LoadNext
<1>2. CASE ~(e.err \/ o = 0)
  <2>1. o \in 1..Len(e.objs) /\ ~e.err
    BY <1>2
  <2>2. ObjectFits(Values, e.objs[o])
    BY <2>1 DEF Good, AllFit
  <2>3. LoadNext(e, o, kind, input) = LoadInto(e, o, kind, input)
    BY <1>2 DEF LoadNext
  <2>4. CASE kind = "bin"
    <3> DEFINE r == LoadDefaultFromBin(e.objs[o], input)
    <3>1. Loaded(Values, e.objs[o], r)
      BY <2>2, LoadBinLoads
    <3>2. LoadInto(e, o, kind, input) = BinInto(e, o, r)
      BY <2>4 DEF LoadInto
    <3> HIDE DEF r
    <3> QED BY <2>1, <2>3, <3>1, <3>2, BinIntoLoads
  <2>5. CASE kind = "svd"
    <3> DEFINE r == LoadFromSvd(e.objs[o], input)
    <3>1. Loaded(Values, e.objs[o], r)
      BY <2>2, <2>5, LoadSvdLoads
    <3>2. LoadInto(e, o, kind, input) = BinInto(e, o, r)
      BY <2>5 DEF LoadInto
    <3> HIDE DEF r
    <3> QED BY <2>1, <2>3, <3>1, <3>2, BinIntoLoads
  <2> QED BY <2>4, <2>5
<1> QED BY <1>1, <1>2

(***************************************************************************)
(* One file after the other.                                               *)
(***************************************************************************)
LEMMA LoadsTwice ==
  ASSUME NEW Values, NEW e, NEW f, NEW g, Loads(Values, e, f), Loads(Values, f, g)
  PROVE  Loads(Values, e, g)
BY KeepsTwice DEF Loads

(***************************************************************************)
(* load_bin_file and load_from_svd of the editor.                          *)
(***************************************************************************)
LEMMA LoadEachLoads ==
  ASSUME NEW Values, Lawful(Values), NEW e, Good(Values, e),
         NEW kind \in {"bin", "svd"}, NEW input, kind = "svd" => Len(input) \in Nat
  PROVE  Loads(Values, e, LoadEach(e, kind, input))
<1> DEFINE N == Len(e.files)
<1>1. N \in Nat
  BY DEF Good, AppFits, AppTypeOK
<1>2. PICK f : /\ f[0] = e /\ LoadEach(e, kind, input) = f[N]
               /\ \A n \in 1..N : f[n] = LoadNext(f[n - 1], e.files[n].obj, kind, input)
  BY ONLY <1>1, LoadEachSteps, SMTT(30)
<1> HIDE DEF N
<1> DEFINE T == {n \in 0..N : Loads(Values, e, f[n])}
<1>3. 0 \in T
  BY <1>1, <1>2, LoadsNothing
<1>4. ASSUME NEW n \in 1..N, n - 1 \in T
      PROVE  n \in T
  <2> DEFINE p == f[n - 1]
             o == e.files[n].obj
  <2>1. Loads(Values, e, p) /\ f[n] = LoadNext(p, o, kind, input)
    BY <1>2, <1>4
  <2> HIDE DEF p
  <2>2. Good(Values, p) /\ AppFits(p) /\ p.files = e.files
    BY <2>1 DEF Loads, Keeps
  <2>3. o = 0 \/ o \in 1..Len(p.objs)
    BY <2>2, EntryObject DEF N
  <2> HIDE DEF o
  <2>4. Loads(Values, p, LoadNext(p, o, kind, input))
    BY <2>2, <2>3, LoadNextLoads
  <2>5. Loads(Values, e, f[n])
    BY <2>1, <2>4, LoadsTwice
  <2> QED BY <2>5
<1>5. N \in T
  <2> HIDE DEF T
  <2>1. 0..N \subseteq T
    BY <1>1, <1>3, <1>4, BoundedInduction
  <2> QED BY <1>1, <2>1
<1> QED BY <1>2, <1>5

\* CSV files: the page is shown anew when all files are through.  Where the file
\* applies to no knob the values are as they were.
SameValues(e, f) ==
  Len(f.objs) = Len(e.objs) /\ \A o \in 1..Len(e.objs) : f.objs[o].xml = e.objs[o].xml /\ f.objs[o].vals = e.objs[o].vals
LoadsCsv(Values, e, f, unused) ==
  /\ Keeps(e, f) /\ Good(Values, f) /\ f.wid = e.wid /\ (e.err => f.err)
  /\ ~f.err => (AllSync(e) => AllSync(f)) /\ (unused => SameValues(e, f))

(***************************************************************************)
(* One file of a load of a CSV file.  Whether the file applies to a knob of*)
(* the object was asked when the load began.                               *)
(***************************************************************************)
LEMMA LoadNextCsv ==
  ASSUME NEW Values, Lawful(Values), NEW e, Good(Values, e), NEW o, o = 0 \/ o \in 1..Len(e.objs), NEW csv,
         NEW unused, unused => (o # 0 => OverrideDefaultValue(e.objs[o], csv).count = 0)
  PROVE  LoadsCsv(Values, e, LoadNext(e, o, "csv", csv), unused)
<1> DEFINE f == LoadNext(e, o, "csv", csv)
<1>1. CASE e.err
  BY <1>1 DEF LoadNext, LoadsCsv, Keeps, Good
<1>2. CASE ~e.err /\ o = 0
  <2>1. f = Fail(e)
    BY <1>2 DEF LoadNext
  <2>2. Carries(Values, e, Fail(e)) /\ Fail(e).err /\ Fail(e).wid = e.wid
    BY FailCarries, FailKeeps DEF Good
  <2> QED BY <2>1, <2>2 DEF LoadsCsv, Carries
<1>3. CASE ~e.err /\ o # 0
  <2> DEFINE r == OverrideDefaultValue(e.objs[o], csv)
             put == [e EXCEPT !.objs[o] = r.cfg]
             g == CsvInto(e, o, r)
  <2>1. o \in 1..Len(e.objs)
    BY <1>3
  <2>2. ObjectFits(Values, e.objs[o])
    BY <2>1 DEF Good, AllFit
  <2>3. /\ Loaded(Values, e.objs[o], r) /\ (~r.err => InSync(r.cfg))
        /\ ~r.err /\ r.count = 0 => r.cfg.vals = e.objs[o].vals
    BY <2>2, OverrideLoads
  <2>4. unused => r.count = 0
    BY <1>3
  <2>5. f = g
    BY <1>3 DEF LoadNext, LoadInto
  <2> HIDE DEF f, r
  <2>6. ObjectFits(Values, r.cfg) /\ r.cfg.xml = e.objs[o].xml
    BY <2>3 DEF Loaded
  <2>7. PutsObject(Values, e, put, o, r.cfg)
    BY <2>1, <2>6, PutObjectGood
  <2>8. OnlyFlags(put, g) /\ g.err = r.err
    BY DEF CsvInto, OnlyFlags, Good, AppFits, AppTypeOK
  <2> HIDE DEF put, g
  <2>9. Keeps(e, put) /\ Good(Values, put) /\ IsPutObject(e, put, o, r.cfg)
    BY <2>7 DEF PutsObject
  <2>10. Carries(Values, put, g) /\ (AllSync(g) <=> AllSync(put)) /\ g.wid = put.wid /\ g.objs = put.objs
    BY <2>8, <2>9, FlagsCarry DEF OnlyFlags
  <2>11. Keeps(e, g) /\ Good(Values, g) /\ g.wid = e.wid
    BY <2>9, <2>10, KeepsTwice DEF Carries, IsPutObject
  <2>12. ~g.err => (AllSync(e) => AllSync(g))
    BY <2>3, <2>7, <2>8, <2>10 DEF PutsObject
  <2>13. ~g.err /\ unused => SameValues(e, g)
    BY <2>1, <2>3, <2>4, <2>6, <2>8, <2>9, <2>10 DEF SameValues, IsPutObject
  <2>14. LoadsCsv(Values, e, g, unused)
    BY <1>3, <2>11, <2>12, <2>13 DEF LoadsCsv
  <2> QED BY <2>5, <2>14 DEF f
<1> QED BY <1>1, <1>2, <1>3

(***************************************************************************)
(* load_delta_file                                                         *)
(***************************************************************************)
LEMMA LoadDeltaLoads ==
  ASSUME NEW Values, Lawful(Values), NEW e, Good(Values, e), NEW csv
  PROVE  Loads(Values, e, LoadDeltaFile(e, csv))
<1> DEFINE N == Len(e.files)
           unused == AppliesToNone(e, csv)
           all == LoadEach(e, "csv", csv)
<1>1. N \in Nat /\ DOMAIN e.files = 1..N
  BY DEF Good, AppFits, AppTypeOK
<1>2. PICK f : /\ f[0] = e /\ all = f[N]
               /\ \A n \in 1..N : f[n] = LoadNext(f[n - 1], e.files[n].obj, "csv", csv)
  BY ONLY <1>1, LoadEachSteps, SMTT(30)
<1>3. LoadDeltaFile(e, csv) = IF all.err \/ unused THEN all ELSE RefreshConfigDataPage(all)
  BY DEF LoadDeltaFile, Refreshed
<1>4. unused => \A n \in 1..N : e.files[n].obj # 0 => OverrideDefaultValue(e.objs[e.files[n].obj], csv).count = 0
  BY <1>1 DEF AppliesToNone, Loadeds
<1> HIDE DEF N, unused, all
<1> DEFINE T == {n \in 0..N : LoadsCsv(Values, e, f[n], unused)}
<1>5. 0 \in T
  BY <1>1, <1>2 DEF LoadsCsv, Keeps, Good, SameValues
<1>6. ASSUME NEW n \in 1..N, n - 1 \in T
      PROVE  n \in T
  <2> DEFINE p == f[n - 1]
             o == e.files[n].obj
             q == LoadNext(p, o, "csv", csv)
             now == unused /\ ~p.err
  <2>1. LoadsCsv(Values, e, p, unused) /\ f[n] = LoadNext(p, e.files[n].obj, "csv", csv)
    BY <1>2, <1>6
  <2> HIDE DEF p
  <2>2. Good(Values, p) /\ AppFits(p) /\ p.files = e.files
    BY <2>1 DEF LoadsCsv, Keeps
  <2>3. (o = 0 \/ o \in 1..Len(p.objs)) /\ (o = 0 \/ o \in 1..Len(e.objs))
    BY <2>2, EntryObject DEF N, Good
  <2>4. now => (o # 0 => OverrideDefaultValue(p.objs[o], csv).count = 0)
    <3> SUFFICES ASSUME now, o # 0 PROVE OverrideDefaultValue(p.objs[o], csv).count = 0
      OBVIOUS
    <3>1. OverrideDefaultValue(e.objs[o], csv).count = 0
      BY <1>4
    <3>2. p.objs[o].xml = e.objs[o].xml /\ p.objs[o].vals = e.objs[o].vals
      BY <2>1, <2>3 DEF LoadsCsv, SameValues
    <3> QED BY <3>1, <3>2 DEF OverrideDefaultValue, Overridden
  <2> HIDE DEF o, now
  <2>5. LoadsCsv(Values, p, q, now)
    BY <2>2, <2>3, <2>4, LoadNextCsv
  <2>6. f[n] = q
    BY <2>1 DEF o
  <2> HIDE DEF q
  <2>7. Keeps(e, q) /\ Good(Values, q) /\ q.wid = e.wid /\ (p.err => q.err) /\ (e.err => q.err)
    BY <2>1, <2>5, KeepsTwice DEF LoadsCsv
  <2>8. ~q.err => (AllSync(e) => AllSync(q))
    BY <2>1, <2>5, <2>7 DEF LoadsCsv
  <2>9. ~q.err /\ unused => SameValues(e, q)
    BY <2>1, <2>5, <2>7 DEF LoadsCsv, SameValues, now
  <2>10. LoadsCsv(Values, e, q, unused)
    BY <2>7, <2>8, <2>9 DEF LoadsCsv
  <2> QED BY <2>6, <2>10
<1>7. LoadsCsv(Values, e, all, unused)
  <2> HIDE DEF T
  <2>1. 0..N \subseteq T
    BY <1>1, <1>5, <1>6, BoundedInduction
  <2>2. N \in T
    BY <1>1, <2>1
  <2> QED BY <1>2, <2>2 DEF T
<1>8. CASE all.err
  <2>1. Loads(Values, e, all)
    BY <1>7, <1>8 DEF LoadsCsv, Loads
  <2> QED BY <1>3, <1>8, <2>1
<1>9. CASE ~all.err /\ unused
  <2>1. ASSUME InStep(e) PROVE InStep(all)
    <3>1. AllSync(all) /\ SameValues(e, all) /\ all.wid = e.wid
      BY <1>7, <1>9, <2>1 DEF LoadsCsv, InStep
    <3>2. ASSUME NEW i \in DOMAIN all.wid.text \ all.wid.typed
          PROVE  all.wid.text[i] = all.objs[all.wid.obj].shim[i]
      <4> DEFINE o == e.wid.obj
      <4>1. i \in DOMAIN e.wid.text /\ e.wid.text[i] = e.objs[o].shim[i]
        BY <2>1, <3>1, <3>2 DEF InStep, ShowsShim
      <4>2. e.wid # NoWidgets
        BY <4>1 DEF NoWidgets
      <4>3. o \in 1..Len(e.objs) /\ i \in Leaves(e.objs[o].xml)
        BY <4>1, <4>2 DEF Good, AppFits, PageFits, Showing, FieldsListed, Listed, Shown
      <4>4. InSync(e.objs[o]) /\ InSync(all.objs[o]) /\ all.objs[o].xml = e.objs[o].xml /\ all.objs[o].vals = e.objs[o].vals
        BY <2>1, <3>1, <4>3 DEF InStep, AllSync, SameValues
      <4>5. all.objs[o].shim[i] = e.objs[o].shim[i]
        BY <4>3, <4>4 DEF InSync
      <4> QED BY <3>1, <4>1, <4>5
    <3> QED BY <3>1, <3>2 DEF InStep, ShowsShim
  <2>2. Loads(Values, e, all)
    BY <1>7, <2>1 DEF LoadsCsv, Loads
  <2> QED BY <1>3, <1>9, <2>2
<1>10. CASE ~all.err /\ ~unused
  <2> DEFINE g == RefreshConfigDataPage(all)
  <2>1. Shows(Values, all, g)
    BY <1>7, <1>10, RefreshShows DEF LoadsCsv
  <2>2. LoadDeltaFile(e, csv) = g
    BY <1>3, <1>10
  <2> HIDE DEF g
  <2>3. Loads(Values, e, g)
    BY <1>7, <1>10, <2>1, KeepsTwice DEF LoadsCsv, Shows, Loads, InStep
  <2> QED BY <2>2, <2>3
<1> QED BY <1>8, <1>9, <1>10

-----------------------------------------------------------------------------
(* Opening and saving *)

(***************************************************************************)
(* An object more, as load_xml makes it.                                   *)
(***************************************************************************)
LEMMA ObjectsLoaded ==
  ASSUME NEW Values, Lawful(Values), NEW e, Good(Values, e), NEW f, OneLoaded(e, f)
  PROVE  /\ AllFit(Values, f) /\ (AllSync(e) => AllSync(f))
         /\ \A o \in 1..Len(e.objs) : f.objs[o] = e.objs[o]
<1>1. PICK S : e.objs \in Seq(S)
  BY DEF Good, AppFits, AppTypeOK
<1>2. CASE f.objs = e.objs
  BY <1>2 DEF Good, AllFit, AllSync
<1>3. ASSUME NEW x \in DOMAIN knobs, f.objs = Append(e.objs, LoadXml(x))
      PROVE  /\ AllFit(Values, f) /\ (AllSync(e) => AllSync(f))
             /\ \A o \in 1..Len(e.objs) : f.objs[o] = e.objs[o]
  <2> DEFINE new == LoadXml(x)
             N == Len(e.objs)
  <2>1. ObjectFits(Values, new) /\ InSync(new)
    BY LoadXmlInSync
  <2> HIDE DEF new
  <2>2. /\ N \in Nat /\ Len(f.objs) = N + 1 /\ f.objs[N + 1] = new
        /\ \A o \in 1..N : f.objs[o] = e.objs[o]
    <3>1. f.objs = Append(e.objs, new)
      BY <1>3 DEF new
    <3>2. e.objs \in Seq(S \union {new})
      BY <1>1, SeqMonotonic
    <3> QED BY <3>1, <3>2
  <2>3. \A o \in 1..Len(f.objs) : o \in 1..N \/ o = N + 1
    BY <2>2
  <2> QED BY <2>1, <2>2, <2>3 DEF Good, AllFit, AllSync
<1> QED BY <1>2, <1>3 DEF OneLoaded

(***************************************************************************)
(* load_cfg_file for the next file: the fields are of the same object, and *)
(* that object has its file.                                               *)
(***************************************************************************)
LEMMA OpensGood ==
  ASSUME NEW Values, Lawful(Values), NEW e, Good(Values, e), NEW f, Opens(e, f, Len(e.files))
  PROVE  Good(Values, f) /\ (InStep(e) => InStep(f))
<1>1. AppFits(f) /\ f.wid = e.wid /\ OneLoaded(e, f) /\ OneMore(e, f)
  BY DEF Opens, Good
<1>2. /\ AllFit(Values, f) /\ (AllSync(e) => AllSync(f))
      /\ \A o \in 1..Len(e.objs) : f.objs[o] = e.objs[o]
  BY <1>1, ObjectsLoaded
<1>3. Held(f)
  <2>1. Len(e.files) \in Nat
    BY DEF Good, AppFits, AppTypeOK
  <2> QED BY <1>1, <2>1 DEF Good, Held, Has, OneMore
<1>4. \A i \in DOMAIN e.wid.text : f.objs[e.wid.obj] = e.objs[e.wid.obj]
  <2> SUFFICES ASSUME NEW i \in DOMAIN e.wid.text PROVE f.objs[e.wid.obj] = e.objs[e.wid.obj]
    OBVIOUS
  <2>1. e.wid # NoWidgets
    BY DEF NoWidgets
  <2> QED BY <1>2, <2>1 DEF Good, AppFits, PageFits, Showing
<1>5. FieldsListed(f)
  BY <1>1, <1>4 DEF Good, FieldsListed, Shown
<1>6. ShowsShim(e) => ShowsShim(f)
  BY <1>1, <1>4 DEF ShowsShim
<1> QED BY <1>1, <1>2, <1>3, <1>5, <1>6 DEF Good, InStep, OneMore

(***************************************************************************)
(* load_cfg_file with the old files cleared out.                           *)
(***************************************************************************)
LEMMA ReopensGood ==
  ASSUME NEW Values, Lawful(Values), NEW e, Good(Values, e), NEW f, Reopens(e, f)
  PROVE  Good(Values, f) /\ (InStep(e) => InStep(f))
<1>1. AppFits(f) /\ f.wid = NoWidgets /\ Belongs(f) /\ OneLoaded(e, f)
  BY DEF Reopens
<1>2. AllFit(Values, f) /\ (AllSync(e) => AllSync(f))
  BY <1>1, ObjectsLoaded
<1>3. DOMAIN f.wid.text = {}
  BY <1>1 DEF NoWidgets
<1>4. FieldsListed(f) /\ Held(f) /\ ShowsShim(f)
  BY <1>1, <1>3 DEF FieldsListed, Held, ShowsShim
<1> QED BY <1>1, <1>2, <1>4 DEF Good, InStep

(***************************************************************************)
(* An object has loaded its own binary: no field shows another text.       *)
(***************************************************************************)
LEMMA SavedCarries ==
  ASSUME NEW Values, NEW e, Good(Values, e), NEW o \in 1..Len(e.objs), NEW d, Saved(Values, e.objs[o], d), NEW err
  PROVE  Carries(Values, e, [e EXCEPT !.objs[o] = d, !.err = err])
<1> DEFINE put == [e EXCEPT !.objs[o] = d]
           f == [e EXCEPT !.objs[o] = d, !.err = err]
           c == e.objs[o]
<1>1. ObjectFits(Values, d) /\ d.xml = c.xml /\ SameTexts(c.xml, d.vals, c.vals) /\ (InSync(c) => InSync(d))
  BY DEF Saved
<1>2. PutsObject(Values, e, put, o, d)
  BY <1>1, PutObjectGood
<1>3. OnlyFlags(put, f)
  BY DEF OnlyFlags, Good, AppFits, AppTypeOK
<1> HIDE DEF put, f, c
<1>4. Keeps(e, put) /\ Good(Values, put) /\ IsPutObject(e, put, o, d)
  BY <1>2 DEF PutsObject
<1>5. InStep(e) => InStep(put)
  <2> SUFFICES ASSUME InStep(e) PROVE InStep(put)
    OBVIOUS
  <2>1. InSync(c) /\ InSync(d) /\ AllSync(put)
    BY <1>1, <1>2 DEF InStep, AllSync, PutsObject, c
  <2>2. ASSUME NEW i \in DOMAIN put.wid.text \ put.wid.typed PROVE put.wid.text[i] = put.objs[put.wid.obj].shim[i]
    <3>1. put.wid = e.wid /\ put.objs[o] = d /\ i \in DOMAIN e.wid.text /\ e.wid.text[i] = e.objs[e.wid.obj].shim[i]
      BY <1>4, <2>2 DEF InStep, ShowsShim, IsPutObject
    <3>2. e.wid # NoWidgets
      BY <3>1 DEF NoWidgets
    <3>3. e.wid.obj \in 1..Len(e.objs) /\ i \in Leaves(e.objs[e.wid.obj].xml)
      BY <3>1, <3>2 DEF Good, AppFits, PageFits, Showing, FieldsListed, Listed, Shown
    <3>4. CASE e.wid.obj = o
      <4>1. d.shim[i] = c.shim[i]
        BY <1>1, <2>1, <3>3, <3>4 DEF InSync, SameTexts, c
      <4> QED BY <3>1, <3>4, <4>1 DEF c
    <3>5. CASE e.wid.obj # o
      BY <1>4, <3>1, <3>3, <3>5 DEF IsPutObject
    <3> QED BY <3>4, <3>5
  <2> QED BY <2>1, <2>2 DEF InStep, ShowsShim
<1>6. Carries(Values, e, put) /\ Carries(Values, put, f)
  BY <1>3, <1>4, <1>5, FlagsCarry DEF Carries
<1>7. Carries(Values, e, f)
  BY <1>6, CarriesTwice
<1> QED BY <1>7 DEF f

(***************************************************************************)
(* save_delta_file                                                         *)
(***************************************************************************)
LEMMA SaveDeltasCarry ==
  ASSUME NEW Values, Lawful(Values), PacksLists, Good(Values, ed), NEW full
  PROVE  Carries(Values, ed, SaveDeltas(full).e)
<1> DEFINE N == Len(ed.files)
           Right(st) == DOMAIN st = {"e", "csv"} /\ Carries(Values, ed, st.e)
<1>1. N \in Nat
  BY DEF Good, AppFits, AppTypeOK
<1>2. PICK f : /\ f[0] = [e |-> ed, csv |-> disk.csv] /\ SaveDeltas(full) = f[N]
               /\ \A n \in 1..N : f[n] = SaveDeltaStep(f[n - 1], full, n)
  BY <1>1, SaveDeltasSteps
<1>3. \A n \in 1..N : n \in 1..Len(ed.files)
  OBVIOUS
<1> HIDE DEF N
<1> DEFINE T == {n \in 0..N : Right(f[n])}
<1>4. 0 \in T
  BY <1>1, <1>2 DEF Carries, Keeps, Good
<1>5. ASSUME NEW n \in 1..N, n - 1 \in T
      PROVE  n \in T
  <2> DEFINE st == f[n - 1]
             up == UpdateConfigDataOnPage(st.e)
             o == up.files[n].obj
             w == GenerateDeltaFileFromBin(up.objs[o], GenerateBinaryArray(up.objs[o]), full)
             saved == [up EXCEPT !.objs[o] = w.cfg, !.err = w.err]
  <2>1. Right(st) /\ f[n] = SaveDeltaStep(st, full, n)
    BY <1>2, <1>5
  <2> HIDE DEF st
  <2>2. f[n] = IF st.e.err THEN st ELSE SaveObject(st, up, full, o)
    BY <2>1 DEF SaveDeltaStep, SaveUpdated
  <2>3. SaveObject(st, up, full, o) = IF up.err \/ o = 0 THEN [st EXCEPT !.e = Fail(up)] ELSE CsvSaved(st, up, o, w)
    BY DEF SaveObject
  <2>4. CsvSaved(st, up, o, w) = [e |-> saved, csv |-> CsvSaved(st, up, o, w).csv]
    BY DEF CsvSaved
  <2>5. Good(Values, st.e)
    BY <2>1 DEF Carries
  <2>6. ~st.e.err => Carries(Values, ed, up)
    <3>1. ~st.e.err => CopiesFields(Values, st.e, up)
      BY <2>5, PageStored
    <3> HIDE DEF up
    <3> QED BY <2>1, <3>1, CarriesTwice DEF CopiesFields
  <2> HIDE DEF up
  <2>7. ~st.e.err => Good(Values, up) /\ AppFits(up) /\ up.files = ed.files
    BY <2>6 DEF Carries, Keeps
  <2>8. ~st.e.err => Carries(Values, ed, Fail(up))
    BY <2>6, <2>7, FailCarries, CarriesTwice
  <2>9. ~st.e.err => o = 0 \/ o \in 1..Len(up.objs)
    <3>1. ~st.e.err => n \in 1..Len(up.files)
      BY <1>3, <2>7
    <3> QED BY <2>7, <3>1, EntryObject
  <2> HIDE DEF o
  <2>10. ~st.e.err /\ o # 0 => Carries(Values, ed, saved)
    <3> SUFFICES ASSUME ~st.e.err, o # 0 PROVE Carries(Values, ed, saved)
      OBVIOUS
    <3>1. o \in 1..Len(up.objs)
      BY <2>9
    <3>2. ObjectFits(Values, up.objs[o])
      BY <2>7, <3>1 DEF Good, AllFit
    <3>3. Saved(Values, up.objs[o], w.cfg)
      BY <3>2, SaveKeepsTexts
    <3> HIDE DEF w
    <3>4. Carries(Values, up, saved)
      BY <2>7, <3>1, <3>3, SavedCarries
    <3> HIDE DEF saved
    <3> QED BY <2>6, <3>4, CarriesTwice
  <2> HIDE DEF saved, w
  <2>11. Right(f[n])
    <3>1. CASE st.e.err
      BY <2>1, <2>2, <3>1
    <3>2. CASE ~st.e.err /\ (up.err \/ o = 0)
      <4>1. f[n] = [st EXCEPT !.e = Fail(up)]
        BY <2>2, <2>3, <3>2
      <4> QED BY <2>1, <2>8, <3>2, <4>1
    <3>3. CASE ~st.e.err /\ ~(up.err \/ o = 0)
      <4>1. f[n] = [e |-> saved, csv |-> CsvSaved(st, up, o, w).csv]
        BY <2>2, <2>3, <2>4, <3>3
      <4> QED BY <2>10, <3>3, <4>1
    <3> QED BY <3>1, <3>2, <3>3
  <2> QED BY <2>11
<1>6. N \in T
  <2> HIDE DEF T
  <2>1. 0..N \subseteq T
    BY <1>1, <1>4, <1>5, BoundedInduction
  <2> QED BY <1>1, <2>1
<1> QED BY <1>2, <1>6

-----------------------------------------------------------------------------
(* The events, while no load has raised *)

JInv(Values) == Good(Values, ed) /\ ~ed.err /\ (~torn => InStep(ed))

(***************************************************************************)
(* The handler returns.                                                    *)
(***************************************************************************)
LEMMA HandlerGood ==
  ASSUME NEW Values, NEW f, Good(Values, f), NEW g, g = [f EXCEPT !.err = FALSE]
  PROVE  Good(Values, g) /\ ~g.err /\ (InStep(g) <=> InStep(f))
<1>1. OnlyFlags(f, g) /\ ~g.err
  BY DEF OnlyFlags, Good, AppFits, AppTypeOK
<1> QED BY <1>1, FlagsCarry DEF Carries

(***************************************************************************)
(* An event that leaves all in step, whether it raises or not.             *)
(***************************************************************************)
LEMMA EventCarries ==
  ASSUME NEW Values, JInv(Values), NEW op, NEW f, Good(Values, f), InStep(ed) => InStep(f), Event(op, f)
  PROVE  JInv(Values)'
<1>1. ed' = [f EXCEPT !.err = FALSE] /\ (~torn' => ~torn)
  BY DEF Event
<1>2. Good(Values, ed') /\ ~ed'.err /\ (InStep(ed') <=> InStep(f))
  BY <1>1, HandlerGood
<1> QED BY <1>1, <1>2 DEF JInv

(***************************************************************************)
(* An event that leaves all in step unless it raises.                      *)
(***************************************************************************)
LEMMA EventLoads ==
  ASSUME NEW Values, JInv(Values),
         NEW op \in {"load_csv", "load_bin", "load_svd", "load_runtime", "set_runtime"},
         NEW f, Loads(Values, ed, f), Event(op, f)
  PROVE  JInv(Values)'
<1>1. ed' = [f EXCEPT !.err = FALSE] /\ (~torn' => ~torn /\ ~f.err)
  BY DEF Event
<1>2. Good(Values, f)
  BY DEF Loads
<1>3. Good(Values, ed') /\ ~ed'.err /\ (InStep(ed') <=> InStep(f))
  BY <1>1, <1>2, HandlerGood
<1> QED BY <1>1, <1>3 DEF JInv, Loads

(***************************************************************************)
(* Another page or another part of it: the objects and fields are the same.*)
(***************************************************************************)
LEMMA SameObjectsCarry ==
  ASSUME NEW Values, NEW e, Good(Values, e), NEW f, Keeps(e, f), f.objs = e.objs, f.wid = e.wid
  PROVE  Carries(Values, e, f)
<1>1. AppFits(f) /\ Belongs(f)
  BY KeptBelong DEF Good, Keeps
<1>2. AllFit(Values, f) /\ FieldsListed(f) /\ Held(f)
  BY DEF Good, AllFit, FieldsListed, Shown, Held, Has, Keeps
<1>3. InStep(e) => InStep(f)
  BY DEF InStep, AllSync, ShowsShim
<1> QED BY <1>1, <1>2, <1>3 DEF Carries, Good

(***************************************************************************)
(* Typing into a field: it no longer has to show the shim.                 *)
(***************************************************************************)
LEMMA TypingCarries ==
  ASSUME NEW Values, NEW e, Good(Values, e), NEW i \in DOMAIN e.wid.text, NEW text
  PROVE  Carries(Values, e, [e EXCEPT !.wid.text[i] = text, !.wid.typed = @ \union {i}])
<1> DEFINE wid == [e.wid EXCEPT !.text[i] = text, !.typed = @ \union {i}]
           f == [e EXCEPT !.wid.text[i] = text, !.wid.typed = @ \union {i}]
<1>1. AppFits(e) /\ {"wid", "objs"} \subseteq DOMAIN e /\ DOMAIN e.wid = {"page", "fid", "obj", "text", "typed"}
  BY DEF Good, AppFits, AppTypeOK
<1>2. /\ DOMAIN wid = DOMAIN e.wid /\ DOMAIN wid.text = DOMAIN e.wid.text /\ wid.typed = e.wid.typed \union {i}
      /\ wid.page = e.wid.page /\ wid.fid = e.wid.fid /\ wid.obj = e.wid.obj
      /\ \A k \in DOMAIN e.wid.text \ {i} : wid.text[k] = e.wid.text[k]
  BY <1>1
<1>3. f = [e EXCEPT !.wid = wid]
  BY <1>1
<1> HIDE DEF wid, f
<1>4. Keeps(e, f)
  BY <1>1, <1>2, <1>3, FieldKeeps
<1>5. f.wid = wid /\ f.objs = e.objs
  BY <1>1, <1>3 DEF AppFits, AppTypeOK
<1>6. AppFits(f) /\ Belongs(f)
  BY <1>4, KeptBelong DEF Good, Keeps
<1>7. Shown(f) = Shown(e) /\ e.wid # NoWidgets
  BY <1>2, <1>5 DEF Shown, NoWidgets
<1>8. AllFit(Values, f) /\ FieldsListed(f) /\ Held(f)
  BY <1>2, <1>4, <1>5, <1>7 DEF Good, AllFit, FieldsListed, Held, Has, Keeps
<1>9. InStep(e) => InStep(f)
  BY <1>2, <1>5 DEF InStep, AllSync, ShowsShim
<1>10. Carries(Values, e, f)
  BY <1>4, <1>6, <1>8, <1>9 DEF Carries, Good
<1> QED BY <1>10 DEF f

(***************************************************************************)
(* load_from_ml and load_from_ml_and_clear                                 *)
(***************************************************************************)
LEMMA OpenInStep ==
  ASSUME NEW Values, Lawful(Values), JInv(Values), OpenXml \/ OpenXmlAndClear
  PROVE  JInv(Values)'
<1>1. Good(Values, ed) /\ AppFits(ed) /\ Len(ed.files) \in Nat
  BY DEF JInv, Good, AppFits, AppTypeOK
<1>2. Offered \subseteq XmlFiles
  BY FilesAssumption
<1>3. CASE OpenXml
  <2>1. PICK x \in Offered : Event("open", LoadCfgFile(ed, x, Len(ed.files), FALSE))
    BY <1>3 DEF OpenXml
  <2> DEFINE f == LoadCfgFile(ed, x, Len(ed.files), FALSE)
  <2>2. Opens(ed, f, Len(ed.files))
    BY <1>1, <1>2, LoadCfgFileOpens
  <2> HIDE DEF f
  <2>3. Good(Values, f) /\ (InStep(ed) => InStep(f))
    BY <1>1, <2>2, OpensGood
  <2> QED BY <2>1, <2>3, EventCarries DEF f
<1>4. CASE OpenXmlAndClear
  <2>1. PICK x \in Offered : Event("clear", LoadCfgFile(ed, x, 0, TRUE))
    BY <1>4 DEF OpenXmlAndClear
  <2> DEFINE f == LoadCfgFile(ed, x, 0, TRUE)
  <2>2. Reopens(ed, f)
    BY <1>1, <1>2, LoadCfgFileOpens
  <2> HIDE DEF f
  <2>3. Good(Values, f) /\ (InStep(ed) => InStep(f))
    BY <1>1, <2>2, ReopensGood
  <2> QED BY <2>1, <2>3, EventCarries DEF f
<1> QED BY <1>3, <1>4

(***************************************************************************)
(* The tree, the fields and the buttons of the page.                       *)
(***************************************************************************)
LEMMA PageInStep ==
  ASSUME NEW Values, Lawful(Values), JInv(Values), SelectPage \/ TypeEntry \/ SelectCombo \/ TurnPage
  PROVE  JInv(Values)'
<1>1. /\ Good(Values, ed) /\ ~ed.err /\ AppFits(ed) /\ ed.total \in Nat
      /\ {"wid", "err", "objs", "sel", "cur"} \subseteq DOMAIN ed
  BY DEF JInv, Good, AppFits, AppTypeOK
<1>2. ASSUME NEW op, NEW f, Carries(Values, ed, f), Event(op, f)
      PROVE  JInv(Values)'
  BY <1>2, EventCarries DEF Carries
<1>3. CASE SelectPage
  <2>1. PICK page \in ed.tree : Event("select", OnSelectChange([ed EXCEPT !.sel = page]))
    BY <1>3 DEF SelectPage
  <2> DEFINE s == [ed EXCEPT !.sel = page]
  <2>2. Keeps(ed, s) /\ s.objs = ed.objs /\ s.wid = ed.wid /\ ~s.err
    BY <1>1, SelectedKeeps
  <2> HIDE DEF s
  <2>3. Carries(Values, ed, s)
    BY <1>1, <2>2, SameObjectsCarry
  <2>4. Carries(Values, s, OnSelectChange(s))
    BY <2>2, <2>3, SelectChangeCarries DEF Carries
  <2>5. Carries(Values, ed, OnSelectChange(s))
    BY <2>3, <2>4, CarriesTwice
  <2> QED BY <1>2, <2>1, <2>5 DEF s
<1>4. CASE TypeEntry
  <2>1. PICK i \in DOMAIN ed.wid.text, text \in Entries :
          Event("type", [ed EXCEPT !.wid.text[i] = text, !.wid.typed = @ \union {i}])
    BY <1>4 DEF TypeEntry
  <2>2. Carries(Values, ed, [ed EXCEPT !.wid.text[i] = text, !.wid.typed = @ \union {i}])
    BY <1>1, TypingCarries
  <2> QED BY <1>2, <2>1, <2>2
<1>5. CASE SelectCombo
  <2>1. PICK i \in DOMAIN ed.wid.text :
          \E option \in GetCfgItemOptions(ed.objs[ed.wid.obj].xml, i) :
            Event("combo", UpdateFromWidget([ed EXCEPT !.wid.text[i] = option], i))
    BY <1>5 DEF SelectCombo
  <2>2. PICK option \in GetCfgItemOptions(Shown(ed), i) :
          Event("combo", UpdateFromWidget([ed EXCEPT !.wid.text[i] = option], i))
    BY <2>1 DEF Shown
  <2> DEFINE s == [ed EXCEPT !.wid.text[i] = option]
  <2>3. Carries(Values, ed, UpdateFromWidget(s, i))
    <3>1. s = [ed EXCEPT !.wid.text[i] = option]
      OBVIOUS
    <3> HIDE DEF s
    <3> QED BY <1>1, <3>1, OptionSelected
  <2> HIDE DEF s
  <2> QED BY <1>2, <2>2, <2>3 DEF s
<1>6. CASE TurnPage
  <2>1. PICK n \in 0..(ed.total - 1) : Event("turn", ShowAgain(UpdateConfigDataOnPage([ed EXCEPT !.cur = n])))
    BY <1>6 DEF TurnPage
  <2> DEFINE s == [ed EXCEPT !.cur = n]
             up == UpdateConfigDataOnPage(s)
             f == BuildConfigDataPage(up, up.wid.page)
  <2>2. Keeps(ed, s) /\ s.objs = ed.objs /\ s.wid = ed.wid /\ ~s.err
    <3>1. n \in Nat
      BY <1>1
    <3> QED BY <1>1, <3>1, SelectedKeeps DEF KeepsShown
  <2> HIDE DEF s
  <2>3. Carries(Values, ed, s)
    BY <1>1, <2>2, SameObjectsCarry
  <2>4. CopiesFields(Values, s, up)
    BY <2>2, <2>3, PageStored DEF Carries
  <2> HIDE DEF up
  <2>5. Carries(Values, ed, up) /\ Good(Values, up) /\ ~up.err /\ up.wid = ed.wid
    BY <2>2, <2>3, <2>4, CarriesTwice DEF CopiesFields, Carries
  <2>6. up.wid.page \in up.tree
    BY <1>6, <2>5 DEF TurnPage, Good, AppFits, PageFits, Showing
  <2>7. Shows(Values, up, f)
    BY <2>5, <2>6, BuildPageShows
  <2>8. ShowAgain(up) = f
    BY <2>5 DEF ShowAgain
  <2> HIDE DEF f
  <2>9. Carries(Values, ed, f)
    BY <2>5, <2>7, ShowsCarries, CarriesTwice
  <2> QED BY <1>2, <2>1, <2>8, <2>9 DEF s, up
<1> QED BY <1>3, <1>4, <1>5, <1>6

(***************************************************************************)
(* The loads of the menus.                                                 *)
(***************************************************************************)
LEMMA LoadInStep ==
  ASSUME NEW Values, Lawful(Values), IInv, JInv(Values), LoadFromDelta \/ LoadFromBin \/ LoadSvd
  PROVE  JInv(Values)'
<1>1. Good(Values, ed)
  BY DEF JInv
<1>2. CASE LoadFromDelta
  <2>1. PICK csv : Event("load_csv", LoadDeltaFile(ed, csv))
    BY <1>2 DEF LoadFromDelta
  <2>2. Loads(Values, ed, LoadDeltaFile(ed, csv))
    BY <1>1, LoadDeltaLoads
  <2> QED BY <2>1, <2>2, EventLoads
<1>3. CASE LoadFromBin
  <2>1. PICK bin : Event("load_bin", LoadBinFile(ed, bin))
    BY <1>3 DEF LoadFromBin
  <2>2. Loads(Values, ed, LoadBinFile(ed, bin))
    BY <1>1, LoadEachLoads DEF LoadBinFile
  <2> QED BY <2>1, <2>2, EventLoads
<1>4. CASE LoadSvd
  <2>1. PICK svd \in (UserSvds \union {disk.svd}) \ {None} : Event("load_svd", LoadSvdFile(ed, svd))
    BY <1>4 DEF LoadSvd
  <2>2. Len(svd) \in Nat
    BY <2>1, FilesAssumption DEF IInv, DiskFits
  <2>3. Loads(Values, ed, LoadSvdFile(ed, svd))
    BY <1>1, <2>2, LoadEachLoads DEF LoadSvdFile
  <2> QED BY <2>1, <2>3, EventLoads
<1> QED BY <1>2, <1>3, <1>4

(***************************************************************************)
(* The saves of the menus.                                                 *)
(***************************************************************************)
LEMMA SaveInStep ==
  ASSUME NEW Values, Lawful(Values), PacksLists, JInv(Values),
         SaveToBin \/ SaveDeltaToBin \/ SaveToSvd \/ SaveDeltaFile
  PROVE  JInv(Values)'
<1> DEFINE up == UpdateConfigDataOnPage(ed)
<1>1. Good(Values, ed) /\ ~ed.err
  BY DEF JInv
<1>2. Carries(Values, ed, up)
  BY <1>1, PageStored DEF CopiesFields
<1> HIDE DEF up
<1>3. Carries(Values, ed, Fail(up))
  <2>1. Good(Values, up)
    BY <1>2 DEF Carries
  <2> QED BY <1>2, <2>1, FailCarries, CarriesTwice
<1>4. ASSUME NEW op, NEW list, Save(op, up, list)
      PROVE  JInv(Values)'
  <2> DEFINE f == IF list = Error THEN Fail(up) ELSE up
  <2>1. Carries(Values, ed, f)
    BY <1>2, <1>3
  <2>2. Event(op, f)
    BY <1>4 DEF Save
  <2> HIDE DEF f
  <2> QED BY <2>1, <2>2, EventCarries DEF Carries
<1>5. CASE SaveToBin
  <2>1. PICK list : Save("save_bin", up, list)
    BY <1>5 DEF SaveToBin, up
  <2> QED BY <1>4, <2>1
<1>6. CASE SaveDeltaToBin
  <2>1. PICK list : Save("save_delta_bin", up, list)
    BY <1>6 DEF SaveDeltaToBin, up
  <2> QED BY <1>4, <2>1
<1>7. CASE SaveToSvd
  <2>1. PICK list : Save("save_svd", up, list)
    BY <1>7 DEF SaveToSvd, up
  <2> QED BY <1>4, <2>1
<1>8. CASE SaveDeltaFile
  <2>1. PICK full \in BOOLEAN : Event("save_csv", SaveDeltas(full).e)
    BY <1>8 DEF SaveDeltaFile
  <2>2. Carries(Values, ed, SaveDeltas(full).e)
    BY <1>1, SaveDeltasCarry
  <2> QED BY <2>1, <2>2, EventCarries DEF Carries
<1> QED BY <1>5, <1>6, <1>7, <1>8

(***************************************************************************)
(* The variables of the system.                                            *)
(***************************************************************************)
LEMMA RuntimeInStep ==
  ASSUME NEW Values, Lawful(Values), JInv(Values),
         LoadVariableRuntime \/ SetVariableRuntime \/ DelAllVariableRuntime
  PROVE  JInv(Values)'
<1>1. Good(Values, ed) /\ ~ed.err
  BY DEF JInv
<1>2. ASSUME NEW e, Good(Values, e), NEW nv PROVE Loads(Values, e, LoadRuntimeInto(e, nv))
  <2> DEFINE list == ReadAllUefiVars(nv, e.path)
  <2>1. LoadRuntimeInto(e, nv) = IF list = <<>> THEN e ELSE LoadBinFile(e, list)
    BY DEF LoadRuntimeInto, LoadRuntimeList
  <2> HIDE DEF list
  <2>2. Loads(Values, e, LoadBinFile(e, list))
    BY <1>2, LoadEachLoads DEF LoadBinFile
  <2> QED BY <1>2, <2>1, <2>2, LoadsNothing
<1>3. CASE LoadVariableRuntime
  <2>1. Event("load_runtime", LoadRuntimeInto(ed, nvram))
    BY <1>3 DEF LoadVariableRuntime
  <2> QED BY <1>1, <1>2, <2>1, EventLoads
<1>4. CASE SetVariableRuntime
  <2> DEFINE up == UpdateConfigDataOnPage(ed)
             list == LastList(up)
  <2>1. Carries(Values, ed, up) /\ ~up.err
    BY <1>1, PageStored DEF CopiesFields
  <2>2. Event("set_runtime", Fail(up)) \/ SetVariables(up, list)
    BY <1>4 DEF SetVariableRuntime
  <2> HIDE DEF up, list
  <2>3. Good(Values, up)
    BY <2>1 DEF Carries
  <2>4. CASE Event("set_runtime", Fail(up))
    <3>1. Carries(Values, ed, Fail(up))
      BY <2>1, <2>3, FailCarries, CarriesTwice
    <3> QED BY <2>4, <3>1, EventCarries DEF Carries
  <2>5. CASE SetVariables(up, list)
    <3>1. PICK n \in 0..Len(list) :
            Event("set_refused", up) \/ Event("set_runtime", LoadRuntimeInto(up, AfterSetting(list, n)))
      BY <2>5 DEF SetVariables
    <3>2. CASE Event("set_refused", up)
      BY <2>1, <3>2, EventCarries DEF Carries
    <3>3. CASE Event("set_runtime", LoadRuntimeInto(up, AfterSetting(list, n)))
      <4> DEFINE f == LoadRuntimeInto(up, AfterSetting(list, n))
      <4>1. Loads(Values, up, f)
        BY <1>2, <2>3
      <4> HIDE DEF f
      <4>2. Loads(Values, ed, up)
        BY <1>1, <2>1 DEF Carries, Loads
      <4>3. Loads(Values, ed, f)
        BY <4>1, <4>2, LoadsTwice
      <4> QED BY <3>3, <4>3, EventLoads DEF f
    <3> QED BY <3>1, <3>2, <3>3
  <2> QED BY <2>2, <2>4, <2>5
<1>5. CASE DelAllVariableRuntime
  <2>1. Event("del_runtime", ed)
    BY <1>5 DEF DelAllVariableRuntime
  <2> QED BY <1>1, <2>1, EventCarries
<1> QED BY <1>3, <1>4, <1>5

(***************************************************************************)
(* An argument of a command line that names its XML files first.           *)
(***************************************************************************)
LEMMA ArgumentInStep ==
  ASSUME NEW Values, Lawful(Values), IInv, FilesFit, JInv(Values), StartArgument
  PROVE  JInv(Values)'
<1> DEFINE a == Head(args.left)
           f == Handled(a)
<1>1. /\ args.left \in Seq(Arguments) /\ args.left # <<>> /\ args.idx \in Nat /\ AppFits(ed)
      /\ Len(args.left) \in Nat \ {0} /\ a = args.left[1] /\ Good(Values, ed)
  BY DEF IInv, ArgsFit, StartArgument, JInv
<1>2. ed' = [f EXCEPT !.err = FALSE] /\ torn' = (torn \/ (a.kind # "xml" /\ f.err))
  BY DEF StartArgument
<1>3. a \in Arguments
  BY <1>1
<1> HIDE DEF a
<1>4. a.kind \in {"xml", "csv", "vl", "other"} /\ (a.kind = "xml" => a.file \in XmlFiles)
  BY <1>3 DEF Arguments
<1>5. CASE a.kind = "xml"
  <2>1. args.idx = Len(ed.files)
    <3>1. 1 \in 1..Len(args.left) /\ \A i \in 1..(1 - 1) : args.left[i].kind # "other"
      BY <1>1
    <3>2. XmlComes(args.left)
      BY <1>1, <1>5, <3>1 DEF XmlComes
    <3> QED BY <3>2 DEF FilesFit
  <2>2. f = LoadCfgFile(ed, a.file, args.idx, FALSE)
    BY <1>5 DEF Handled
  <2> HIDE DEF f
  <2>3. Opens(ed, f, Len(ed.files))
    BY <1>1, <1>4, <1>5, <2>1, <2>2, LoadCfgFileOpens
  <2>4. Good(Values, f) /\ (InStep(ed) => InStep(f))
    BY <1>1, <2>3, OpensGood
  <2>5. Good(Values, ed') /\ ~ed'.err /\ (InStep(ed') <=> InStep(f))
    BY <1>2, <2>4, HandlerGood
  <2> QED BY <1>2, <2>4, <2>5 DEF JInv
<1>6. CASE a.kind # "xml"
  <2>1. a.kind = "csv" => f = LoadDeltaFile(ed, a.file)
    BY DEF Handled
  <2>2. a.kind = "vl" => f = LoadBinFile(ed, a.file)
    BY DEF Handled
  <2>3. a.kind = "other" => f = ed
    BY DEF Handled
  <2> HIDE DEF f
  <2>4. Loads(Values, ed, f)
    <3>1. a.kind = "csv" => Loads(Values, ed, f)
      BY <1>1, <2>1, LoadDeltaLoads
    <3>2. a.kind = "vl" => Loads(Values, ed, f)
      BY <1>1, <2>2, LoadEachLoads DEF LoadBinFile
    <3>3. a.kind = "other" => Loads(Values, ed, f)
      BY <1>1, <2>3, LoadsNothing
    <3> QED BY <1>4, <1>6, <3>1, <3>2, <3>3
  <2>5. Good(Values, ed') /\ ~ed'.err /\ (InStep(ed') <=> InStep(f))
    BY <1>2, <2>4, HandlerGood DEF Loads
  <2> QED BY <1>2, <1>6, <2>4, <2>5 DEF JInv, Loads
<1> QED BY <1>5, <1>6

(***************************************************************************)
(* The editor that was just started has no objects and no fields.          *)
(***************************************************************************)
LEMMA StartInStep ==
  ASSUME NEW Values, Init
  PROVE  JInv(Values)
<1>1. ed.objs = <<>> /\ ed.files = <<>> /\ ed.wid = NoWidgets /\ ed.err = FALSE
  BY DEF Init, Empty
<1>2. Len(ed.objs) = 0 /\ DOMAIN ed.wid.text = {}
  BY <1>1 DEF NoWidgets
<1>3. AllFit(Values, ed) /\ AllSync(ed)
  BY <1>2 DEF AllFit, AllSync
<1>4. FieldsListed(ed) /\ ShowsShim(ed)
  BY <1>2 DEF FieldsListed, ShowsShim
<1>5. AppFits(ed) /\ Belongs(ed)
  BY EditorInit DEF IInv
<1> QED BY <1>1, <1>3, <1>4, <1>5 DEF JInv, Good, Held, InStep

(***************************************************************************)
(* Whatever happens, objects and fields stay in step until a load raises.  *)
(***************************************************************************)
LEMMA AllInStep ==
  ASSUME NEW Values, Lawful(Values), PacksLists, IInv, FilesFit, JInv(Values), [Next]_vars
  PROVE  JInv(Values)'
<1>1. CASE StartArgument
  BY <1>1, ArgumentInStep
<1>2. CASE Running /\ UserEvent
  <2>1. CASE OpenXml \/ OpenXmlAndClear
    BY <2>1, OpenInStep
  <2>2. CASE SelectPage \/ TypeEntry \/ SelectCombo \/ TurnPage
    BY <2>2, PageInStep
  <2>3. CASE LoadFromDelta \/ LoadFromBin \/ LoadSvd
    BY <2>3, LoadInStep
  <2>4. CASE SaveToBin \/ SaveDeltaToBin \/ SaveToSvd \/ SaveDeltaFile
    BY <2>4, SaveInStep
  <2>5. CASE LoadVariableRuntime \/ SetVariableRuntime \/ DelAllVariableRuntime
    BY <2>5, RuntimeInStep
  <2> QED BY <1>2, <2>1, <2>2, <2>3, <2>4, <2>5 DEF UserEvent
<1>3. CASE UNCHANGED vars
  BY <1>3 DEF vars, JInv
<1> QED BY <1>1, <1>2, <1>3 DEF Next

(***************************************************************************)
(* The objects of the files and the fields of the page are among those.    *)
(***************************************************************************)
LEMMA InStepShown ==
  ASSUME NEW Values, JInv(Values)
  PROVE  LeavesInSync
<1>1. AppFits(ed) /\ DOMAIN ed.files = 1..Len(ed.files)
  BY DEF JInv, Good, AppFits, AppTypeOK
<1> SUFFICES ASSUME ~torn PROVE LeavesInSync
  BY DEF LeavesInSync
<1>2. AllSync(ed) /\ ShowsShim(ed)
  BY DEF JInv, InStep
<1>3. ObjectsInSync
  <2> SUFFICES ASSUME NEW n \in Loadeds(ed)
               PROVE  LET c == ed.objs[ed.files[n].obj]
                      IN \A i \in DOMAIN subknobs[c.xml] :
                           subknobs[c.xml][i].leaf => c.shim[i] = subknob_text(c.xml, c.vals, i)
    BY DEF ObjectsInSync
  <2>1. ed.files[n].obj \in 1..Len(ed.objs)
    BY <1>1, EntryObject DEF Loadeds
  <2> QED BY <1>2, <2>1 DEF AllSync, InSync, Leaves
<1> QED BY <1>2, <1>3 DEF LeavesInSync, ShowsShim

-----------------------------------------------------------------------------
(* What was saved, read back *)

\* What reading has made of the values of x so far: the texts of c, when its
\* variables were among those read.
ReadSoFar(Values, c, r, seen) == ~r.err /\ r.vals \in Values[c.xml] /\ (seen => SameTexts(c.xml, r.vals, c.vals))

(***************************************************************************)
(* uefi_variables_to_knobs for the variables of one object more: those of  *)
(* c give its knobs their texts, those of another XML file are passed over.*)
(***************************************************************************)
LEMMA ReadsOneMore ==
  ASSUME NEW Values, Lawful(Values), NEW c, ObjectFits(Values, c), NEW d, ObjectFits(Values, d),
         vlist_to_binary(d.xml, d.vals) # Error,
         NEW w, NEW seen \in BOOLEAN, w \in Values[c.xml], seen => SameTexts(c.xml, w, c.vals),
         d = c \/ d.xml # c.xml
  PROVE  ReadSoFar(Values, c, uefi_variables_to_knobs(c.xml, w, vlist_to_binary(d.xml, d.vals)), seen \/ d = c)
<1> DEFINE x == c.xml
           list == vlist_to_binary(d.xml, d.vals)
           r == uefi_variables_to_knobs(x, w, list)
<1>1. x \in DOMAIN knobs /\ c.vals \in Values[x] /\ d.xml \in DOMAIN knobs /\ d.vals \in Values[d.xml]
  BY DEF ObjectFits, IsObject
<1>2. r.vals \in Values[x]
  BY <1>1 DEF Lawful, Closed
<1>3. CASE d = c
  <2>1. ReadsBack(x, c.vals, w)
    BY <1>1 DEF Lawful, ReadsLists
  <2>2. ~r.err /\ SameTexts(x, r.vals, c.vals)
    BY <1>3, <2>1 DEF ReadsBack, PackedAgain
  <2> QED BY <1>2, <2>2 DEF ReadSoFar
<1>4. CASE d # c
  <2>1. LeavesAlone(x, w, d.xml, d.vals)
    BY <1>1, <1>4 DEF Lawful, ReadsLists
  <2>2. r = [vals |-> w, err |-> FALSE]
    BY <2>1 DEF LeavesAlone
  <2> HIDE DEF r
  <2>3. ~r.err /\ r.vals = w
    BY <2>2
  <2>4. ReadSoFar(Values, c, r, seen \/ d = c)
    BY <1>2, <1>4, <2>3 DEF ReadSoFar
  <2> QED BY <2>4 DEF r
<1> QED BY <1>3, <1>4

(***************************************************************************)
(* The lists of all objects one after the other, read into the defaults of *)
(* one XML file, give its knobs the texts they have in its object.         *)
(***************************************************************************)
LEMMA JoinedReadsBack ==
  ASSUME NEW Values, Lawful(Values), NEW N \in Nat, NEW cs, \A n \in 1..N : ObjectFits(Values, cs[n]),
         NEW seqs, seqs = [n \in 1..N |-> seqs[n]], \A n \in 1..N : seqs[n] = vlist_to_binary(cs[n].xml, cs[n].vals),
         \A n \in 1..N : seqs[n] # Error /\ \E S : seqs[n] \in Seq(S),
         NEW m \in 1..N, \A n \in 1..N : cs[n].xml = cs[m].xml => n = m
  PROVE  ReadSoFar(Values, cs[m],
                   uefi_variables_to_knobs(cs[m].xml, Defaulted(cs[m].xml), FlattenSeq(seqs)), TRUE)
<1> DEFINE c == cs[m]
           x == c.xml
           dflt == Defaulted(x)
           Read(list) == uefi_variables_to_knobs(x, dflt, list)
<1>1. PICK V : seqs \in Seq(Seq(V))
  <2>1. \A n \in 1..N : \E S : seqs[n] \in Seq(S)
    OBVIOUS
  <2> QED BY <2>1, ListsOfOneKind
<1>2. Len(seqs) = N
  OBVIOUS
<1>3. PICK f \in [0..N -> Seq(V)] :
        /\ f[0] = <<>> /\ FlattenSeq(seqs) = f[N]
        /\ \A n \in 1..N : f[n] = f[n - 1] \o seqs[n]
  <2>1. \E f \in [0..Len(seqs) -> Seq(V)] :
          /\ f[0] = <<>>
          /\ \A n \in 1..Len(seqs) : f[n] = f[n - 1] \o seqs[n]
          /\ FlattenSeq(seqs) = f[Len(seqs)]
    BY <1>1, FlattenSteps
  <2> QED BY ONLY <1>2, <2>1
<1>4. \A n \in 1..N : seqs[n] \in Seq(V) /\ seqs[n] = vlist_to_binary(cs[n].xml, cs[n].vals)
  BY <1>1, <1>2
<1>5. ObjectFits(Values, c) /\ x \in DOMAIN knobs /\ dflt \in Values[x]
  BY DEF Lawful, ObjectFits, IsObject
<1> DEFINE P(n) == ReadSoFar(Values, c, Read(f[n]), n >= m)
           T == {n \in 0..N : n = 0 \/ P(n)}
<1>6. 0 \in T
  OBVIOUS
<1>7. ASSUME NEW n \in 1..N, n - 1 \in T PROVE n \in T
  <2> DEFINE w == IF n = 1 THEN dflt ELSE Read(f[n - 1]).vals
             seen == n # 1 /\ n - 1 >= m
  <2>1. n = 1 \/ P(n - 1)
    BY <1>7
  <2>2. f[n] = f[n - 1] \o seqs[n] /\ f[n - 1] \in Seq(V) /\ seqs[n] \in Seq(V) /\ f[0] = <<>>
    <3>1. n - 1 \in 0..N
      OBVIOUS
    <3> QED BY ONLY <1>3, <1>4, <3>1, n \in 1..N
  <2>3. w \in Values[x] /\ (seen => SameTexts(x, w, c.vals)) /\ seen \in BOOLEAN
    BY <1>5, <2>1 DEF ReadSoFar
  <2>4. Read(f[n]) = uefi_variables_to_knobs(x, w, seqs[n])
    <3>1. CASE n = 1
      <4>1. f[n] = seqs[n]
        <5>1. <<>> \o seqs[n] = seqs[n]
          BY ONLY <2>2
        <5>2. n - 1 = 0
          BY ONLY <3>1
        <5> QED BY ONLY <2>2, <5>1, <5>2
      <4> QED BY <3>1, <4>1
    <3>2. CASE n # 1
      <4>1. ReadsInOrder(x, dflt, f[n - 1], seqs[n])
        BY <1>5, <2>2 DEF Lawful, ReadsLists
      <4>2. ~Read(f[n - 1]).err
        BY <2>1, <3>2 DEF ReadSoFar
      <4> QED BY <2>2, <3>2, <4>1, <4>2 DEF ReadsInOrder
    <3> QED BY <3>1, <3>2
  <2>5. cs[n] = c \/ cs[n].xml # x
    OBVIOUS
  <2> HIDE DEF w, seen, c, x, dflt
  <2>6. vlist_to_binary(cs[n].xml, cs[n].vals) # Error /\ ObjectFits(Values, cs[n])
    BY <1>4
  <2>7. ReadSoFar(Values, c, uefi_variables_to_knobs(c.xml, w, vlist_to_binary(cs[n].xml, cs[n].vals)),
                  seen \/ cs[n] = c)
    BY <1>5, <2>3, <2>5, <2>6, ReadsOneMore DEF x
  <2>8. n >= m => seen \/ cs[n] = c
    BY DEF seen, c
  <2>9. P(n)
    BY <1>4, <2>4, <2>7, <2>8 DEF ReadSoFar, x
  <2> QED BY <2>9
<1>8. 0..N \subseteq T
  <2> HIDE DEF T
  <2> QED BY <1>6, <1>7, BoundedInduction
<1>9. P(N)
  BY <1>8
<1> QED BY <1>3, <1>9 DEF ReadSoFar

\* No XML file is open twice.
OpenOnceIn(e) ==
  \A m, n \in Loadeds(e) : e.objs[e.files[m].obj].xml = e.objs[e.files[n].obj].xml => m = n

\* What is read from the list has a text as the format writes it, unless it is refused.
SavedIn(c, i, text, list) ==
  set_subknob_text(c.xml, c.vals, i, text) # Error =>
    /\ ~uefi_variables_to_knobs(c.xml, Defaulted(c.xml), list).err
    /\ subknob_text(c.xml, uefi_variables_to_knobs(c.xml, Defaulted(c.xml), list).vals, i) =
         ReformatValueStr(c.xml, i, text)

(***************************************************************************)
(* The full list of an application, read back, has the texts of the object *)
(* that is shown.                                                          *)
(***************************************************************************)
LEMMA FullListReadsBack ==
  ASSUME NEW Values, Lawful(Values), PacksLists, NEW e, Good(Values, e), OpenOnceIn(e), FullList(e) # Error,
         NEW i \in DOMAIN e.wid.text, Stored(e, i)
  PROVE  SavedIn(e.objs[e.wid.obj], i, e.wid.text[i], FullList(e))
<1> DEFINE N == Len(e.files)
           cs == [n \in 1..N |-> e.objs[e.files[n].obj]]
           seqs == [n \in 1..N |-> GenerateBinaryArray(cs[n])]
           c == e.objs[e.wid.obj]
           back == uefi_variables_to_knobs(c.xml, Defaulted(c.xml), FlattenSeq(seqs))
<1>1. N \in Nat /\ DOMAIN e.files = 1..N /\ AppFits(e)
  BY DEF Good, AppFits, AppTypeOK
<1>2. /\ \A n \in 1..N : e.files[n].obj # 0 /\ GenerateBinaryArray(e.objs[e.files[n].obj]) # Error
      /\ FullList(e) = FlattenSeq([n \in 1..N |-> GenerateBinaryArray(e.objs[e.files[n].obj])])
  BY <1>1 DEF FullList, AllBinaries
<1>3. FullList(e) = FlattenSeq(seqs)
  <2>1. seqs = [n \in 1..N |-> GenerateBinaryArray(e.objs[e.files[n].obj])]
    OBVIOUS
  <2> QED BY <1>2, <2>1
<1>4. \A n \in 1..N : ObjectFits(Values, cs[n]) /\ n \in Loadeds(e)
  <2> SUFFICES ASSUME NEW n \in 1..N PROVE ObjectFits(Values, cs[n]) /\ n \in Loadeds(e)
    OBVIOUS
  <2>1. e.files[n].obj \in 1..Len(e.objs)
    BY <1>1, <1>2, EntryObject
  <2> QED BY <1>1, <1>2, <2>1 DEF Good, AllFit, Loadeds
<1>5. PICK m \in 1..N : cs[m] = c
  <2>1. e.wid # NoWidgets
    BY DEF NoWidgets
  <2> QED BY <2>1 DEF Good, Held, Has
<1>6. \A n \in 1..N : cs[n].xml = cs[m].xml => n = m
  BY <1>4 DEF OpenOnceIn
<1>7. seqs = [n \in 1..N |-> seqs[n]] /\ \A n \in 1..N : seqs[n] = vlist_to_binary(cs[n].xml, cs[n].vals)
  BY DEF GenerateBinaryArray
<1>8. \A n \in 1..N : seqs[n] # Error /\ \E S : seqs[n] \in Seq(S)
  <2> SUFFICES ASSUME NEW n \in 1..N PROVE seqs[n] # Error /\ \E S : seqs[n] \in Seq(S)
    OBVIOUS
  <2>1. seqs[n] # Error
    BY <1>2
  <2>2. IsList(vlist_to_binary(cs[n].xml, cs[n].vals))
    BY <1>4 DEF PacksLists, ObjectFits, IsObject
  <2> HIDE DEF seqs, cs
  <2> QED BY <1>7, <2>1, <2>2 DEF IsList
<1>9. \A n \in 1..N : ObjectFits(Values, cs[n])
  BY <1>4
<1> HIDE DEF seqs, cs, N
<1>10. ReadSoFar(Values, c, back, TRUE)
  <2>1. ReadSoFar(Values, cs[m], uefi_variables_to_knobs(cs[m].xml, Defaulted(cs[m].xml), FlattenSeq(seqs)), TRUE)
    BY <1>1, <1>6, <1>7, <1>8, <1>9, JoinedReadsBack
  <2> QED BY <1>5, <2>1
<1>11. i \in Leaves(c.xml)
  BY DEF Good, FieldsListed, Listed, Shown
<1> HIDE DEF back, c
<1>12. StoredIn(c, i, e.wid.text[i])
  BY DEF Stored, c
<1>13. SavedIn(c, i, e.wid.text[i], FullList(e))
  BY <1>3, <1>10, <1>11, <1>12 DEF ReadSoFar, SameTexts, StoredIn, SavedIn, back
<1> QED BY <1>13 DEF c

(***************************************************************************)
(* The events and arguments but save_to_bin have other names.              *)
(***************************************************************************)
LEMMA OtherNames ==
  ASSUME UserEvent, ~SaveToBin
  PROVE  last'.op # "save_bin"
<1>1. ASSUME NEW op, NEW f, Event(op, f), op # "save_bin" PROVE last'.op # "save_bin"
  BY <1>1 DEF Event
<1>2. CASE OpenXml \/ OpenXmlAndClear
  BY <1>1, <1>2 DEF OpenXml, OpenXmlAndClear
<1>3. CASE SelectPage \/ TypeEntry \/ SelectCombo \/ TurnPage
  BY <1>1, <1>3 DEF SelectPage, TypeEntry, SelectCombo, TurnPage
<1>4. CASE LoadFromDelta \/ LoadFromBin \/ LoadSvd
  BY <1>1, <1>4 DEF LoadFromDelta, LoadFromBin, LoadSvd
<1>5. CASE SaveDeltaToBin \/ SaveToSvd
  BY <1>1, <1>5 DEF SaveDeltaToBin, SaveToSvd, Save
<1>6. CASE SaveDeltaFile
  BY <1>1, <1>6 DEF SaveDeltaFile
<1>7. CASE LoadVariableRuntime \/ SetVariableRuntime \/ DelAllVariableRuntime
  BY <1>1, <1>7 DEF LoadVariableRuntime, SetVariableRuntime, SetVariables, DelAllVariableRuntime
<1> QED BY <1>2, <1>3, <1>4, <1>5, <1>6, <1>7 DEF UserEvent

(***************************************************************************)
(* save_to_bin                                                             *)
(***************************************************************************)
LEMMA ScreenIsSaved ==
  ASSUME NEW Values, Lawful(Values), PacksLists, IInv, JInv(Values), SaveToBin, last'.ok, OpenOnce',
         NEW i \in DOMAIN ed'.wid.text
  PROVE  SavedIn(ed'.objs[ed'.wid.obj], i, ed'.wid.text[i], disk'.bin)
<1> DEFINE up == UpdateConfigDataOnPage(ed)
           list == FullList(up)
           f == IF list = Error THEN Fail(up) ELSE up
<1>1. Good(Values, ed) /\ ~ed.err /\ DOMAIN disk = {"bin", "svd", "csv"}
  BY DEF JInv, IInv, DiskFits
<1>2. CopiesFields(Values, ed, up) /\ \A k \in DOMAIN ed.wid.text : Stored(up, k)
  BY <1>1, PageStored
<1>3. Event("save_bin", f) /\ disk' = IF up.err THEN disk ELSE [disk EXCEPT !.bin = IF list = Error THEN <<>> ELSE list]
  BY DEF SaveToBin, Save
<1> HIDE DEF up
<1>4. Good(Values, up) /\ ~up.err /\ up.wid = ed.wid
  BY <1>2 DEF CopiesFields, Carries
<1>5. ~f.err /\ ed' = [f EXCEPT !.err = FALSE]
  BY <1>3 DEF Event
<1>6. list # Error
  <2>1. Fail(up).err
    BY <1>4, FailCarries
  <2> HIDE DEF list
  <2> QED BY <1>5, <2>1
<1>7. disk'.bin = list
  <2> HIDE DEF list
  <2> QED BY <1>1, <1>3, <1>4, <1>6
<1>8. f = up
  BY <1>6
<1> HIDE DEF f, list
<1>9. ed'.objs = up.objs /\ ed'.wid = up.wid /\ ed'.files = up.files
  BY <1>4, <1>5, <1>8 DEF Good, AppFits, AppTypeOK
<1>10. OpenOnceIn(up)
  BY <1>9 DEF OpenOnce, OpenOnceIn, Loadeds
<1>11. SavedIn(up.objs[up.wid.obj], i, up.wid.text[i], list)
  BY <1>2, <1>4, <1>6, <1>9, <1>10, FullListReadsBack DEF list
<1> QED BY <1>7, <1>9, <1>11

(***************************************************************************)
(* Whatever happens, what was just saved is what the screen shows.         *)
(***************************************************************************)
LEMMA SavedStep ==
  ASSUME NEW Values, Lawful(Values), PacksLists, IInv, JInv(Values), WhatYouSeeIsSaved, [Next]_vars
  PROVE  WhatYouSeeIsSaved'
<1>1. CASE last'.op # "save_bin"
  BY <1>1 DEF WhatYouSeeIsSaved
<1>2. CASE StartArgument
  <2>1. Head(args.left).kind # "save_bin"
    <3>1. args.left \in Seq(Arguments) /\ args.left # <<>>
      BY <1>2 DEF StartArgument, IInv, ArgsFit
    <3>2. Head(args.left) \in Arguments
      BY <3>1
    <3> QED BY <3>2 DEF Arguments
  <2>2. last'.op = Head(args.left).kind
    BY <1>2 DEF StartArgument
  <2> QED BY <1>1, <2>1, <2>2
<1>3. CASE Running /\ UserEvent
  <2>1. CASE ~SaveToBin
    BY <1>1, <1>3, <2>1, OtherNames
  <2>2. CASE SaveToBin
    <3>1. \A i \in DOMAIN ed'.wid.text : last'.ok /\ OpenOnce' =>
            SavedIn(ed'.objs[ed'.wid.obj], i, ed'.wid.text[i], disk'.bin)
      BY <2>2, ScreenIsSaved
    <3>2. \A c, i, text : SetItemValue(c, i, text).err <=> set_subknob_text(c.xml, c.vals, i, text) = Error
      BY DEF SetItemValue, ItemSet
    <3> QED BY <3>1, <3>2 DEF WhatYouSeeIsSaved, SavedIn
  <2> QED BY <2>1, <2>2
<1>4. CASE UNCHANGED vars
  BY <1>4 DEF vars, WhatYouSeeIsSaved, OpenOnce, Loadeds
<1> QED BY <1>2, <1>3, <1>4 DEF Next

-----------------------------------------------------------------------------
(* The theorems *)

(***************************************************************************)
(* In every reachable state the parts of the editor fit together: each     *)
(* page of the tree is listed in page_cfg_map and in page_list for an      *)
(* object made from an XML file that has that page, the selected page is   *)
(* in the tree, and the fields are of a page in the tree and of an object  *)
(* that has it, whatever a load, a save or a file that failed to open has  *)
(* left behind.                                                            *)
(***************************************************************************)
THEOREM EditorInductive ==
  ASSUME PacksLists
  PROVE  Spec => []IInv
<1>1. Init => IInv
  BY EditorInit
<1>2. IInv /\ [Next]_vars => IInv'
  <2> SUFFICES ASSUME IInv, [Next]_vars PROVE IInv'
    OBVIOUS
  <2>1. CASE StartArgument
    BY <2>1, ArgumentFits DEF IInv
  <2>2. CASE Running /\ UserEvent
    BY <2>2, UserEventStays DEF IInv, Stays, ArgsFit
  <2>3. CASE UNCHANGED vars
    BY <2>3 DEF vars, IInv, ArgsFit, DiskFits
  <2> QED BY <2>1, <2>2, <2>3 DEF Next
<1> QED BY <1>1, <1>2, PTL DEF Spec

(***************************************************************************)
(* A page that is shown has a field: turning the page, selecting a struct  *)
(* of fewer parts or refreshing the page after a load never shows a part   *)
(* behind the last one (build_config_data_page).                           *)
(***************************************************************************)
THEOREM EditorNonEmptyPage ==
  ASSUME PacksLists
  PROVE  Spec => []NonEmptyPage
<1>1. IInv => NonEmptyPage
  BY DEF IInv, AppFits, PageFits, Showing, NoWidgets, NonEmptyPage
<1> QED BY <1>1, EditorInductive, PTL

(***************************************************************************)
(* For every command line that names its XML files before any other file,  *)
(* and whatever files are opened later, with or without clearing out the   *)
(* old ones and whether they load or not, the files are numbered as they   *)
(* were opened and each page of the tree belongs to one of them            *)
(* (load_cfg_file, load_from_ml).                                          *)
(***************************************************************************)
THEOREM EditorFilesFit ==
  ASSUME PacksLists, \A s \in Sessions : XmlFirst(s.line)
  PROVE  Spec => [](IInv /\ FilesFit)
<1>1. Init => IInv /\ FilesFit
  <2> SUFFICES ASSUME Init PROVE IInv /\ FilesFit
    OBVIOUS
  <2>1. ed.files = <<>> /\ args.idx = 0 /\ XmlFirst(args.left)
    BY DEF Init, Empty
  <2> QED BY <2>1, EditorInit DEF FilesFit
<1>2. IInv /\ FilesFit /\ [Next]_vars => FilesFit'
  <2> SUFFICES ASSUME IInv, FilesFit, [Next]_vars PROVE FilesFit'
    OBVIOUS
  <2>1. CASE StartArgument
    BY <2>1, ArgumentFits
  <2>2. CASE Running /\ UserEvent
    <3>1. Stays
      BY <2>2, UserEventStays
    <3>2. args'.left = <<>> /\ Len(<<>>) = 0
      BY <2>2, <3>1 DEF Running, Stays
    <3> QED BY <3>1, <3>2 DEF FilesFit, Stays, XmlFirst, XmlComes
  <2>3. CASE UNCHANGED vars
    BY <2>3 DEF vars, FilesFit
  <2> QED BY <2>1, <2>2, <2>3 DEF Next
<1> QED BY <1>1, <1>2, EditorInductive, PTL DEF Spec

(***************************************************************************)
(* The pages in the tree are of the objects that are saved: page_cfg_map,  *)
(* page_list and cfg_data_list agree, for those command lines.             *)
(***************************************************************************)
THEOREM EditorPagesBelong ==
  ASSUME PacksLists, \A s \in Sessions : XmlFirst(s.line)
  PROVE  Spec => []PagesBelong
<1>1. IInv /\ FilesFit => PagesBelong
  <2> SUFFICES ASSUME IInv, FilesFit PROVE PagesBelong
    OBVIOUS
  <2>1. DOMAIN ed.files = 1..Len(ed.files)
    BY DEF IInv, AppFits, AppTypeOK
  <2> QED BY <2>1 DEF FilesFit, Belongs, Owned, PagesBelong
<1> QED BY <1>1, EditorFilesFit, PTL

(***************************************************************************)
(* While no load has raised, the shim and the values of every object and   *)
(* the fields of the page are in step; and always the objects fit the XML  *)
(* files, the fields are of leaves of their page and their object is that  *)
(* of an open file, whatever was opened, loaded, saved, typed or refused on*)
(* the way: every handler returns such an application (load_from_ml to     *)
(* del_all_variable_runtime of ConfigEditor.py).                           *)
(***************************************************************************)
THEOREM EditorInStep ==
  ASSUME PacksLists, \A s \in Sessions : XmlFirst(s.line), NEW CONSTANT Values, Lawful(Values)
  PROVE  Spec => []JInv(Values)
<1>1. Init => JInv(Values)
  BY StartInStep
<1>2. IInv /\ FilesFit /\ JInv(Values) /\ [Next]_vars => JInv(Values)'
  BY AllInStep
<1>3. Spec => [](IInv /\ FilesFit)
  BY EditorFilesFit
<1> QED BY <1>1, <1>2, <1>3, PTL DEF Spec

(***************************************************************************)
(* Every load and every field that is copied leaves the shim and the schema*)
(* with one text for each knob of each open file, and the fields of the    *)
(* page show it except where the user has typed, until a load raises       *)
(* (sync_shim_and_schema, set_config_item_value, refresh_config_data_page).*)
(***************************************************************************)
THEOREM EditorLeavesInSync ==
  ASSUME PacksLists, \A s \in Sessions : XmlFirst(s.line), NEW CONSTANT Values, Lawful(Values)
  PROVE  Spec => []LeavesInSync
<1>1. JInv(Values) => LeavesInSync
  BY InStepShown
<1> QED BY <1>1, EditorInStep, PTL

(***************************************************************************)
(* After save_to_bin the file, read into the defaults of the XML file on   *)
(* the screen, gives each field the text it shows, as its format writes it,*)
(* unless the text is refused: no field is copied to another knob or undone*)
(* by a later one (update_config_data_on_page), and no other open file     *)
(* speaks for its knobs.                                                   *)
(***************************************************************************)
THEOREM EditorWhatYouSeeIsSaved ==
  ASSUME PacksLists, \A s \in Sessions : XmlFirst(s.line), NEW CONSTANT Values, Lawful(Values)
  PROVE  Spec => []WhatYouSeeIsSaved
<1>1. Init => WhatYouSeeIsSaved
  BY DEF Init, WhatYouSeeIsSaved
<1>2. IInv /\ JInv(Values) /\ WhatYouSeeIsSaved /\ [Next]_vars => WhatYouSeeIsSaved'
  BY SavedStep
<1>3. Spec => []IInv
  BY EditorInductive
<1>4. Spec => []JInv(Values)
  BY EditorInStep
<1> QED BY <1>1, <1>2, <1>3, <1>4, PTL DEF Spec
=============================================================================
