--------------------------- MODULE Firmware_proofs ---------------------------
(***************************************************************************)
(* Proofs about the firmware, from the files of a build to the value a     *)
(* driver reads: for any XML and CSV files, any number of directories,     *)
(* profiles, knobs and builds, whatever fails or is killed, whatever       *)
(* variables other code writes and whenever the system is reset.           *)
(***************************************************************************)
EXTENDS Firmware, Induction_proofs

-----------------------------------------------------------------------------
(* The inductive invariant of the build *)

BuildTypeOK ==
  /\ build \in Settings \union {None}
  /\ DOMAIN generated = 1..MaxDirs
  /\ \A i \in 1..MaxDirs :
       generated[i] = [client |-> generated[i].client, service |-> generated[i].service,
                       data |-> generated[i].data, profiles |-> generated[i].profiles]
  /\ returned \in {"none", "ok", "failed", "killed"}
  /\ at.dir \in Nat /\ at.turn \in Nat
  /\ at.step \in {"idle", "client", "service", "data", "check", "profiles"}
  /\ at = [dir |-> at.dir, step |-> at.step, turn |-> at.turn]

\* The settings the plugin goes on with.
Accepted == build \in Settings /\ build.dirs = Len(build.xmls) /\ \A j \in 1..build.dirs : build.xmls[j] # None

OptionsFit(i) == CheckNames(build.names[i], Len(build.csvs[i])) /\ CheckIds(build.ids[i], Len(build.csvs[i]))

\* The first n of these profiles of XML file x are there, as their files say.
ReadSoFar(header, x, csvs, n) ==
  /\ header \in ProfilesHeader(x) /\ Len(header.values) = n
  /\ \A m \in 1..n : csvs[m] \in Readable(x) /\ header.values[m] = ReadProfile(x, csvs[m]).vals

\* The headers of a directory are those of this XML file and these profiles.
AllDone(headers, x, csvs) ==
  /\ \A which \in {"client", "service", "data"} : headers[which] = Header(x)
  /\ csvs # <<>> =>
       ReadSoFar(headers.profiles, x, csvs, Len(csvs)) /\ headers.profiles.whole /\ TablesFit(headers.profiles)
DirDone(i) == AllDone(generated[i], build.xmls[i], build.csvs[i])

\* While a command runs: the directories before are done, and in its own all headers
\* before the step it is at.
Underway ==
  /\ Accepted /\ returned = "none" /\ at.dir \in 1..build.dirs
  /\ \A j \in 1..(at.dir - 1) : DirDone(j)
  /\ at.step # "client" => generated[at.dir].client = Header(Xml)
  /\ at.step \notin {"client", "service"} => generated[at.dir].service = Header(Xml)
  /\ at.step \in {"check", "profiles"} => generated[at.dir].data = Header(Xml) /\ Csvs # <<>>
  /\ at.step = "profiles" =>
       /\ OptionsFit(at.dir) /\ at.turn \in 1..(Len(Csvs) + 1)
       /\ ReadSoFar(generated[at.dir].profiles, Xml, Csvs, at.turn - 1)

BuildInv ==
  /\ BuildTypeOK
  /\ at.step = "idle" => at = Idle
  /\ at.step # "idle" => Underway
  /\ returned = "ok" => at = Idle /\ Accepted /\ \A j \in 1..build.dirs : DirDone(j)

-----------------------------------------------------------------------------
(* The inductive invariant of the platform *)

\* The firmware is built from files that could be read.
ImageFits ==
  /\ image.xml \in DOMAIN Schemas
  /\ image.csvs \in Seq(DOMAIN CsvFiles) /\ Len(image.profiles) = Len(image.csvs)
  /\ \A n \in 1..Len(image.csvs) :
       /\ image.csvs[n] \in Readable(image.xml)
       /\ image.profiles[n] = ReadProfile(image.xml, image.csvs[n]).vals

PlatformTypeOK ==
  /\ DOMAIN nvram = 1..Count
  /\ \A k \in 1..Count : nvram[k] = None \/ nvram[k] \in Blobs[image.xml][k]
  /\ DOMAIN knobValues = 1..Count
  /\ \A k \in 1..Count : knobValues[k] \in Seq(Int) /\ Len(knobValues[k]) = SizeOf(k)
  /\ creator.step \in {"profile", "size", "data", "validate", "publish", "done"}
  /\ creator.at \in 1..Count /\ creator.size \in Nat /\ creator.profile \in 0..Len(image.csvs)
  /\ creator.took \subseteq 1..creator.at
  /\ creator = [step |-> creator.step, at |-> creator.at, size |-> creator.size, status |-> creator.status,
                profile |-> creator.profile, took |-> creator.took]

\* A knob no variable was taken for has the value of the active profile; another has
\* one that its validator is still to look at, one that it accepted, or the default.
KnobsFit ==
  /\ \A k \in 1..Count :
       IF k \notin creator.took THEN knobValues[k] = ProfileBytes(creator.profile)[k]
       ELSE \/ knobValues[k] = DefaultBytes[image.xml][k]
            \/ /\ knobValues[k] \in StoredBytes(image.xml, k)
               /\ \/ creator.step = "validate" /\ k = creator.at
                  \/ ValidateKnobContent(image.xml, k, ValueOf(image.xml, k, knobValues[k]))
  /\ creator.step = "profile" => creator.profile = 0 /\ creator.took = {}
  /\ creator.step \in {"profile", "size", "data"} => creator.at \notin creator.took
  /\ creator.step = "validate" => creator.at \in creator.took
  /\ creator.step = "data" => creator.size = SizeOf(creator.at)

\* What the driver has was published in this boot.  A policy of the size that the
\* getters expect holds the bytes of each knob where its getter looks.
PolicyHolds ==
  \A k \in 1..Count :
    LET from == GetterOffset(image.xml, k) IN SubSeq(policy, from + 1, from + SizeOf(k)) = knobValues[k]

CacheFits ==
  /\ policy # None <=> creator.step = "done"
  /\ policy # None => policy \in Seq(Int) /\ (Len(policy) = GetConfPolicySize(image.xml) => PolicyHolds)
  /\ cached.bytes \in Seq(Int) /\ Len(cached.bytes) = GetConfPolicySize(image.xml)
  /\ cached.signed => policy # None /\ cached.bytes = policy
  /\ cached = [signed |-> cached.signed, bytes |-> cached.bytes, beyond |-> cached.beyond] /\ cached.signed \in BOOLEAN
  /\ got # None /\ got.status = "success" =>
       /\ policy # None
       /\ Len(policy) = GetConfPolicySize(image.xml) => got.at \in 1..Count /\ got.data = knobValues[got.at]

PlatformInv == image # None => ImageFits /\ PlatformTypeOK /\ KnobsFit /\ CacheFits

\* Before the platform is flashed there is no creator, no policy and no driver.
NothingYet == image = None => creator = Booting /\ policy = None /\ got = None

IInv == BuildInv /\ PlatformInv /\ NothingYet

-----------------------------------------------------------------------------
(* The generated code *)

(***************************************************************************)
(* The lists of the knobs follow one another.                              *)
(***************************************************************************)
LEMMA ListEndsSteps ==
  ASSUME NEW x \in DOMAIN Schemas
  PROVE  /\ ListEnds(x) \in [0..Len(Schemas[x]) -> Nat]
         /\ ListEnds(x)[0] = 0
         /\ \A n \in 1..Len(Schemas[x]) : ListEnds(x)[n] = ListEnds(x)[n - 1] + GetVariableListSize(Schemas[x][n])
<1> DEFINE N == Len(Schemas[x])
           Size(n) == GetVariableListSize(Schemas[x][n])
           G == [p \in (1..N) \X Nat |-> p[2] + Size(p[1])]
           Eq(h) == h = [n \in 0..N |-> IF n = 0 THEN 0 ELSE h[n - 1] + Size(n)]
<1>1. N \in Nat /\ \A n \in 1..N : Size(n) \in Nat
  BY SchemasAssumption DEF GetVariableListSize
<1>2. ListEnds(x) = CHOOSE h : Eq(h)
  BY DEF ListEnds
<1> HIDE DEF N, Size
<1>3. IsStep(G, N, Nat)
  <2>1. \A p \in (1..N) \X Nat : p[2] + Size(p[1]) \in Nat
    BY <1>1
  <2> QED BY <2>1 DEF IsStep
<1>4. PICK f : IsIteration(f, N, Nat, 0, G)
  <2> HIDE DEF G
  <2> QED BY <1>1, <1>3, BoundedRecursion
<1>5. f \in [0..N -> Nat] /\ f[0] = 0 /\ \A n \in 1..N : f[n] = f[n - 1] + Size(n)
  <2>1. f \in [0..N -> Nat] /\ f[0] = 0 /\ \A n \in 1..N : f[n] = G[<<n, f[n - 1]>>]
    <3> HIDE DEF G
    <3> QED BY <1>4 DEF IsIteration
  <2>2. \A n \in 1..N : n - 1 \in 0..N /\ <<n, f[n - 1]>> \in (1..N) \X Nat
    BY <1>1, <2>1
  <2> QED BY <2>1, <2>2
<1>6. Eq(f)
  <2>1. \A n \in 0..N : n = 0 \/ n \in 1..N
    BY <1>1
  <2> QED BY <1>5, <2>1
<1>7. Eq(ListEnds(x))
  <2> HIDE DEF Eq
  <2> QED BY <1>2, <1>6
<1> DEFINE e == ListEnds(x)
           T == {n \in 0..N : e[n] = f[n]}
<1> HIDE DEF e
<1>8. \A n \in 0..N : e[n] = IF n = 0 THEN 0 ELSE e[n - 1] + Size(n)
  BY <1>7 DEF e
<1>9. 0..N \subseteq T
  <2>1. 0 \in T
    BY <1>1, <1>5, <1>8
  <2>2. ASSUME NEW n \in 1..N, n - 1 \in T
        PROVE  n \in T
    BY <1>1, <1>5, <1>8, <2>2
  <2> HIDE DEF T
  <2> QED BY <1>1, <2>1, <2>2, BoundedInduction
<1>10. DOMAIN e = 0..N
  BY <1>7 DEF e
<1>11. e \in [0..N -> Nat]
  <2>1. e = [n \in 0..N |-> e[n]]
    BY <1>7 DEF e
  <2>2. \A n \in 0..N : e[n] \in Nat
    BY <1>5, <1>9
  <2> QED BY <2>1, <2>2
<1> QED
  <2>1. \A n \in 1..N : n \in 0..N /\ n # 0
    BY <1>1
  <2>2. 0 \in 0..N
    BY <1>1
  <2> QED BY <1>8, <1>11, <2>1, <2>2 DEF e, N, Size

(***************************************************************************)
(* A part of a sequence.                                                   *)
(***************************************************************************)
LEMMA PartOf ==
  ASSUME NEW p \in Seq(Int), NEW from \in Nat, NEW n \in Nat, from + n <= Len(p)
  PROVE  LET q == SubSeq(p, from + 1, from + n)
         IN q \in Seq(Int) /\ Len(q) = n /\ \A i \in 1..n : q[i] = p[from + i]
<1>1. Len(p) \in Nat
  OBVIOUS
<1>2. \A i \in (from + 1)..(from + n) : i \in 1..Len(p)
  BY <1>1
<1>3. SubSeq(p, from + 1, from + n) \in Seq(Int)
  BY <1>2, SubSeqProperties
<1> DEFINE a == from + 1
           b == from + n
<1>4. a \in Int /\ b \in Int /\ (IF a <= b THEN b - a + 1 ELSE 0) = n
  OBVIOUS
<1>5. Len(SubSeq(p, a, b)) = n /\ \A i \in 1..n : SubSeq(p, a, b)[i] = p[a + i - 1] /\ a + i - 1 = from + i
  <2>1. \A i \in a..b : i \in 1..Len(p)
    BY <1>2
  <2>2. \A i \in 1..n : a + i - 1 = from + i /\ i \in 1..(b - a + 1)
    OBVIOUS
  <2> HIDE DEF a, b
  <2> QED BY <1>4, <2>1, <2>2, SubSeqProperties
<1> QED BY <1>3, <1>5

(***************************************************************************)
(* A list of a knob: what is before the data, the data and the CRC.        *)
(***************************************************************************)
LEMMA EntryLayout ==
  ASSUME NEW a \in Nat, NEW v \in Seq(Int)
  PROVE  LET u == Filler(a) \o v \o Filler(4)
         IN u \in Seq(Int) /\ Len(u) = a + Len(v) + 4 /\ \A i \in 1..Len(v) : u[a + i] = v[i]
<1> DEFINE s == Filler(a)
           t == Filler(4)
<1>1. s \in Seq(Int) /\ Len(s) = a /\ t \in Seq(Int) /\ Len(t) = 4
  BY DEF Filler
<1> HIDE DEF s, t
<1>2. s \o v \in Seq(Int) /\ Joins(s \o v, s, v)
  BY <1>1, ConcatParts
<1>3. (s \o v) \o t \in Seq(Int) /\ Joins((s \o v) \o t, s \o v, t)
  <2> DEFINE w == s \o v
  <2>1. w \in Seq(Int)
    BY <1>2
  <2> HIDE DEF w
  <2>2. w \o t \in Seq(Int) /\ Joins(w \o t, w, t)
    BY <1>1, <2>1, ConcatParts
  <2> QED BY <2>2 DEF w
<1>4. Len(v) \in Nat
  OBVIOUS
<1>5. Len(s \o v) = a + Len(v) /\ Len((s \o v) \o t) = a + Len(v) + 4
  BY <1>1, <1>2, <1>3, <1>4 DEF Joins
<1>6. ASSUME NEW i \in 1..Len(v) PROVE ((s \o v) \o t)[a + i] = v[i]
  <2>1. a + i \in 1..(a + Len(v))
    BY <1>4
  <2>2. ((s \o v) \o t)[a + i] = (s \o v)[a + i]
    BY <1>3, <1>5, <2>1 DEF Joins
  <2>3. (s \o v)[a + i] = v[i]
    BY <1>1, <1>2 DEF Joins
  <2> QED BY <2>2, <2>3
<1> QED BY <1>3, <1>5, <1>6 DEF s, t

(***************************************************************************)
(* The policy has the size that the getters expect, and the bytes of each  *)
(* knob are where its getter looks (GetterOffset against PolicyOf).        *)
(***************************************************************************)
LEMMA PolicyLayout ==
  ASSUME image.xml \in DOMAIN Schemas,
         NEW values, \A k \in 1..Count : values[k] \in Seq(Int) /\ Len(values[k]) = SizeOf(k)
  PROVE  /\ PolicyOf(values) \in Seq(Int)
         /\ Len(PolicyOf(values)) = GetConfPolicySize(image.xml)
         /\ \A k \in 1..Count :
              LET from == GetterOffset(image.xml, k)
              IN /\ from \in Nat /\ from + SizeOf(k) <= GetConfPolicySize(image.xml)
                 /\ SubSeq(PolicyOf(values), from + 1, from + SizeOf(k)) = values[k]
<1> DEFINE x == image.xml
           N == Count
           End == ListEnds(x)
           Size(k) == GetVariableListSize(Knob(k))
           Before(k) == Size(k) - SizeOf(k) - 4
           Entry(k) == Filler(Before(k)) \o values[k] \o Filler(4)
           seqs == [k \in 1..N |-> Entry(k)]
           p == FlattenSeq(seqs)
<1>1. p = PolicyOf(values)
  BY DEF PolicyOf
<1>2. N \in Nat
  BY SchemasAssumption DEF Count
<1>3. ASSUME NEW k \in 1..N
      PROVE  SizeOf(k) \in Nat /\ Before(k) \in Nat /\ Size(k) \in Nat /\ Size(k) = Before(k) + SizeOf(k) + 4
  <2> DEFINE n == NameLength(Knob(k).name)
             s == SizeOf(k)
  <2>1. n \in Nat /\ s \in Nat
    BY SchemasAssumption DEF Count, Knob, SizeOf
  <2>2. Size(k) = 16 + 4 + 4 + 4 + 4 + (n + 1) * 2 + s
    BY DEF GetVariableListSize, SizeOf
  <2> HIDE DEF n, s, Size
  <2>3. Size(k) - s - 4 \in Nat /\ Size(k) \in Nat /\ Size(k) = (Size(k) - s - 4) + s + 4
    BY <2>1, <2>2
  <2> QED BY <2>1, <2>3 DEF s
<1>4. /\ End \in [0..N -> Nat] /\ End[0] = 0
      /\ \A k \in 1..N : End[k] = End[k - 1] + Size(k)
  BY ListEndsSteps DEF Count, Knob
<1> HIDE DEF Size, Before
<1>5. ASSUME NEW k \in 1..N
      PROVE  /\ Entry(k) \in Seq(Int) /\ Len(Entry(k)) = Size(k)
             /\ \A i \in 1..SizeOf(k) : Entry(k)[Before(k) + i] = values[k][i]
  <2> DEFINE b == Before(k)
             v == values[k]
             u == Filler(b) \o v \o Filler(4)
  <2>1. b \in Nat /\ v \in Seq(Int) /\ Len(v) = SizeOf(k) /\ Size(k) = b + Len(v) + 4
    BY <1>3
  <2> HIDE DEF b, v
  <2>2. u \in Seq(Int) /\ Len(u) = b + Len(v) + 4 /\ \A i \in 1..Len(v) : u[b + i] = v[i]
    BY <2>1, EntryLayout
  <2>3. u = Entry(k)
    BY DEF b, v
  <2> HIDE DEF Entry, u
  <2> QED BY <2>1, <2>2, <2>3 DEF b, v
<1> HIDE DEF Entry
<1>6. seqs \in Seq(Seq(Int)) /\ Len(seqs) = N /\ \A k \in 1..N : seqs[k] = Entry(k)
  BY <1>2, <1>5
<1> HIDE DEF End, seqs, N, p
<1>7. /\ p \in Seq(Int) /\ Len(p) = End[N]
      /\ \A k \in 1..N :
           /\ Size(k) <= End[k] /\ End[k] <= End[N]
           /\ \A j \in 1..Size(k) : p[End[k] - Size(k) + j] = Entry(k)[j]
  <2>1. \A k \in 1..N : Len(seqs[k]) = Size(k) /\ seqs[k] = Entry(k)
    BY <1>5, <1>6
  <2>2. \A k \in 1..Len(seqs) : End[k] = End[k - 1] + Len(seqs[k])
    BY <1>4, <1>6, <2>1
  <2>3. Ends(End, seqs)
    BY <1>4, <1>6, <2>2 DEF Ends
  <2>4. p \in Seq(Int) /\ LaidOut(p, seqs, End)
    BY <1>6, <2>3, FlattenLayout DEF p
  <2>5. \A k \in 1..N :
          /\ Size(k) <= End[k] /\ End[k] <= End[N]
          /\ \A j \in 1..Size(k) : p[End[k] - Size(k) + j] = Entry(k)[j]
    <3> SUFFICES ASSUME NEW k \in 1..N
                 PROVE  /\ Size(k) <= End[k] /\ End[k] <= End[N]
                        /\ \A j \in 1..Size(k) : p[End[k] - Size(k) + j] = Entry(k)[j]
      OBVIOUS
    <3>1. Len(seqs) = N /\ Len(seqs[k]) = Size(k) /\ seqs[k] = Entry(k)
      BY <1>6, <2>1
    <3> QED BY <2>4, <3>1 DEF LaidOut
  <2> QED BY <1>6, <2>4, <2>5 DEF LaidOut
<1>8. GetConfPolicySize(x) = End[N]
  BY DEF GetConfPolicySize, End, N, Count
<1>9. ASSUME NEW k \in 1..N
      PROVE  LET from == GetterOffset(x, k)
             IN /\ from \in Nat /\ from + SizeOf(k) <= End[N]
                /\ SubSeq(p, from + 1, from + SizeOf(k)) = values[k]
  <2> DEFINE from == GetterOffset(x, k)
             e == End[k]
             z == Size(k)
             b == Before(k)
             s == SizeOf(k)
             m == End[N]
             v == values[k]
  <2>1. from = e - (4 + s)
    BY DEF GetterOffset, End, SizeOf, Knob
  <2>2. k \in 0..N /\ N \in 0..N
    BY <1>2
  <2>3. e \in Nat /\ m \in Nat /\ z \in Nat /\ b \in Nat /\ s \in Nat /\ z = b + s + 4 /\ z <= e /\ e <= m
    BY <1>3, <1>4, <1>7, <2>2
  <2>4. /\ Len(p) = m /\ \A j \in 1..z : p[e - z + j] = Entry(k)[j]
        /\ \A i \in 1..s : Entry(k)[b + i] = v[i]
    BY <1>5, <1>7
  <2>5. v \in Seq(Int) /\ Len(v) = s
    BY DEF N
  <2>6. from \in Nat /\ SizeOf(k) = s
    <3>1. s = SizeOf(k)
      OBVIOUS
    <3> HIDE DEF from, e, z, b, s, m, v
    <3>2. e - (4 + s) \in Nat
      BY <2>3
    <3> QED BY <2>1, <3>1, <3>2
  <2> HIDE DEF from, e, z, b, s, m, v
  <2>7. from + s <= m
    BY <2>1, <2>3
  <2>8. ASSUME NEW i \in 1..s PROVE p[from + i] = v[i]
    <3>1. b + i \in 1..z /\ from + i = e - z + (b + i)
      BY <2>1, <2>3
    <3> QED BY <2>4, <3>1
  <2>9. SubSeq(p, from + 1, from + s) = v
    <3> DEFINE q == SubSeq(p, from + 1, from + s)
    <3>1. q \in Seq(Int) /\ Len(q) = s /\ \A i \in 1..s : q[i] = p[from + i]
      BY <1>7, <2>3, <2>4, <2>6, <2>7, PartOf
    <3> HIDE DEF q
    <3>2. Len(q) = Len(v) /\ \A i \in 1..Len(q) : q[i] = v[i]
      BY <2>5, <2>8, <3>1
    <3>3. q = v
      BY <2>5, <3>1, <3>2, SeqEqual
    <3> QED BY <3>3 DEF q
  <2> QED BY <2>6, <2>7, <2>9 DEF from, s, m, v
<1> QED BY <1>1, <1>7, <1>8, <1>9 DEF N

(***************************************************************************)
(* Each number of an enum that is used by name is declared by name         *)
(* (CText against EnumConstants), unless the names pass unchanged.         *)
(***************************************************************************)
LEMMA UsedIsDeclared ==
  ASSUME NoChange = FALSE, NEW x \in DOMAIN Schemas, NEW vals
  PROVE  UsedIn(x, vals) \subseteq PublicHeader(x, FALSE, NoChange)
<1> SUFFICES ASSUME NEW i \in EnumLeaves(x), NEW o, NEW c \in CText(subknobs[x][i].fmt, o)
             PROVE  c \in EnumConstants(subknobs[x][i].fmt, FALSE)
  <2>1. UsedIn(x, vals) \subseteq UNION {EnumConstants(subknobs[x][i].fmt, FALSE) : i \in EnumLeaves(x)}
    BY DEF UsedIn
  <2> QED BY <2>1 DEF PublicHeader, DeclaredEnums
<1> DEFINE f == subknobs[x][i].fmt
           hits == {n \in DOMAIN f.values : f.values[n].number = o}
           first == CHOOSE n \in hits : \A m \in hits : n <= m
<1>1. hits # {} /\ c = EnumConstant(f, f.values[first].name, FALSE)
  <2>1. CText(f, o) = IF hits = {} THEN {} ELSE {EnumConstant(f, f.values[first].name, FALSE)}
    BY DEF CText
  <2> HIDE DEF hits, first
  <2> QED BY <2>1
<1>2. DOMAIN f.values = 1..Len(f.values) /\ Len(f.values) \in Nat
  BY SchemasAssumption DEF EnumLeaves
<1>3. hits \in SUBSET Nat
  BY <1>2
<1>4. \E n \in hits : \A m \in hits : n <= m
  <2> HIDE DEF hits
  <2> QED BY <1>1, <1>3, LeastElement
<1>5. first \in hits
  <2> HIDE DEF hits
  <2> QED BY <1>4
<1>6. first \in DOMAIN f.values
  <2> HIDE DEF first
  <2> QED BY <1>5
<1> HIDE DEF first, hits
<1> QED BY <1>1, <1>6 DEF EnumConstants

(***************************************************************************)
(* The same of the data header and its bounds.                             *)
(***************************************************************************)
LEMMA DataIsDeclared ==
  ASSUME NoChange = FALSE, NEW x \in DOMAIN Schemas
  PROVE  DataHeader(x) \subseteq PublicHeader(x, FALSE, NoChange)
<1>1. UsedIn(x, Defaults(x)) \subseteq PublicHeader(x, FALSE, NoChange)
  BY UsedIsDeclared
<1>2. \A i \in EnumLeaves(x) : EnumConstants(subknobs[x][i].fmt, FALSE) \subseteq PublicHeader(x, FALSE, NoChange)
  BY DEF PublicHeader, DeclaredEnums
<1>3. DeclaredBounds(x) \subseteq PublicHeader(x, FALSE, NoChange)
  BY DEF PublicHeader
<1> QED BY <1>1, <1>2, <1>3 DEF DataHeader

(***************************************************************************)
(* The validator of an enum lets only its numbers pass, whether it is a    *)
(* switch or looks at the ends and the gaps between them.                  *)
(***************************************************************************)
LEMMA EnumValidatorSound ==
  ASSUME NEW x \in DOMAIN Schemas, NEW i \in EnumLeaves(x), NEW v \in Int,
         ValidateEnumValue(subknobs[x][i].fmt, v)
  PROVE  v \in Numbers(subknobs[x][i].fmt)
<1> DEFINE f == subknobs[x][i].fmt
           N == Len(f.values)
           g == [n \in 1..N |-> f.values[n].number]
<1>1. N \in Nat \ {0} /\ DOMAIN f.values = 1..N /\ g \in [1..N -> Int]
  BY SchemasAssumption DEF EnumLeaves
<1>2. Numbers(f) = {g[n] : n \in 1..N}
  BY <1>1 DEF Numbers
<1>3. /\ \E n \in 1..N : \A m \in 1..N : g[n] <= g[m]
      /\ \E n \in 1..N : \A m \in 1..N : g[m] <= g[n]
  <2> HIDE DEF g, N
  <2> QED BY <1>1, Extremes
<1> HIDE DEF g, N
<1>4. Highest(f) \in Numbers(f) /\ Lowest(f) \in Numbers(f)
  <2>1. \A n \in Numbers(f) : n \in Int
    BY <1>1, <1>2
  <2>2. \E n \in Numbers(f) : \A m \in Numbers(f) : n >= m
    <3>1. PICK n \in 1..N : \A m \in 1..N : g[m] <= g[n]
      BY <1>3
    <3>2. g[n] \in Numbers(f) /\ \A m \in Numbers(f) : g[n] >= m
      BY <1>1, <1>2, <3>1
    <3> QED BY <3>2
  <2>3. \E n \in Numbers(f) : \A m \in Numbers(f) : n <= m
    <3>1. PICK n \in 1..N : \A m \in 1..N : g[n] <= g[m]
      BY <1>3
    <3>2. g[n] \in Numbers(f) /\ \A m \in Numbers(f) : g[n] <= m
      BY <1>1, <1>2, <3>1
    <3> QED BY <3>2
  <2> QED BY <2>2, <2>3 DEF Highest, Lowest
<1>5. Highest(f) \in Int /\ Lowest(f) \in Int
  BY <1>1, <1>2, <1>4
<1>6. CASE IsSwitch(f)
  BY <1>6 DEF ValidateEnumValue, Numbers
<1>7. CASE ~IsSwitch(f)
  <2>1. /\ Lowest(f) <= v /\ v <= Highest(f)
        /\ \A gap \in Lowest(f)..(Highest(f) - 1) : gap \notin Numbers(f) => v # gap
    BY <1>7 DEF ValidateEnumValue
  <2>2. v = Highest(f) \/ v \in Lowest(f)..(Highest(f) - 1)
    BY <1>5, <2>1
  <2> QED BY <1>4, <2>1, <2>2
<1> QED BY <1>6, <1>7

(***************************************************************************)
(* What the generated validator lets pass is within the bounds that the    *)
(* tools check.                                                            *)
(***************************************************************************)
LEMMA ValidatorSound ==
  ASSUME NEW x \in DOMAIN Schemas, NEW k \in DOMAIN Schemas[x], NEW b \in StoredBytes(x, k),
         ValidateKnobContent(x, k, ValueOf(x, k, b))
  PROVE  InBounds(x, k, b)
<1> DEFINE V(i) == get_child_value(ValueOf(x, k, b), subknobs[x][i].path)
<1>1. /\ \A i \in Leaves(x, k) : subknobs[x][i].fmt.kind = "enum" => V(i) \in Int
      /\ (\A i \in Leaves(x, k) : LeafFits(x, i, V(i))) => InBounds(x, k, b)
  BY LeavesAssumption
<1>2. ASSUME NEW i \in Leaves(x, k) PROVE LeafFits(x, i, V(i))
  <2>1. /\ subknobs[x][i].fmt.kind = "enum" => ValidateEnumValue(subknobs[x][i].fmt, V(i))
        /\ HasMin(x, i) => LeafMin(x, i) <= V(i)
        /\ HasMax(x, i) => V(i) <= LeafMax(x, i)
    BY DEF ValidateKnobContent
  <2>2. i \in DOMAIN subknobs[x] /\ subknobs[x][i].leaf
    BY DEF Leaves
  <2> HIDE DEF V
  <2>3. CASE subknobs[x][i].fmt.kind = "enum"
    <3>1. i \in EnumLeaves(x) /\ V(i) \in Int /\ ValidateEnumValue(subknobs[x][i].fmt, V(i))
      BY <1>1, <2>1, <2>2, <2>3 DEF EnumLeaves
    <3>2. V(i) \in Numbers(subknobs[x][i].fmt)
      BY <3>1, EnumValidatorSound
    <3> QED BY <2>3, <3>2 DEF LeafFits
  <2>4. CASE subknobs[x][i].fmt.kind # "enum"
    BY <2>1, <2>2, <2>4 DEF LeafFits, HasMin, HasMax
  <2> QED BY <2>3, <2>4
<1> QED BY <1>1, <1>2

-----------------------------------------------------------------------------
(* The build *)

(***************************************************************************)
(* What the settings are that the plugin goes on with.                     *)
(***************************************************************************)
LEMMA AcceptedSettings ==
  ASSUME Accepted
  PROVE  /\ build \in Settings /\ build.dirs \in 1..MaxDirs /\ build.dirs = Len(build.xmls)
         /\ \A i \in 1..build.dirs :
              /\ build.xmls[i] \in DOMAIN Schemas
              /\ build.csvs[i] \in Seq(DOMAIN CsvFiles) /\ Len(build.csvs[i]) \in 0..256
              /\ build.names[i] = None \/ build.names[i] \in Seq(Nat)
              /\ build.ids[i] = None \/ build.ids[i] \in Seq([hex : BOOLEAN, number : Nat])
<1>1. /\ build \in Settings /\ build.dirs = Len(build.xmls)
      /\ \A j \in 1..build.dirs : build.xmls[j] # None
  BY DEF Accepted
<1>2. /\ build.dirs \in 1..MaxDirs
      /\ build.xmls \in Seq(DOMAIN Schemas \union {None})
      /\ build.csvs \in Seq(Seq(DOMAIN CsvFiles)) /\ Len(build.csvs) = Len(build.xmls)
      /\ \A i \in DOMAIN build.csvs :
           /\ Len(build.csvs[i]) <= 256
           /\ build.names[i] = None \/ build.names[i] \in Seq(Nat)
           /\ build.ids[i] = None \/ build.ids[i] \in Seq([hex : BOOLEAN, number : Nat])
  BY <1>1, SettingsAssumption
<1>3. DOMAIN build.csvs = 1..build.dirs
  BY <1>1, <1>2
<1>4. ASSUME NEW i \in 1..build.dirs
      PROVE  /\ build.xmls[i] \in DOMAIN Schemas
             /\ build.csvs[i] \in Seq(DOMAIN CsvFiles) /\ Len(build.csvs[i]) \in 0..256
  <2>1. build.xmls[i] \in DOMAIN Schemas \union {None} /\ build.csvs[i] \in Seq(DOMAIN CsvFiles)
    BY <1>1, <1>2
  <2> DEFINE cs == build.csvs[i]
  <2>2. cs \in Seq(DOMAIN CsvFiles) /\ Len(cs) <= 256
    BY <1>2, <1>3, <2>1
  <2> HIDE DEF cs
  <2>3. Len(cs) \in 0..256
    <3> DEFINE n == Len(cs)
    <3>1. n \in Nat
      BY <2>2
    <3>2. n <= 256
      BY <2>2
    <3> HIDE DEF n
    <3>3. n \in 0..256
      BY <3>1, <3>2
    <3> QED BY <3>3 DEF n
  <2>4. build.xmls[i] \in DOMAIN Schemas
    BY <1>1, <2>1
  <2> QED BY <2>1, <2>3, <2>4 DEF cs
<1> QED BY <1>1, <1>2, <1>3, <1>4

(***************************************************************************)
(* A header is written to its place and nowhere else.                      *)
(***************************************************************************)
GeneratedTypeOK ==
  /\ DOMAIN generated = 1..MaxDirs
  /\ \A i \in 1..MaxDirs :
       generated[i] = [client |-> generated[i].client, service |-> generated[i].service,
                       data |-> generated[i].data, profiles |-> generated[i].profiles]

(***************************************************************************)
(* A header is written to its place and nowhere else (the "with open"      *)
(* blocks of KnobService.py, one per header).                              *)
(***************************************************************************)
LEMMA HeaderPut ==
  ASSUME GeneratedTypeOK, at.dir \in 1..MaxDirs,
         NEW h, NEW which \in {"client", "service", "data", "profiles"}, PutHeader(which, h)
  PROVE  /\ GeneratedTypeOK'
         /\ \A i \in 1..MaxDirs : i # at.dir => generated'[i] = generated[i]
         /\ generated'[at.dir][which] = h
         /\ \A w \in {"client", "service", "data", "profiles"} : w # which => generated'[at.dir][w] = generated[at.dir][w]
<1> USE DEF PutHeader
<1>1. DOMAIN generated = 1..MaxDirs /\ DOMAIN generated' = 1..MaxDirs
  BY DEF GeneratedTypeOK
<1>2. \A i \in 1..MaxDirs : i # at.dir => generated'[i] = generated[i]
  BY <1>1
<1>3. generated[at.dir] = [client |-> generated[at.dir].client, service |-> generated[at.dir].service,
                           data |-> generated[at.dir].data, profiles |-> generated[at.dir].profiles]
  BY DEF GeneratedTypeOK
<1> DEFINE old == generated[at.dir]
           new == generated'[at.dir]
<1>4. new = [old EXCEPT ![which] = h]
  BY <1>1
<1> HIDE DEF old, new
<1>5. DOMAIN old = {"client", "service", "data", "profiles"}
  BY <1>3 DEF old
<1>6. /\ new[which] = h /\ DOMAIN new = DOMAIN old
      /\ \A w \in {"client", "service", "data", "profiles"} : w # which => new[w] = old[w]
  BY <1>4, <1>5
<1>7. new = [w \in {"client", "service", "data", "profiles"} |-> new[w]]
  BY <1>4, <1>5
<1>8. new = [client |-> new.client, service |-> new.service, data |-> new.data, profiles |-> new.profiles]
  BY <1>7
<1>9. GeneratedTypeOK'
  BY <1>1, <1>2, <1>8 DEF GeneratedTypeOK, new
<1> QED BY <1>2, <1>6, <1>9 DEF old, new

(***************************************************************************)
(* A directory that is not touched stays done.                             *)
(***************************************************************************)
LEMMA DoneStays ==
  ASSUME build' = build, NEW i, generated'[i] = generated[i], DirDone(i)
  PROVE  DirDone(i)'
BY DEF DirDone

(***************************************************************************)
(* The end of a command: all directories so far are done.                  *)
(***************************************************************************)
LEMMA NextDirStep ==
  ASSUME Accepted, returned = "none", at.dir \in 1..build.dirs, build' = build,
         GeneratedTypeOK', \A j \in 1..at.dir : DirDone(j)', NextDir
  PROVE  BuildInv'
<1>1. /\ build \in Settings /\ build.dirs \in 1..MaxDirs /\ build.dirs = Len(build.xmls)
  BY AcceptedSettings
<1>2. Accepted'
  BY DEF Accepted
<1>3. CASE at.dir < Len(build.xmls)
  <2>1. at' = [dir |-> at.dir + 1, step |-> "client", turn |-> 0] /\ returned' = "none"
    BY <1>3 DEF NextDir, Command
  <2>2. at.dir + 1 \in 1..build.dirs /\ (at.dir + 1) - 1 = at.dir
    BY <1>1, <1>3
  <2>3. Underway'
    BY <1>2, <2>1, <2>2 DEF Underway
  <2>4. BuildTypeOK'
    BY <1>1, <2>1, <2>2 DEF BuildTypeOK, GeneratedTypeOK
  <2> QED BY <2>1, <2>3, <2>4 DEF BuildInv
<1>4. CASE ~(at.dir < Len(build.xmls))
  <2>1. at' = Idle /\ returned' = "ok" /\ at.dir = build.dirs
    BY <1>1, <1>4 DEF NextDir, Stop
  <2>2. BuildTypeOK'
    BY <1>1, <2>1 DEF BuildTypeOK, GeneratedTypeOK, Idle
  <2> QED BY <1>2, <2>1, <2>2 DEF BuildInv, Idle
<1> QED BY <1>3, <1>4

(***************************************************************************)
(* A command or a build that stops before its end.                         *)
(***************************************************************************)
LEMMA StopStep ==
  ASSUME BuildInv, build' \in Settings, GeneratedTypeOK', NEW code \in {"failed", "killed"}, Stop(code)
  PROVE  BuildInv'
BY DEF BuildInv, BuildTypeOK, GeneratedTypeOK, Stop, Idle

(***************************************************************************)
(* The tables fit the profiles when the options do (ProfileNames and       *)
(* ProfileIds against CheckNames and CheckIds): without numbers they are   *)
(* counted, and there are no more than 256 profiles.                       *)
(***************************************************************************)
LEMMA TablesMade ==
  ASSUME NEW names, NEW ids, NEW count \in 0..256,
         names = None \/ names \in Seq(Nat), ids = None \/ ids \in Seq([hex : BOOLEAN, number : Nat]),
         CheckNames(names, count), CheckIds(ids, count)
  PROVE  /\ ProfileNames(names, count) \in Seq(Nat) /\ ProfileIds(ids, count) \in Seq(Nat)
         /\ Len(ProfileNames(names, count)) = count
         /\ \A n \in DOMAIN ProfileNames(names, count) : ProfileNames(names, count)[n] = 2
         /\ Len(ProfileIds(ids, count)) = count
         /\ \A n \in DOMAIN ProfileIds(ids, count) : ProfileIds(ids, count)[n] \in 0..255
<1>1. /\ ProfileNames(names, count) \in Seq(Nat)
      /\ Len(ProfileNames(names, count)) = count
      /\ \A n \in DOMAIN ProfileNames(names, count) : ProfileNames(names, count)[n] = 2
  <2>1. CASE names = None
    <3>1. ProfileNames(names, count) = [i \in 1..count |-> 2]
      BY <2>1 DEF ProfileNames
    <3> QED BY <3>1
  <2>2. CASE names # None
    BY <2>2 DEF ProfileNames, CheckNames
  <2> QED BY <2>1, <2>2
<1>2. CASE ids = None
  <2>1. ProfileIds(ids, count) = [i \in 1..count |-> i - 1]
    BY <1>2 DEF ProfileIds
  <2>2. \A i \in 1..count : i - 1 \in 0..255
    OBVIOUS
  <2> DEFINE s == ProfileIds(ids, count)
  <2>3. DOMAIN s = 1..count /\ \A n \in 1..count : s[n] = n - 1
    BY <2>1
  <2>4. Len(s) = count
    BY <2>1
  <2> HIDE DEF s
  <2>5. ASSUME NEW n \in DOMAIN s PROVE s[n] \in 0..255
    <3>1. n \in 1..count /\ s[n] = n - 1
      BY <2>3
    <3>2. n - 1 \in 0..255
      BY <2>2, <3>1
    <3> QED BY <3>1, <3>2
  <2>6. s \in Seq(Nat)
    <3>1. \A n \in 1..count : n - 1 \in Nat
      OBVIOUS
    <3> QED BY <2>1, <3>1 DEF s
  <2> QED BY <1>1, <2>4, <2>5, <2>6 DEF s
<1>3. CASE ids # None
  <2>1. ids \in Seq([hex : BOOLEAN, number : Nat]) /\ Len(ids) = count /\ \A n \in DOMAIN ids : ids[n].number <= 255
    BY <1>3 DEF CheckIds
  <2>2. DOMAIN ids = 1..count
    BY <2>1
  <2> DEFINE s == ProfileIds(ids, count)
  <2>3. s = [i \in 1..count |-> ids[i].number]
    BY <1>3, <2>2 DEF ProfileIds
  <2>4. DOMAIN s = 1..count /\ \A n \in 1..count : s[n] = ids[n].number
    BY <2>3
  <2>5. Len(s) = count
    BY <2>3
  <2> HIDE DEF s
  <2>6. \A n \in 1..count : ids[n] \in [hex : BOOLEAN, number : Nat]
    <3>1. \A n \in 1..Len(ids) : ids[n] \in [hex : BOOLEAN, number : Nat]
      BY <2>1, ElementOfSeq
    <3> QED BY <2>1, <3>1
  <2>7. \A n \in 1..count : ids[n].number \in Nat /\ ids[n].number <= 255
    BY <2>1, <2>2, <2>6
  <2>8. ASSUME NEW n \in DOMAIN s PROVE s[n] \in 0..255
    <3>1. s[n] = ids[n].number /\ ids[n].number \in Nat /\ ids[n].number <= 255
      BY <2>4, <2>7
    <3>2. \A i \in Nat : i <= 255 => i \in 0..255
      OBVIOUS
    <3>3. ids[n].number \in 0..255
      BY <3>1, <3>2
    <3> QED BY <3>1, <3>3
  <2>9. s \in Seq(Nat)
    BY <2>3, <2>4, <2>7
  <2> QED BY <1>1, <2>5, <2>8, <2>9 DEF s
<1> QED BY <1>2, <1>3

(***************************************************************************)
(* The settings of a new build.                                            *)
(***************************************************************************)
LEMMA StartStep ==
  ASSUME BuildInv, NEW settings \in Settings, Start(settings)
  PROVE  BuildInv'
<1>1. build' = settings /\ generated' = generated
  BY DEF Start
<1>2. GeneratedTypeOK'
  BY <1>1 DEF BuildInv, BuildTypeOK, GeneratedTypeOK
<1>3. CASE (\E i \in DOMAIN settings.xmls : settings.xmls[i] = None) \/ Len(settings.xmls) # settings.dirs
  <2>1. Stop("failed")
    BY <1>3 DEF Start, Stop
  <2> QED BY <1>1, <1>2, <2>1, StopStep
<1>4. CASE ~((\E i \in DOMAIN settings.xmls : settings.xmls[i] = None) \/ Len(settings.xmls) # settings.dirs)
  <2>1. at' = [dir |-> 1, step |-> "client", turn |-> 0] /\ returned' = "none"
    BY <1>4 DEF Start, Command
  <2>2. settings.dirs \in 1..MaxDirs /\ settings.xmls \in Seq(DOMAIN Schemas \union {None}) /\ MaxDirs \in Nat
    BY SettingsAssumption DEF SettingsAssumption
  <2>3. Accepted'
    BY <1>1, <1>4, <2>2 DEF Accepted
  <2>4. 1 \in 1..settings.dirs
    BY <2>2
  <2>5. Underway'
    BY <1>1, <2>1, <2>3, <2>4 DEF Underway
  <2>6. BuildTypeOK'
    BY <1>1, <1>2, <2>1 DEF BuildTypeOK, GeneratedTypeOK
  <2> QED BY <2>1, <2>5, <2>6 DEF BuildInv
<1> QED BY <1>3, <1>4

(***************************************************************************)
(* What holds while a command runs, with the settings' types.              *)
(***************************************************************************)
LEMMA WhileUnderway ==
  ASSUME BuildInv, at.step # "idle"
  PROVE  /\ Underway /\ GeneratedTypeOK /\ build \in Settings
         /\ at.dir \in 1..build.dirs /\ at.dir \in 1..MaxDirs
         /\ at = [dir |-> at.dir, step |-> at.step, turn |-> at.turn]
         /\ Xml \in DOMAIN Schemas /\ Csvs \in Seq(DOMAIN CsvFiles) /\ Len(Csvs) \in 0..256
         /\ \A j \in 1..build.dirs : j \in 1..MaxDirs
<1>1. Underway /\ GeneratedTypeOK /\ at = [dir |-> at.dir, step |-> at.step, turn |-> at.turn]
  BY DEF BuildInv, BuildTypeOK, GeneratedTypeOK
<1>2. Accepted /\ at.dir \in 1..build.dirs
  BY <1>1 DEF Underway
<1>3. build \in Settings /\ build.dirs \in 1..MaxDirs
  BY <1>2, AcceptedSettings
<1>4. Xml \in DOMAIN Schemas /\ Csvs \in Seq(DOMAIN CsvFiles) /\ Len(Csvs) \in 0..256
  BY <1>2, AcceptedSettings DEF Xml, Csvs
<1>5. at.dir \in 1..MaxDirs /\ \A j \in 1..build.dirs : j \in 1..MaxDirs
  <2>1. MaxDirs \in Nat
    BY SettingsAssumption DEF SettingsAssumption
  <2> QED BY <1>2, <1>3, <2>1
<1> QED BY <1>1, <1>2, <1>3, <1>4, <1>5

(***************************************************************************)
(* A header is written: the directories before stay done.                  *)
(***************************************************************************)
LEMMA HeaderWritten ==
  ASSUME BuildInv, at.step # "idle", build' = build,
         NEW h, NEW which \in {"client", "service", "data", "profiles"}, PutHeader(which, h)
  PROVE  /\ GeneratedTypeOK' /\ generated'[at.dir][which] = h
         /\ \A w \in {"client", "service", "data", "profiles"} : w # which => generated'[at.dir][w] = generated[at.dir][w]
         /\ \A j \in 1..(at.dir - 1) : DirDone(j)'
<1>1. /\ Underway /\ GeneratedTypeOK /\ at.dir \in 1..build.dirs /\ at.dir \in 1..MaxDirs
      /\ \A j \in 1..build.dirs : j \in 1..MaxDirs
  BY WhileUnderway
<1>2. /\ GeneratedTypeOK'
      /\ \A i \in 1..MaxDirs : i # at.dir => generated'[i] = generated[i]
      /\ generated'[at.dir][which] = h
      /\ \A w \in {"client", "service", "data", "profiles"} : w # which => generated'[at.dir][w] = generated[at.dir][w]
  BY <1>1, HeaderPut
<1>3. ASSUME NEW j \in 1..(at.dir - 1) PROVE DirDone(j)'
  <2>1. DirDone(j)
    BY <1>1 DEF Underway
  <2>2. j # at.dir /\ j \in 1..MaxDirs
    <3>1. \A n, d, m \in Nat : d \in 1..m /\ n \in 1..(d - 1) => n # d /\ n \in 1..m
      OBVIOUS
    <3>2. MaxDirs \in Nat /\ at.dir \in Nat
      BY SettingsAssumption DEF SettingsAssumption, BuildInv, BuildTypeOK
    <3> QED BY <1>1, <3>1, <3>2
  <2>3. generated'[j] = generated[j]
    BY <1>2, <2>2
  <2> QED BY <2>1, <2>3, DoneStays
<1> QED BY <1>2, <1>3

(***************************************************************************)
(* The headers of the client and of the service.                           *)
(***************************************************************************)
LEMMA SourcesStep ==
  ASSUME BuildInv, GenerateClient \/ GenerateService
  PROVE  BuildInv'
<1> DEFINE which == IF at.step = "client" THEN "client" ELSE "service"
           next == IF at.step = "client" THEN "service" ELSE "data"
<1>1. /\ at.step \in {"client", "service"} /\ PutHeader(which, Header(Xml))
      /\ at' = [at EXCEPT !.step = next]
      /\ build' = build /\ returned' = returned
  BY DEF GenerateClient, GenerateService
<1>2. /\ Underway /\ GeneratedTypeOK /\ build \in Settings
      /\ at.dir \in 1..build.dirs /\ at.dir \in 1..MaxDirs
      /\ at = [dir |-> at.dir, step |-> at.step, turn |-> at.turn]
  BY <1>1, WhileUnderway
<1>3. which \in {"client", "service", "data", "profiles"}
  OBVIOUS
<1> DEFINE h == Header(Xml)
<1>4. /\ GeneratedTypeOK' /\ generated'[at.dir][which] = h
      /\ \A w \in {"client", "service", "data", "profiles"} : w # which => generated'[at.dir][w] = generated[at.dir][w]
      /\ \A j \in 1..(at.dir - 1) : DirDone(j)'
  <2>1. PutHeader(which, h) /\ at.step # "idle"
    BY <1>1
  <2> HIDE DEF which, h
  <2> QED BY <1>1, <1>3, <2>1, HeaderWritten
<1>5. at' = [dir |-> at.dir, step |-> next, turn |-> at.turn]
  <2> HIDE DEF next
  <2> QED BY <1>1, <1>2
<1>6. at'.dir = at.dir /\ at'.step = next /\ at'.turn = at.turn /\ at.turn \in Nat /\ at.dir \in Nat
  <2>1. at.turn \in Nat /\ at.dir \in Nat
    BY DEF BuildInv, BuildTypeOK
  <2> HIDE DEF next
  <2> QED BY <1>5, <2>1
<1>7. \A j \in 1..(at'.dir - 1) : DirDone(j)'
  BY <1>4, <1>6
<1>8. at'.step # "client" => generated'[at'.dir].client = Header(Xml)
  BY <1>1, <1>2, <1>4, <1>6 DEF Underway
<1>9. at'.step \notin {"client", "service"} => generated'[at'.dir].service = Header(Xml)
  BY <1>1, <1>2, <1>4, <1>6 DEF Underway
<1>10. Xml' = Xml /\ Header(Xml)' = Header(Xml)
  BY <1>1, <1>6 DEF Xml, Header
<1>11. at'.step \in {"service", "data"}
  BY <1>6
<1>12. Accepted' /\ returned' = "none" /\ at'.dir \in 1..build'.dirs
  BY <1>1, <1>2, <1>6 DEF Underway, Accepted
<1>13. Underway'
  <2> HIDE DEF which, next, h
  <2> QED BY <1>7, <1>8, <1>9, <1>10, <1>11, <1>12 DEF Underway
<1>14. BuildTypeOK'
  <2> HIDE DEF which, h
  <2> QED BY <1>1, <1>2, <1>4, <1>5, <1>6, <1>11, <1>12 DEF BuildTypeOK, GeneratedTypeOK
<1> QED BY <1>11, <1>12, <1>13, <1>14 DEF BuildInv

(***************************************************************************)
(* The data header: the last one of a directory without profiles.          *)
(***************************************************************************)
LEMMA DataStep ==
  ASSUME BuildInv, GenerateData
  PROVE  BuildInv'
<1> DEFINE h == Header(Xml)
<1>1. at.step = "data" /\ PutHeader("data", h) /\ build' = build
  BY DEF GenerateData
<1>2. /\ Underway /\ build \in Settings /\ at.dir \in 1..build.dirs
      /\ at = [dir |-> at.dir, step |-> at.step, turn |-> at.turn]
  BY <1>1, WhileUnderway
<1>3. /\ GeneratedTypeOK' /\ generated'[at.dir].data = h
      /\ \A w \in {"client", "service", "data", "profiles"} : w # "data" => generated'[at.dir][w] = generated[at.dir][w]
      /\ \A j \in 1..(at.dir - 1) : DirDone(j)'
  <2> HIDE DEF h
  <2> QED BY <1>1, HeaderWritten
<1>4. \A which \in {"client", "service", "data"} : generated'[at.dir][which] = h
  BY <1>1, <1>2, <1>3 DEF Underway
<1>5. at.dir \in Nat /\ at.turn \in Nat
  BY DEF BuildInv, BuildTypeOK
<1>6. Accepted' /\ returned = "none"
  BY <1>1, <1>2 DEF Underway, Accepted
<1>7. CASE Csvs = <<>>
  <2>1. \A j \in {at.dir} : DirDone(j)'
    <3>1. AllDone(generated'[at.dir], Xml, Csvs)
      BY <1>4, <1>7 DEF AllDone
    <3> QED BY <1>1, <3>1 DEF DirDone, Xml, Csvs
  <2>2. \A j \in 1..at.dir : DirDone(j)'
    <3>1. \A j \in 1..at.dir : j = at.dir \/ j \in 1..(at.dir - 1)
      BY <1>5
    <3> QED BY <1>3, <2>1, <3>1
  <2>3. NextDir
    BY <1>7 DEF GenerateData
  <2> QED BY <1>1, <1>2, <1>3, <1>6, <2>2, <2>3, NextDirStep DEF Underway
<1>8. CASE Csvs # <<>>
  <2>1. at' = [at EXCEPT !.step = "check"] /\ returned' = returned
    BY <1>8 DEF GenerateData
  <2>2. at' = [dir |-> at.dir, step |-> "check", turn |-> at.turn]
    BY <1>2, <2>1
  <2>3. at'.dir = at.dir /\ Xml' = Xml /\ Csvs' = Csvs /\ h' = h
    BY <1>1, <2>2 DEF Xml, Csvs, Header
  <2>4. Underway'
    BY <1>1, <1>2, <1>3, <1>4, <1>6, <1>8, <2>1, <2>2, <2>3 DEF Underway
  <2>5. BuildTypeOK'
    BY <1>1, <1>2, <1>3, <1>5, <1>6, <2>1, <2>2 DEF BuildTypeOK, GeneratedTypeOK
  <2> QED BY <1>6, <2>1, <2>2, <2>4, <2>5 DEF BuildInv
<1> QED BY <1>7, <1>8

(***************************************************************************)
(* The options are looked at and the header of the profiles is opened.     *)
(***************************************************************************)
LEMMA CheckStep ==
  ASSUME BuildInv, CheckOptions
  PROVE  BuildInv'
<1> DEFINE ok == CheckNames(build.names[at.dir], Len(Csvs)) /\ CheckIds(build.ids[at.dir], Len(Csvs))
           h == [xml |-> Xml, whole |-> FALSE, values |-> <<>>, names |-> <<>>, ids |-> <<>>]
<1>1. at.step = "check" /\ build' = build
  BY DEF CheckOptions
<1>2. /\ Underway /\ build \in Settings /\ at.dir \in 1..build.dirs /\ GeneratedTypeOK
      /\ at = [dir |-> at.dir, step |-> at.step, turn |-> at.turn]
      /\ Xml \in DOMAIN Schemas /\ Len(Csvs) \in 0..256
  BY <1>1, WhileUnderway
<1>3. CASE ~ok
  <2>1. Stop("failed") /\ generated' = generated
    BY <1>3 DEF CheckOptions, Stop
  <2>2. GeneratedTypeOK'
    BY <1>2, <2>1 DEF GeneratedTypeOK
  <2> QED BY <1>1, <1>2, <2>1, <2>2, StopStep
<1>4. CASE ok
  <2>1. PutHeader("profiles", h) /\ at' = [at EXCEPT !.step = "profiles", !.turn = 1] /\ returned' = returned
    BY <1>4 DEF CheckOptions
  <2>2. /\ GeneratedTypeOK' /\ generated'[at.dir].profiles = h
        /\ \A w \in {"client", "service", "data", "profiles"} : w # "profiles" => generated'[at.dir][w] = generated[at.dir][w]
        /\ \A j \in 1..(at.dir - 1) : DirDone(j)'
    <3> HIDE DEF h
    <3> QED BY <1>1, <2>1, HeaderWritten
  <2>3. at' = [dir |-> at.dir, step |-> "profiles", turn |-> 1]
    BY <1>2, <2>1
  <2>4. at'.dir = at.dir /\ Xml' = Xml /\ Csvs' = Csvs /\ Header(Xml)' = Header(Xml)
    BY <1>1, <2>3 DEF Xml, Csvs, Header
  <2>5. ReadSoFar(h, Xml, Csvs, 0)
    <3>1. h \in ProfilesHeader(Xml)
      BY <1>2 DEF ProfilesHeader
    <3> QED BY <3>1 DEF ReadSoFar
  <2>6. OptionsFit(at.dir)'
    <3>1. OptionsFit(at.dir)
      BY <1>4 DEF OptionsFit, Csvs
    <3> QED BY <1>1, <2>4, <3>1 DEF OptionsFit
  <2>7. 1 \in 1..(Len(Csvs) + 1) /\ 1 - 1 = 0
    BY <1>2
  <2>8. Accepted' /\ returned' = "none"
    BY <1>1, <1>2, <2>1 DEF Underway, Accepted
  <2>9. /\ generated'[at.dir].client = Header(Xml) /\ generated'[at.dir].service = Header(Xml)
        /\ generated'[at.dir].data = Header(Xml) /\ Csvs # <<>>
    BY <1>1, <1>2, <2>2 DEF Underway
  <2>10. Underway'
    <3> HIDE DEF h
    <3> QED BY <1>1, <1>2, <2>2, <2>3, <2>4, <2>5, <2>6, <2>7, <2>8, <2>9 DEF Underway
  <2>11. BuildTypeOK'
    <3>1. at.dir \in Nat
      BY DEF BuildInv, BuildTypeOK
    <3> QED BY <1>1, <1>2, <2>2, <2>3, <2>8, <3>1 DEF BuildTypeOK, GeneratedTypeOK
  <2> QED BY <2>3, <2>8, <2>10, <2>11 DEF BuildInv
<1> QED BY <1>3, <1>4

(***************************************************************************)
(* One more profile, and the tables behind the last one.                   *)
(***************************************************************************)
LEMMA OneMore ==
  ASSUME NEW x \in DOMAIN Schemas, NEW csvs \in Seq(DOMAIN CsvFiles), NEW n \in 1..Len(csvs),
         NEW header, ReadSoFar(header, x, csvs, n - 1), ~ReadProfile(x, csvs[n]).err
  PROVE  ReadSoFar([header EXCEPT !.values = Append(@, ReadProfile(x, csvs[n]).vals)], x, csvs, n)
<1> DEFINE v == ReadProfile(x, csvs[n]).vals
           S == {ReadProfile(x, c).vals : c \in DOMAIN CsvFiles}
           old == header.values
           new == Append(old, v)
           h == [header EXCEPT !.values = new]
<1>1. csvs[n] \in DOMAIN CsvFiles /\ n \in Nat \ {0}
  OBVIOUS
<1>2. v \in S /\ csvs[n] \in Readable(x)
  BY <1>1 DEF Readable
<1>3. header \in ProfilesHeader(x) /\ Len(old) = n - 1
  BY DEF ReadSoFar
<1>4. old \in Seq(S) /\ h \in [xml : {x}, whole : BOOLEAN, values : {new}, names : Seq(Nat), ids : Seq(Nat)]
  BY <1>3 DEF ProfilesHeader
<1>5. \A m \in 1..(n - 1) : csvs[m] \in Readable(x) /\ old[m] = ReadProfile(x, csvs[m]).vals
  BY DEF ReadSoFar
<1> HIDE DEF S, old, v
<1>6. new \in Seq(S) /\ Len(new) = n /\ new[n] = v /\ \A m \in 1..(n - 1) : new[m] = old[m]
  BY <1>1, <1>2, <1>3, <1>4, AppendProperties
<1> HIDE DEF new, h
<1>7. h \in ProfilesHeader(x) /\ h.values = new
  BY <1>4, <1>6 DEF ProfilesHeader, S
<1>8. \A m \in 1..n : m = n \/ m \in 1..(n - 1)
  BY <1>1
<1>9. \A m \in 1..n : csvs[m] \in Readable(x) /\ new[m] = ReadProfile(x, csvs[m]).vals
  BY <1>2, <1>5, <1>6, <1>8 DEF v
<1>10. ReadSoFar(h, x, csvs, n)
  BY <1>6, <1>7, <1>9 DEF ReadSoFar
<1> QED BY <1>10 DEF h, new, old, v

Finished(header, names, ids) == [header EXCEPT !.whole = TRUE, !.names = names, !.ids = ids]

(***************************************************************************)
(* The tables of names and numbers are added behind the profiles that were *)
(* read, which stay as they are (end of generate_profiles).                *)
(***************************************************************************)
LEMMA TablesAdded ==
  ASSUME NEW x \in DOMAIN Schemas, NEW csvs, NEW n \in Nat, NEW header, ReadSoFar(header, x, csvs, n),
         NEW names \in Seq(Nat), NEW ids \in Seq(Nat)
  PROVE  LET h == Finished(header, names, ids)
         IN ReadSoFar(h, x, csvs, n) /\ h.whole /\ h.names = names /\ h.ids = ids /\ Len(h.values) = n
<1> DEFINE h == Finished(header, names, ids)
<1>1. header \in ProfilesHeader(x)
  BY DEF ReadSoFar
<1>2. h \in ProfilesHeader(x) /\ h.whole = TRUE /\ h.names = names /\ h.ids = ids /\ h.values = header.values
  BY <1>1 DEF ProfilesHeader, Finished
<1> HIDE DEF h
<1>3. ReadSoFar(h, x, csvs, n)
  BY <1>2 DEF ReadSoFar
<1> QED BY <1>2, <1>3 DEF h, ReadSoFar

(***************************************************************************)
(* A turn of the loop over the profiles.                                   *)
(***************************************************************************)
LEMMA ProfileStep ==
  ASSUME BuildInv, GenerateOneProfile
  PROVE  BuildInv'
<1> DEFINE read == GenerateProfile(Xml, schemaVals, CsvFiles[Csvs[at.turn]])
           header == generated[at.dir].profiles
           h == [header EXCEPT !.values = Append(@, read.vals)]
<1>1. at.step = "profiles" /\ at.turn <= Len(Csvs) /\ build' = build
  BY DEF GenerateOneProfile
<1>2. /\ Underway /\ build \in Settings /\ at.dir \in 1..build.dirs /\ GeneratedTypeOK
      /\ at = [dir |-> at.dir, step |-> at.step, turn |-> at.turn]
      /\ Xml \in DOMAIN Schemas /\ Csvs \in Seq(DOMAIN CsvFiles) /\ Len(Csvs) \in 0..256
  BY <1>1, WhileUnderway
<1>3. read = ReadProfile(Xml, Csvs[at.turn])
  BY DEF GenerateProfile, ReadProfile
<1>4. at.turn \in 1..Len(Csvs) /\ ReadSoFar(header, Xml, Csvs, at.turn - 1)
  BY <1>1, <1>2 DEF Underway
<1>5. CASE read.err
  <2>1. Stop("failed") /\ generated' = generated
    BY <1>5 DEF GenerateOneProfile, Stop
  <2>2. GeneratedTypeOK'
    BY <1>2, <2>1 DEF GeneratedTypeOK
  <2> QED BY <1>1, <1>2, <2>1, <2>2, StopStep
<1>6. CASE ~read.err
  <2>1. PutHeader("profiles", h) /\ at' = [at EXCEPT !.turn = @ + 1] /\ returned' = returned
    BY <1>6 DEF GenerateOneProfile
  <2>2. ReadSoFar(h, Xml, Csvs, at.turn)
    <3> DEFINE x == Xml
               csvs == Csvs
               n == at.turn
    <3>1. /\ x \in DOMAIN Schemas /\ csvs \in Seq(DOMAIN CsvFiles) /\ n \in 1..Len(csvs)
          /\ ReadSoFar(header, x, csvs, n - 1) /\ ~ReadProfile(x, csvs[n]).err
      BY <1>2, <1>3, <1>4, <1>6
    <3>2. h = [header EXCEPT !.values = Append(@, ReadProfile(x, csvs[n]).vals)]
      BY <1>3
    <3> HIDE DEF x, csvs, n, header, h
    <3>3. ReadSoFar(h, x, csvs, n)
      BY <3>1, <3>2, OneMore
    <3> QED BY <3>3 DEF x, csvs, n
  <2>3. /\ GeneratedTypeOK' /\ generated'[at.dir].profiles = h
        /\ \A w \in {"client", "service", "data", "profiles"} : w # "profiles" => generated'[at.dir][w] = generated[at.dir][w]
        /\ \A j \in 1..(at.dir - 1) : DirDone(j)'
    <3> HIDE DEF h
    <3> QED BY <1>1, <2>1, HeaderWritten
  <2>4. at' = [dir |-> at.dir, step |-> "profiles", turn |-> at.turn + 1]
    BY <1>1, <1>2, <2>1
  <2>5. at'.dir = at.dir /\ Xml' = Xml /\ Csvs' = Csvs /\ Header(Xml)' = Header(Xml) /\ OptionsFit(at.dir)'
    BY <1>1, <1>2, <2>4 DEF Xml, Csvs, Header, OptionsFit, Underway
  <2>6. at.turn + 1 \in 1..(Len(Csvs) + 1) /\ (at.turn + 1) - 1 = at.turn
    BY <1>2, <1>4
  <2>7. Accepted' /\ returned' = "none"
    BY <1>1, <1>2, <2>1 DEF Underway, Accepted
  <2>8. /\ generated'[at.dir].client = Header(Xml) /\ generated'[at.dir].service = Header(Xml)
        /\ generated'[at.dir].data = Header(Xml) /\ Csvs # <<>>
    BY <1>1, <1>2, <2>3 DEF Underway
  <2>9. Underway'
    <3> HIDE DEF h, header, read
    <3>1. at'.step = "profiles" /\ at'.turn = at.turn + 1 /\ at'.turn - 1 = at.turn
      BY <2>4, <2>6
    <3>2. ReadSoFar(generated[at.dir].profiles, Xml, Csvs, at.turn - 1)'
      BY <2>2, <2>3, <2>5, <3>1
    <3>3. (at.turn \in 1..(Len(Csvs) + 1))'
      BY <2>5, <2>6, <3>1
    <3> QED BY <1>1, <1>2, <2>3, <2>5, <2>7, <2>8, <3>1, <3>2, <3>3 DEF Underway
  <2>10. BuildTypeOK'
    <3>1. at.dir \in Nat /\ at.turn + 1 \in Nat
      BY DEF BuildInv, BuildTypeOK
    <3> HIDE DEF h, header, read
    <3> QED BY <1>1, <1>2, <2>3, <2>4, <2>7, <3>1 DEF BuildTypeOK, GeneratedTypeOK
  <2> QED BY <2>4, <2>7, <2>9, <2>10 DEF BuildInv
<1> QED BY <1>5, <1>6

(***************************************************************************)
(* The end of the header of the profiles.                                  *)
(***************************************************************************)
LEMMA TablesStep ==
  ASSUME BuildInv, GenerateTables
  PROVE  BuildInv'
<1> DEFINE header == generated[at.dir].profiles
           count == Len(Csvs)
           names == ProfileNames(build.names[at.dir], count)
           ids == ProfileIds(build.ids[at.dir], count)
           h == Finished(header, names, ids)
<1>1. at.step = "profiles" /\ at.turn > count /\ build' = build /\ PutHeader("profiles", h) /\ NextDir
  BY DEF GenerateTables, Finished
<1>2. /\ Underway /\ build \in Settings /\ at.dir \in 1..build.dirs
      /\ Xml \in DOMAIN Schemas /\ count \in 0..256
  BY <1>1, WhileUnderway
<1>3. ReadSoFar(header, Xml, Csvs, count) /\ OptionsFit(at.dir)
  <2>1. at.turn \in 1..(count + 1) /\ ReadSoFar(header, Xml, Csvs, at.turn - 1) /\ OptionsFit(at.dir)
    BY <1>1, <1>2 DEF Underway
  <2>2. at.turn - 1 = count
    <3> HIDE DEF count
    <3> QED BY <1>1, <1>2, <2>1
  <2> QED BY <2>1, <2>2
<1>4. /\ names \in Seq(Nat) /\ ids \in Seq(Nat)
      /\ Len(names) = count /\ \A n \in DOMAIN names : names[n] = 2
      /\ Len(ids) = count /\ \A n \in DOMAIN ids : ids[n] \in 0..255
  <2> DEFINE ns == build.names[at.dir]
             is == build.ids[at.dir]
  <2>1. (ns = None \/ ns \in Seq(Nat)) /\ (is = None \/ is \in Seq([hex : BOOLEAN, number : Nat]))
    BY <1>2, AcceptedSettings DEF Underway
  <2>2. CheckNames(ns, count) /\ CheckIds(is, count)
    BY <1>3 DEF OptionsFit, Csvs
  <2> HIDE DEF ns, is, count
  <2>3. /\ ProfileNames(ns, count) \in Seq(Nat) /\ ProfileIds(is, count) \in Seq(Nat)
        /\ Len(ProfileNames(ns, count)) = count
        /\ \A n \in DOMAIN ProfileNames(ns, count) : ProfileNames(ns, count)[n] = 2
        /\ Len(ProfileIds(is, count)) = count
        /\ \A n \in DOMAIN ProfileIds(is, count) : ProfileIds(is, count)[n] \in 0..255
    BY <1>2, <2>1, <2>2, TablesMade
  <2> QED BY <2>3 DEF ns, is
<1>5. ReadSoFar(h, Xml, Csvs, count) /\ h.whole /\ TablesFit(h)
  <2>1. count \in Nat
    BY <1>2
  <2> DEFINE x == Xml
             csvs == Csvs
  <2>2. x \in DOMAIN Schemas /\ ReadSoFar(header, x, csvs, count) /\ names \in Seq(Nat) /\ ids \in Seq(Nat)
    BY <1>2, <1>3, <1>4
  <2> HIDE DEF names, ids, count, header, x, csvs
  <2>3. ReadSoFar(h, x, csvs, count) /\ h.whole /\ h.names = names /\ h.ids = ids /\ Len(h.values) = count
    BY <2>1, <2>2, TablesAdded
  <2> HIDE DEF h
  <2> QED BY <1>4, <2>3 DEF TablesFit, x, csvs
<1>6. /\ GeneratedTypeOK' /\ generated'[at.dir].profiles = h
      /\ \A w \in {"client", "service", "data", "profiles"} : w # "profiles" => generated'[at.dir][w] = generated[at.dir][w]
      /\ \A j \in 1..(at.dir - 1) : DirDone(j)'
  <2> HIDE DEF h
  <2> QED BY <1>1, HeaderWritten
<1>7. \A which \in {"client", "service", "data"} : generated'[at.dir][which] = Header(Xml)
  BY <1>1, <1>2, <1>6 DEF Underway
<1>8. AllDone(generated'[at.dir], Xml, Csvs)
  <2> HIDE DEF h
  <2> QED BY <1>5, <1>6, <1>7 DEF AllDone
<1>9. \A j \in 1..at.dir : DirDone(j)'
  <2>1. \A j \in {at.dir} : DirDone(j)'
    BY <1>1, <1>8 DEF DirDone, Xml, Csvs
  <2>2. at.dir \in Nat
    BY DEF BuildInv, BuildTypeOK
  <2>3. \A j \in 1..at.dir : j = at.dir \/ j \in 1..(at.dir - 1)
    BY <2>2
  <2> QED BY <1>6, <2>1, <2>3
<1> QED BY <1>1, <1>2, <1>6, <1>9, NextDirStep DEF Underway

(***************************************************************************)
(* The command is killed.                                                  *)
(***************************************************************************)
LEMMA KilledStep ==
  ASSUME BuildInv, Killed
  PROVE  BuildInv'
<1>1. at.step # "idle" /\ Stop("killed") /\ build' = build
  BY DEF Killed, Stop
<1>2. build \in Settings /\ GeneratedTypeOK /\ at.dir \in 1..MaxDirs
  BY <1>1, WhileUnderway
<1>3. GeneratedTypeOK'
  <2>1. CASE at.step \in {"check", "profiles"}
    <3>1. generated' = generated
      BY <2>1 DEF Killed
    <3> QED BY <1>2, <3>1 DEF GeneratedTypeOK
  <2>2. CASE at.step \notin {"check", "profiles"}
    <3> DEFINE h == [xml |-> Xml, whole |-> FALSE]
               which == at.step
    <3>1. PutHeader(which, h)
      BY <2>2 DEF Killed
    <3>2. which \in {"client", "service", "data", "profiles"}
      BY <1>1, <2>2 DEF BuildInv, BuildTypeOK
    <3> HIDE DEF h, which
    <3> QED BY <1>2, <3>1, <3>2, HeaderPut
  <2> QED BY <2>1, <2>2
<1> QED BY <1>1, <1>2, <1>3, StopStep

(***************************************************************************)
(* Every step of a build keeps its invariant, whether the command goes on, *)
(* fails or is killed.                                                     *)
(***************************************************************************)
LEMMA BuildStep ==
  ASSUME BuildInv, BuildNext
  PROVE  BuildInv'
<1>1. ASSUME NEW settings \in Settings, Start(settings) PROVE BuildInv'
  BY <1>1, StartStep
<1> QED BY <1>1, SourcesStep, DataStep, CheckStep, ProfileStep, TablesStep, KilledStep DEF BuildNext

-----------------------------------------------------------------------------
(* The platform *)

LEMMA ImageFacts ==
  ASSUME image.xml \in DOMAIN Schemas
  PROVE  /\ Count \in Nat \ {0} /\ DOMAIN Schemas[image.xml] = 1..Count
         /\ \A k \in 1..Count : SizeOf(k) \in Nat
         /\ GetConfPolicySize(image.xml) \in Nat
<1>1. /\ Count \in Nat \ {0} /\ DOMAIN Schemas[image.xml] = 1..Count
      /\ \A k \in 1..Count : SizeOf(k) \in Nat
  BY SchemasAssumption DEF Count, SizeOf, Knob
<1>2. ListEnds(image.xml) \in [0..Count -> Nat]
  BY ListEndsSteps DEF Count
<1> QED BY <1>1, <1>2 DEF GetConfPolicySize, Count

(***************************************************************************)
(* The bytes of the active profile, or of none, fit the knobs.             *)
(***************************************************************************)
LEMMA ProfileFits ==
  ASSUME ImageFits, NEW n \in 0..Len(image.csvs)
  PROVE  /\ DOMAIN ProfileBytes(n) = 1..Count
         /\ \A k \in 1..Count :
              /\ ProfileBytes(n)[k] \in BaseBytes(image.xml, k)
              /\ ProfileBytes(n)[k] \in Seq(Int) /\ Len(ProfileBytes(n)[k]) = SizeOf(k)
              /\ InBounds(image.xml, k, ProfileBytes(n)[k])
<1> DEFINE x == image.xml
           c == image.csvs[n]
<1>1. x \in DOMAIN Schemas /\ DOMAIN Schemas[x] = 1..Count
  BY ImageFacts DEF ImageFits
<1>2. ProfileBytes(n) = IF n = 0 THEN DefaultBytes[x] ELSE FileBytes(x, c)
  <2>1. CASE n = 0
    BY <2>1 DEF ProfileBytes
  <2>2. CASE n # 0
    <3>1. n \in 1..Len(image.csvs)
      BY <2>2 DEF ImageFits
    <3>2. image.profiles[n] = ReadProfile(x, c).vals
      BY <3>1 DEF ImageFits
    <3> QED BY <2>2, <3>2 DEF ProfileBytes, FileBytes
  <2> QED BY <2>1, <2>2
<1>3. DOMAIN DefaultBytes[x] = 1..Count /\ DOMAIN FileBytes(x, c) = 1..Count
  BY <1>1 DEF DefaultBytes, FileBytes, BytesOf
<1>4. n # 0 => c \in Readable(x)
  BY DEF ImageFits
<1>5. ASSUME NEW k \in 1..Count
      PROVE  ProfileBytes(n)[k] \in BaseBytes(x, k)
  BY <1>2, <1>4 DEF BaseBytes
<1>6. ASSUME NEW k \in 1..Count, NEW b \in BaseBytes(x, k)
      PROVE  b \in Seq(Int) /\ Len(b) = SizeOf(k) /\ InBounds(x, k, b)
  BY <1>1, ProfilesAssumption DEF SizeOf, Knob
<1>7. DOMAIN ProfileBytes(n) = 1..Count
  BY <1>2, <1>3
<1> HIDE DEF x
<1>8. \A k \in 1..Count :
        /\ ProfileBytes(n)[k] \in BaseBytes(x, k)
        /\ ProfileBytes(n)[k] \in Seq(Int) /\ Len(ProfileBytes(n)[k]) = SizeOf(k)
        /\ InBounds(x, k, ProfileBytes(n)[k])
  BY <1>5, <1>6
<1> QED BY <1>7, <1>8 DEF x

(***************************************************************************)
(* A variable that is copied over a buffer leaves it as long as it was.    *)
(***************************************************************************)
LEMMA OverlayFits ==
  ASSUME NEW var \in Seq(Int), NEW now \in Seq(Int), Len(var) <= Len(now)
  PROVE  /\ Overlaid(var, now) \in Seq(Int) /\ Len(Overlaid(var, now)) = Len(now)
         /\ Len(var) = Len(now) => Overlaid(var, now) = var
<1> DEFINE a == Len(var)
           b == Len(now)
           rest == SubSeq(now, a + 1, b)
<1>1. a \in Nat /\ b \in Nat /\ a <= b
  OBVIOUS
<1>2. \A i \in (a + 1)..b : now[i] \in Int
  <2>1. \A i \in (a + 1)..b : i \in 1..b
    BY <1>1
  <2>2. \A i \in 1..b : now[i] \in Int
    OBVIOUS
  <2> QED BY <2>1, <2>2
<1>3. rest \in Seq(Int) /\ Len(rest) = b - a
  <2>1. a + 1 \in Int /\ b \in Int /\ (IF a + 1 <= b THEN b - (a + 1) + 1 ELSE 0) = b - a
    BY <1>1
  <2> HIDE DEF a, b
  <2> QED BY <1>2, <2>1, SubSeqProperties
<1>4. Overlaid(var, now) = var \o rest
  BY DEF Overlaid
<1> HIDE DEF rest
<1>5. var \o rest \in Seq(Int) /\ Len(var \o rest) = a + (b - a)
  BY <1>3, ConcatProperties
<1>6. ASSUME a = b PROVE var \o rest = var
  <2>1. Len(rest) = 0
    BY <1>1, <1>3, <1>6
  <2>2. rest = <<>>
    BY <1>3, <2>1
  <2> QED BY <2>2
<1>7. a + (b - a) = b
  BY <1>1
<1> QED BY <1>4, <1>5, <1>6, <1>7

(***************************************************************************)
(* What a boot starts from.                                                *)
(***************************************************************************)
LEMMA DefaultFits ==
  ASSUME NEW x \in DOMAIN Schemas
  PROVE  /\ Len(Schemas[x]) \in Nat \ {0} /\ DOMAIN Schemas[x] = 1..Len(Schemas[x])
         /\ DOMAIN DefaultBytes[x] = 1..Len(Schemas[x])
         /\ \A k \in 1..Len(Schemas[x]) :
              DefaultBytes[x][k] \in Seq(Int) /\ Len(DefaultBytes[x][k]) = size_in_bytes(Schemas[x][k].fmt)
         /\ GetConfPolicySize(x) \in Nat
         /\ Filler(GetConfPolicySize(x)) \in Seq(Int) /\ Len(Filler(GetConfPolicySize(x))) = GetConfPolicySize(x)
<1>1. Len(Schemas[x]) \in Nat \ {0} /\ DOMAIN Schemas[x] = 1..Len(Schemas[x])
  BY SchemasAssumption
<1>2. DOMAIN DefaultBytes[x] = 1..Len(Schemas[x])
  BY <1>1 DEF DefaultBytes, BytesOf
<1>3. \A k \in 1..Len(Schemas[x]) :
        DefaultBytes[x][k] \in Seq(Int) /\ Len(DefaultBytes[x][k]) = size_in_bytes(Schemas[x][k].fmt)
  <2>1. \A k \in DOMAIN Schemas[x] : DefaultBytes[x][k] \in BaseBytes(x, k)
    BY DEF BaseBytes
  <2> QED BY <1>1, <2>1, ProfilesAssumption
<1>4. GetConfPolicySize(x) \in Nat
  BY <1>1, ListEndsSteps DEF GetConfPolicySize
<1> DEFINE n == GetConfPolicySize(x)
<1> HIDE DEF n
<1>5. n \in Nat
  BY <1>4 DEF n
<1>6. Filler(n) \in Seq(Int) /\ Len(Filler(n)) = n
  BY <1>5 DEF Filler
<1> QED BY <1>1, <1>2, <1>3, <1>5, <1>6 DEF n

(***************************************************************************)
(* A boot starts from the defaults of the data header, without a policy, a *)
(* cache or a call of a getter.                                            *)
(***************************************************************************)
LEMMA BootStep ==
  ASSUME ImageFits', NEW x, image'.xml = x,
         DOMAIN nvram' = 1..Len(Schemas[x]), \A k \in 1..Len(Schemas[x]) : nvram'[k] = None \/ nvram'[k] \in Blobs[x][k],
         Boot(x)
  PROVE  PlatformInv'
<1>1. x \in DOMAIN Schemas
  BY DEF ImageFits
<1>2. /\ Len(Schemas[x]) \in Nat \ {0} /\ DOMAIN DefaultBytes[x] = 1..Len(Schemas[x])
      /\ \A k \in 1..Len(Schemas[x]) :
           DefaultBytes[x][k] \in Seq(Int) /\ Len(DefaultBytes[x][k]) = size_in_bytes(Schemas[x][k].fmt)
      /\ Filler(GetConfPolicySize(x)) \in Seq(Int) /\ Len(Filler(GetConfPolicySize(x))) = GetConfPolicySize(x)
  BY <1>1, DefaultFits
<1>3. /\ knobValues' = DefaultBytes[x] /\ policy' = None /\ got' = None
      /\ creator' = [step |-> "profile", at |-> 1, size |-> 0, status |-> "none", profile |-> 0, took |-> {}]
      /\ cached' = [signed |-> FALSE, bytes |-> Filler(GetConfPolicySize(x)), beyond |-> {}]
  BY DEF Boot, Booting, NoCache
<1>4. Count' = Len(Schemas[x]) /\ \A k : SizeOf(k)' = size_in_bytes(Schemas[x][k].fmt)
  BY DEF Count, SizeOf, Knob
<1>5. ProfileBytes(0)' = DefaultBytes[x]
  BY DEF ProfileBytes
<1>6. PlatformTypeOK'
  <2>1. 1 \in 1..Len(Schemas[x]) /\ 0 \in 0..Len(image.csvs)' /\ {} \subseteq 1..1
    BY <1>2 DEF ImageFits
  <2> QED BY <1>2, <1>3, <1>4, <2>1 DEF PlatformTypeOK
<1>7. KnobsFit'
  BY <1>3, <1>4, <1>5 DEF KnobsFit
<1>8. CacheFits'
  BY <1>2, <1>3 DEF CacheFits
<1> QED BY <1>6, <1>7, <1>8 DEF PlatformInv

(***************************************************************************)
(* While the firmware stays, so does all that follows from it.             *)
(***************************************************************************)
LEMMA SameImage ==
  ASSUME image' = image
  PROVE  /\ Count' = Count /\ \A k : SizeOf(k)' = SizeOf(k)
         /\ \A n : ProfileBytes(n)' = ProfileBytes(n)
         /\ ImageFits => ImageFits'
<1>1. Count' = Count /\ \A k : SizeOf(k)' = SizeOf(k)
  BY DEF Count, SizeOf, Knob
<1>2. \A n : ProfileBytes(n)' = ProfileBytes(n)
  BY DEF ProfileBytes
<1>3. ImageFits => ImageFits'
  BY DEF ImageFits
<1> QED BY <1>1, <1>2, <1>3

(***************************************************************************)
(* A step of the creator goes on to the next knob.                         *)
(***************************************************************************)
LEMMA NextKnobFits ==
  ASSUME PlatformInv, image # None, NEW status, creator' = NextKnob(status)
  PROVE  /\ creator'.step \in {"size", "publish"} /\ creator'.at \in 1..Count /\ creator'.size \in Nat
         /\ creator'.profile = creator.profile /\ creator'.took = creator.took /\ creator'.took \subseteq 1..creator'.at
         /\ creator' = [step |-> creator'.step, at |-> creator'.at, size |-> creator'.size, status |-> creator'.status,
                        profile |-> creator'.profile, took |-> creator'.took]
         /\ creator'.step = "size" => creator'.at \notin creator'.took
<1>1. /\ creator.at \in 1..Count /\ creator.size \in Nat /\ creator.took \subseteq 1..creator.at
      /\ creator = [step |-> creator.step, at |-> creator.at, size |-> creator.size, status |-> creator.status,
                    profile |-> creator.profile, took |-> creator.took]
      /\ image.xml \in DOMAIN Schemas
  BY DEF PlatformInv, PlatformTypeOK, ImageFits
<1>2. Count \in Nat
  BY <1>1, ImageFacts
<1>3. CASE creator.at = Count
  <2>1. creator' = [step |-> "publish", at |-> creator.at, size |-> creator.size, status |-> status,
                    profile |-> creator.profile, took |-> creator.took]
    BY <1>1, <1>3 DEF NextKnob
  <2> QED BY <1>1, <2>1
<1>4. CASE creator.at # Count
  <2>1. creator' = [step |-> "size", at |-> creator.at + 1, size |-> creator.size, status |-> status,
                    profile |-> creator.profile, took |-> creator.took]
    BY <1>1, <1>4 DEF NextKnob
  <2>2. creator.at + 1 \in 1..Count /\ creator.at + 1 \notin 1..creator.at /\ 1..creator.at \subseteq 1..(creator.at + 1)
    BY <1>1, <1>2, <1>4
  <2> QED BY <1>1, <2>1, <2>2
<1> QED BY <1>3, <1>4

(***************************************************************************)
(* Before the creator is done, nothing of this boot is published or read.  *)
(***************************************************************************)
LEMMA CacheStays ==
  ASSUME PlatformInv, image # None, image' = image, policy' = policy, cached' = cached, got' = got,
         creator.step # "done", creator'.step # "done"
  PROVE  CacheFits'
<1>1. CacheFits
  BY DEF PlatformInv
<1>2. policy = None
  BY <1>1 DEF CacheFits
<1> QED BY <1>1, <1>2 DEF CacheFits

(***************************************************************************)
(* The creator takes the overrides of a profile, or of none: no knob is    *)
(* taken from a variable yet.                                              *)
(***************************************************************************)
LEMMA ApplyProfileStep ==
  ASSUME PlatformInv, image # None, ApplyProfile
  PROVE  PlatformInv'
<1>1. ImageFits /\ PlatformTypeOK /\ KnobsFit /\ CacheFits
  BY DEF PlatformInv
<1>2. PICK n \in 0..Len(image.profiles) :
        knobValues' = ProfileBytes(n) /\ creator' = [creator EXCEPT !.step = "size", !.profile = n]
  BY DEF ApplyProfile
<1>3. creator.step = "profile" /\ image' = image /\ nvram' = nvram /\ policy' = policy /\ cached' = cached /\ got' = got
  BY DEF ApplyProfile
<1>4. n \in 0..Len(image.csvs) /\ creator.took = {}
  BY <1>1, <1>3 DEF ImageFits, KnobsFit
<1>5. creator' = [step |-> "size", at |-> creator.at, size |-> creator.size, status |-> creator.status,
                  profile |-> n, took |-> creator.took]
  BY <1>1, <1>2 DEF PlatformTypeOK
<1>6. /\ DOMAIN ProfileBytes(n) = 1..Count
      /\ \A k \in 1..Count : ProfileBytes(n)[k] \in Seq(Int) /\ Len(ProfileBytes(n)[k]) = SizeOf(k)
  BY <1>1, <1>4, ProfileFits
<1>7. Count' = Count /\ (\A k : SizeOf(k)' = SizeOf(k)) /\ (\A m : ProfileBytes(m)' = ProfileBytes(m)) /\ ImageFits'
  BY <1>1, <1>3, SameImage
<1>8. PlatformTypeOK'
  BY <1>1, <1>2, <1>3, <1>4, <1>5, <1>6, <1>7 DEF PlatformTypeOK
<1>9. KnobsFit'
  BY <1>2, <1>4, <1>5, <1>7 DEF KnobsFit
<1>10. CacheFits'
  BY <1>3, <1>5, CacheStays
<1> QED BY <1>7, <1>8, <1>9, <1>10 DEF PlatformInv

(***************************************************************************)
(* Steps of the creator that leave the values alone and go on to the next  *)
(* knob.                                                                   *)
(***************************************************************************)
LEMMA SkipStep ==
  ASSUME PlatformInv, image # None, creator.step \in {"size", "data"}, NEW status, creator' = NextKnob(status),
         UNCHANGED <<image, nvram, knobValues, policy, cached, got>>
  PROVE  PlatformInv'
<1>1. ImageFits /\ PlatformTypeOK /\ KnobsFit /\ CacheFits
  BY DEF PlatformInv
<1>2. /\ creator'.step \in {"size", "publish"} /\ creator'.at \in 1..Count /\ creator'.size \in Nat
      /\ creator'.profile = creator.profile /\ creator'.took = creator.took /\ creator'.took \subseteq 1..creator'.at
      /\ creator' = [step |-> creator'.step, at |-> creator'.at, size |-> creator'.size, status |-> creator'.status,
                     profile |-> creator'.profile, took |-> creator'.took]
      /\ creator'.step = "size" => creator'.at \notin creator'.took
  BY NextKnobFits
<1>3. Count' = Count /\ (\A k : SizeOf(k)' = SizeOf(k)) /\ (\A m : ProfileBytes(m)' = ProfileBytes(m)) /\ ImageFits'
  BY <1>1, SameImage
<1>4. PlatformTypeOK'
  BY <1>1, <1>2, <1>3 DEF PlatformTypeOK
<1>5. KnobsFit'
  BY <1>1, <1>2, <1>3 DEF KnobsFit
<1>6. CacheFits'
  BY <1>2, CacheStays
<1> QED BY <1>3, <1>4, <1>5, <1>6 DEF PlatformInv

(***************************************************************************)
(* The first half of GetConfigKnobOverride: only a variable of the size of *)
(* the knob is read at all.                                                *)
(***************************************************************************)
LEMMA ReadSizeStep ==
  ASSUME PlatformInv, image # None, ReadSize
  PROVE  PlatformInv'
<1>1. ImageFits /\ PlatformTypeOK /\ KnobsFit /\ CacheFits
  BY DEF PlatformInv
<1>2. creator.step = "size" /\ UNCHANGED <<image, nvram, knobValues, policy, cached, got>>
  BY DEF ReadSize
<1>3. CASE nvram[creator.at] = None
  <2>1. creator' = NextKnob("not_found")
    BY <1>3 DEF ReadSize
  <2> QED BY <1>2, <2>1, SkipStep
<1>4. CASE nvram[creator.at] # None /\ Len(nvram[creator.at]) # SizeOf(creator.at)
  <2>1. creator' = NextKnob("bad_buffer_size")
    BY <1>4 DEF ReadSize
  <2> QED BY <1>2, <2>1, SkipStep
<1>5. CASE nvram[creator.at] # None /\ Len(nvram[creator.at]) = SizeOf(creator.at)
  <2>1. creator' = [creator EXCEPT !.step = "data", !.size = SizeOf(creator.at)]
    BY <1>5 DEF ReadSize
  <2>2. creator' = [step |-> "data", at |-> creator.at, size |-> SizeOf(creator.at), status |-> creator.status,
                    profile |-> creator.profile, took |-> creator.took]
    BY <1>1, <2>1 DEF PlatformTypeOK
  <2>3. Count' = Count /\ (\A k : SizeOf(k)' = SizeOf(k)) /\ (\A m : ProfileBytes(m)' = ProfileBytes(m)) /\ ImageFits'
    BY <1>1, <1>2, SameImage
  <2>4. SizeOf(creator.at) \in Nat
    BY <1>1, ImageFacts DEF ImageFits, PlatformTypeOK
  <2>5. PlatformTypeOK'
    BY <1>1, <1>2, <2>2, <2>3, <2>4 DEF PlatformTypeOK
  <2>6. KnobsFit'
    <3>1. creator'.size = SizeOf(creator.at)'
      BY <2>2, <2>3
    <3> QED BY <1>1, <1>2, <2>2, <2>3, <3>1 DEF KnobsFit
  <2>7. CacheFits'
    BY <1>2, <2>2, CacheStays
  <2> QED BY <2>3, <2>5, <2>6, <2>7 DEF PlatformInv
<1> QED BY <1>3, <1>4, <1>5

(***************************************************************************)
(* The second half of GetConfigKnobOverride: what it takes fits the knob.  *)
(***************************************************************************)
LEMMA ReadDataStep ==
  ASSUME PlatformInv, image # None, ReadData
  PROVE  PlatformInv'
<1> DEFINE a == creator.at
           x == image.xml
           var == nvram[a]
           now == knobValues[a]
           fits == var # None /\ Len(var) <= creator.size
<1>1. ImageFits /\ PlatformTypeOK /\ KnobsFit /\ CacheFits
  BY DEF PlatformInv
<1>2. creator.step = "data" /\ UNCHANGED <<image, nvram, policy, cached, got>>
  BY DEF ReadData
<1>3. CASE ~fits
  <2>1. knobValues' = knobValues /\ \E status : creator' = NextKnob(status)
    BY <1>3 DEF ReadData
  <2>2. PICK status : creator' = NextKnob(status)
    BY <2>1
  <2> QED BY <1>2, <2>1, <2>2, SkipStep
<1>4. CASE fits
  <2>1. /\ knobValues' = [knobValues EXCEPT ![a] = Overlaid(var, now)]
        /\ creator' = [creator EXCEPT !.step = "validate", !.size = Len(var), !.took = @ \union {creator.at}]
    BY <1>4 DEF ReadData, Took
  <2>2. /\ a \in 1..Count /\ DOMAIN knobValues = 1..Count /\ creator.size = SizeOf(a) /\ a \notin creator.took
        /\ x \in DOMAIN Schemas
    BY <1>1, <1>2 DEF PlatformTypeOK, KnobsFit, ImageFits
  <2>3. var \in Blobs[x][a] /\ var \in Seq(Int) /\ now \in Seq(Int) /\ Len(now) = SizeOf(a)
    <3>1. var \in Blobs[x][a] /\ now \in Seq(Int) /\ Len(now) = SizeOf(a)
      BY <1>1, <1>4, <2>2 DEF PlatformTypeOK
    <3>2. a \in DOMAIN Schemas[x]
      BY <2>2, ImageFacts
    <3> QED BY <2>2, <3>1, <3>2, BlobsAssumption DEF BlobsAssumption
  <2>4. now \in BaseBytes(x, a)
    <3>1. now = ProfileBytes(creator.profile)[a] /\ creator.profile \in 0..Len(image.csvs)
      BY <1>1, <2>2 DEF KnobsFit, PlatformTypeOK
    <3> QED BY <1>1, <2>2, <3>1, ProfileFits
  <2> DEFINE new == Overlaid(var, now)
  <2>5. new \in Seq(Int) /\ Len(new) = SizeOf(a)
    <3>1. Len(var) <= Len(now)
      BY <1>4, <2>2, <2>3
    <3> HIDE DEF var, now
    <3> QED BY <2>3, <3>1, OverlayFits
  <2>6. new \in StoredBytes(x, a)
    <3>1. Len(var) <= size_in_bytes(Schemas[x][a].fmt)
      BY <1>4, <2>2 DEF SizeOf, Knob
    <3> HIDE DEF var, now, x, a
    <3> QED BY <2>3, <2>4, <3>1 DEF StoredBytes
  <2>7. creator' = [step |-> "validate", at |-> a, size |-> Len(var), status |-> creator.status,
                    profile |-> creator.profile, took |-> creator.took \union {a}]
    BY <1>1, <2>1 DEF PlatformTypeOK
  <2>8. Count' = Count /\ (\A k : SizeOf(k)' = SizeOf(k)) /\ (\A m : ProfileBytes(m)' = ProfileBytes(m)) /\ ImageFits'
    BY <1>1, <1>2, SameImage
  <2>9. /\ DOMAIN knobValues' = 1..Count /\ knobValues'[a] = new
        /\ \A k \in 1..Count : k # a => knobValues'[k] = knobValues[k]
    <3>1. knobValues' = [knobValues EXCEPT ![a] = new]
      BY <2>1
    <3> HIDE DEF new
    <3> QED BY <2>2, <3>1
  <2>10. Len(var) \in Nat /\ creator.took \union {a} \subseteq 1..a
    BY <1>1, <2>2, <2>3 DEF PlatformTypeOK
  <2> HIDE DEF new, var, now
  <2>11. PlatformTypeOK'
    BY <1>1, <1>2, <2>2, <2>5, <2>7, <2>8, <2>9, <2>10 DEF PlatformTypeOK
  <2>12. KnobsFit'
    BY <1>1, <1>2, <2>2, <2>6, <2>7, <2>8, <2>9 DEF KnobsFit
  <2>13. CacheFits'
    BY <1>2, <2>7, CacheStays
  <2> QED BY <2>8, <2>11, <2>12, <2>13 DEF PlatformInv
<1> QED BY <1>3, <1>4

(***************************************************************************)
(* An override is accepted or set back to the default.                     *)
(***************************************************************************)
LEMMA ValidateStep ==
  ASSUME PlatformInv, image # None, Validate
  PROVE  PlatformInv'
<1> DEFINE a == creator.at
           x == image.xml
           valid == ValidateKnobContent(x, a, ValueOf(x, a, knobValues[a]))
<1>1. ImageFits /\ PlatformTypeOK /\ KnobsFit /\ CacheFits
  BY DEF PlatformInv
<1>2. /\ creator.step = "validate" /\ UNCHANGED <<image, nvram, policy, cached, got>>
      /\ creator' = NextKnob("success")
      /\ knobValues' = IF valid THEN knobValues ELSE [knobValues EXCEPT ![a] = DefaultBytes[x][a]]
  BY DEF Validate
<1>3. /\ creator'.step \in {"size", "publish"} /\ creator'.at \in 1..Count /\ creator'.size \in Nat
      /\ creator'.profile = creator.profile /\ creator'.took = creator.took /\ creator'.took \subseteq 1..creator'.at
      /\ creator' = [step |-> creator'.step, at |-> creator'.at, size |-> creator'.size, status |-> creator'.status,
                     profile |-> creator'.profile, took |-> creator'.took]
      /\ creator'.step = "size" => creator'.at \notin creator'.took
  BY <1>2, NextKnobFits
<1>4. Count' = Count /\ (\A k : SizeOf(k)' = SizeOf(k)) /\ (\A m : ProfileBytes(m)' = ProfileBytes(m)) /\ ImageFits'
  BY <1>1, <1>2, SameImage
<1>5. a \in 1..Count /\ a \in creator.took /\ DOMAIN knobValues = 1..Count /\ x \in DOMAIN Schemas
  BY <1>1, <1>2 DEF PlatformTypeOK, KnobsFit, ImageFits
<1>6. DefaultBytes[x][a] \in Seq(Int) /\ Len(DefaultBytes[x][a]) = SizeOf(a)
  BY <1>5, DefaultFits DEF Count, SizeOf, Knob
<1>7. /\ DOMAIN knobValues' = 1..Count
      /\ \A k \in 1..Count : k # a => knobValues'[k] = knobValues[k]
      /\ knobValues'[a] = DefaultBytes[x][a] \/ (knobValues'[a] = knobValues[a] /\ valid)
  <2>1. CASE valid
    BY <1>2, <1>5, <2>1
  <2>2. CASE ~valid
    <3>1. knobValues' = [knobValues EXCEPT ![a] = DefaultBytes[x][a]]
      BY <1>2, <2>2
    <3> HIDE DEF a, x
    <3> QED BY <1>5, <3>1
  <2> QED BY <2>1, <2>2
<1>8. knobValues'[a] \in Seq(Int) /\ Len(knobValues'[a]) = SizeOf(a)
  BY <1>1, <1>5, <1>6, <1>7 DEF PlatformTypeOK
<1>9. PlatformTypeOK'
  <2> HIDE DEF valid, a, x
  <2> QED BY <1>1, <1>2, <1>3, <1>4, <1>7, <1>8 DEF PlatformTypeOK, x
<1>10. KnobsFit'
  <2> SUFFICES ASSUME NEW k \in 1..Count
               PROVE  (IF k \notin creator.took THEN knobValues[k] = ProfileBytes(creator.profile)[k]
                       ELSE \/ knobValues[k] = DefaultBytes[image.xml][k]
                            \/ /\ knobValues[k] \in StoredBytes(image.xml, k)
                               /\ \/ creator.step = "validate" /\ k = creator.at
                                  \/ ValidateKnobContent(image.xml, k, ValueOf(image.xml, k, knobValues[k])))'
    BY <1>3, <1>4 DEF KnobsFit
  <2>1. CASE k = a
    <3>1. \/ knobValues'[a] = DefaultBytes[x][a]
          \/ knobValues'[a] \in StoredBytes(x, a) /\ ValidateKnobContent(x, a, ValueOf(x, a, knobValues'[a]))
      BY <1>1, <1>5, <1>7 DEF KnobsFit
    <3> QED BY <1>2, <1>3, <1>5, <2>1, <3>1
  <2>2. CASE k # a
    BY <1>1, <1>2, <1>3, <1>4, <1>7, <2>2 DEF KnobsFit
  <2> QED BY <2>1, <2>2
<1>11. CacheFits'
  BY <1>2, <1>3, CacheStays
<1> QED BY <1>4, <1>9, <1>10, <1>11 DEF PlatformInv

(***************************************************************************)
(* The policy that is published holds every knob where its getter looks,   *)
(* or is of another build and has another size.                            *)
(***************************************************************************)
LEMMA PublishStep ==
  ASSUME PlatformInv, image # None, Publish
  PROVE  PlatformInv'
<1>1. ImageFits /\ PlatformTypeOK /\ KnobsFit /\ CacheFits
  BY DEF PlatformInv
<1>2. /\ creator.step = "publish" /\ UNCHANGED <<image, nvram, knobValues, cached, got>>
      /\ creator' = [creator EXCEPT !.step = "done"]
      /\ policy' \in {PolicyOf(knobValues)} \union OtherPolicies
  BY DEF Publish
<1>3. creator' = [step |-> "done", at |-> creator.at, size |-> creator.size, status |-> creator.status,
                  profile |-> creator.profile, took |-> creator.took]
  BY <1>1, <1>2 DEF PlatformTypeOK
<1>4. Count' = Count /\ (\A k : SizeOf(k)' = SizeOf(k)) /\ (\A m : ProfileBytes(m)' = ProfileBytes(m)) /\ ImageFits'
  BY <1>1, <1>2, SameImage
<1>5. PlatformTypeOK'
  BY <1>1, <1>2, <1>3, <1>4 DEF PlatformTypeOK
<1>6. KnobsFit'
  BY <1>1, <1>2, <1>3, <1>4 DEF KnobsFit
<1>7. image.xml \in DOMAIN Schemas /\ \A k \in 1..Count : knobValues[k] \in Seq(Int) /\ Len(knobValues[k]) = SizeOf(k)
  BY <1>1 DEF ImageFits, PlatformTypeOK
<1>8. /\ policy' \in Seq(Int) /\ policy' # None
      /\ Len(policy') = GetConfPolicySize(image.xml) =>
           \A k \in 1..Count :
             LET from == GetterOffset(image.xml, k) IN SubSeq(policy', from + 1, from + SizeOf(k)) = knobValues[k]
  <2>1. CASE policy' = PolicyOf(knobValues)
    BY <1>7, <2>1, PolicyLayout, BlobsAssumption DEF BlobsAssumption
  <2>2. CASE policy' \in OtherPolicies
    BY <1>7, <2>2, BlobsAssumption DEF BlobsAssumption
  <2> QED BY <1>2, <2>1, <2>2
<1>9. CacheFits'
  <2>1. (policy # None => policy \in Seq(Int) /\ (Len(policy) = GetConfPolicySize(image.xml) => PolicyHolds))'
    BY <1>2, <1>4, <1>8 DEF PolicyHolds
  <2> QED BY <1>1, <1>2, <1>3, <1>8, <2>1 DEF CacheFits
<1> QED BY <1>4, <1>5, <1>6, <1>9 DEF PlatformInv

(***************************************************************************)
(* What init_config_policy_cache makes of the cache.                       *)
(***************************************************************************)
LEMMA CacheFilled ==
  ASSUME NEW x \in DOMAIN Schemas, NEW cache, NEW p, p = None \/ p \in Seq(Int),
         cache.bytes \in Seq(Int), Len(cache.bytes) = GetConfPolicySize(x)
  PROVE  LET r == InitConfigPolicyCache(x, cache, p)
         IN \/ r.status # "success" /\ r.cache = cache
            \/ /\ r.status = "success" /\ p # None /\ p \in Seq(Int)
               /\ r.cache = [signed |-> r.cache.signed, bytes |-> r.cache.bytes, beyond |-> r.cache.beyond]
               /\ r.cache.signed = (Len(p) = GetConfPolicySize(x))
               /\ r.cache.bytes \in Seq(Int) /\ Len(r.cache.bytes) = GetConfPolicySize(x)
               /\ Len(p) = GetConfPolicySize(x) => r.cache.bytes = p
<1> DEFINE size == GetConfPolicySize(x)
           r == InitConfigPolicyCache(x, cache, p)
<1>1. size \in Nat /\ None \notin Seq(Int)
  BY DefaultFits, BlobsAssumption DEF BlobsAssumption
<1>2. CASE p = None
  <2>1. r = [status |-> "not_found", cache |-> cache]
    BY <1>2 DEF InitConfigPolicyCache
  <2> QED BY <2>1
<1>3. CASE p # None /\ Len(p) > size + CachedPolicyHeaderSize
  <2>1. p \in Seq(Int)
    BY <1>3
  <2>2. Len(p) \in Nat /\ ~(Len(p) <= size + CachedPolicyHeaderSize)
    <3> DEFINE n == Len(p)
    <3>1. n \in Nat
      BY <2>1
    <3> HIDE DEF n, size
    <3> QED BY <1>1, <1>3, <3>1 DEF n, CachedPolicyHeaderSize
  <2>3. r = [status |-> "too_small", cache |-> cache]
    BY <1>3, <2>2 DEF InitConfigPolicyCache
  <2> QED BY <2>3
<1>4. CASE p # None /\ ~(Len(p) > size + CachedPolicyHeaderSize)
  <2> DEFINE rest == SubSeq(cache.bytes, Len(p) + 1, size)
             all == p \o rest
             new == SubSeq(all, 1, size)
             over == cache.beyond \union (size + 1)..Len(p)
  <2>1. p \in Seq(Int) /\ Len(p) \in Nat
    BY <1>4
  <2>2. Len(p) <= size + CachedPolicyHeaderSize
    BY <1>1, <1>4, <2>1 DEF CachedPolicyHeaderSize
  <2>3. r = [status |-> "success", cache |-> [signed |-> Len(p) = size, bytes |-> new, beyond |-> over]]
    BY <1>4, <2>2 DEF InitConfigPolicyCache
  <2>4. rest \in Seq(Int) /\ Len(rest) = IF Len(p) + 1 <= size THEN size - Len(p) ELSE 0
    <3> DEFINE m == Len(p) + 1
               b == cache.bytes
    <3>1. m \in Int /\ size \in Int /\ m >= 1 /\ b \in Seq(Int) /\ Len(b) = size
      BY <1>1, <2>1
    <3> HIDE DEF m, size, b
    <3>2. \A i \in m..size : b[i] \in Int
      <4>1. \A i \in m..size : i \in 1..Len(b)
        BY <3>1
      <4> QED BY <3>1, <4>1, ElementOfSeq
    <3>3. SubSeq(b, m, size) \in Seq(Int) /\ Len(SubSeq(b, m, size)) = IF m <= size THEN size - m + 1 ELSE 0
      BY <3>1, <3>2, SubSeqProperties
    <3>4. size - m + 1 = size - Len(p)
      BY <2>1, <3>1 DEF m
    <3> QED BY <3>3, <3>4 DEF m, b
  <2>5. all \in Seq(Int) /\ Len(all) = Len(p) + Len(rest) /\ Len(rest) \in Nat
    <3>1. p \in Seq(Int) /\ rest \in Seq(Int)
      BY <2>1, <2>4
    <3> HIDE DEF rest
    <3>2. p \o rest \in Seq(Int) /\ Len(p \o rest) = Len(p) + Len(rest)
      BY <3>1, ConcatProperties
    <3> QED BY <3>1, <3>2
  <2>6. Len(all) >= size
    <3> HIDE DEF rest, all, size
    <3> QED BY <1>1, <2>1, <2>4, <2>5
  <2>7. new \in Seq(Int) /\ Len(new) = size /\ \A i \in 1..size : new[i] = all[i]
    <3> HIDE DEF all, size
    <3>1. \A i \in 1..size : i \in 1..Len(all)
      BY <1>1, <2>5, <2>6
    <3>2. \A i \in 1..size : all[i] \in Int
      BY <2>5, <3>1, ElementOfSeq
    <3>3. /\ new \in Seq(Int) /\ Len(new) = IF 1 <= size THEN size - 1 + 1 ELSE 0
          /\ \A i \in 1..(size - 1 + 1) : new[i] = all[1 + i - 1]
      BY <1>1, <3>2, SubSeqProperties
    <3>4. size - 1 + 1 = size /\ (IF 1 <= size THEN size ELSE 0) = size /\ \A i \in 1..size : 1 + i - 1 = i
      BY <1>1
    <3> HIDE DEF new
    <3> QED BY <3>3, <3>4
  <2>8. ASSUME Len(p) = size PROVE new = p
    <3>1. Len(rest) = 0
      <4> HIDE DEF rest, size
      <4> QED BY <1>1, <2>4, <2>8
    <3>2. rest = <<>>
      <4> HIDE DEF rest
      <4> QED BY <2>4, <3>1
    <3>3. all = p
      <4> HIDE DEF rest
      <4> QED BY <2>1, <3>2
    <3> HIDE DEF new, all, size
    <3>4. Len(new) = Len(p) /\ \A i \in 1..Len(new) : new[i] = p[i]
      BY <2>7, <2>8, <3>3
    <3> QED BY <2>1, <2>7, <3>4, SeqEqual
  <2> HIDE DEF new, over, r, size
  <2>9. r.status = "success" /\ r.cache.signed = (Len(p) = size) /\ r.cache.bytes = new /\ r.cache.beyond = over
    BY <2>3
  <2>10. r.cache = [signed |-> r.cache.signed, bytes |-> r.cache.bytes, beyond |-> r.cache.beyond]
    BY <2>3
  <2> QED BY <1>4, <2>1, <2>7, <2>8, <2>9, <2>10 DEF r, size
<1> QED BY <1>2, <1>3, <1>4

(***************************************************************************)
(* A call of a getter.                                                     *)
(***************************************************************************)
LEMMA GetStep ==
  ASSUME PlatformInv, image # None, NEW k \in 1..Count, Get(k)
  PROVE  PlatformInv'
<1> DEFINE x == image.xml
           size == GetConfPolicySize(x)
           from == GetterOffset(x, k)
           init == IF cached.signed THEN [status |-> "success", cache |-> cached]
                   ELSE InitConfigPolicyCache(x, cached, policy)
           call == ConfigGet(x, k, cached, policy)
<1>1. ImageFits /\ PlatformTypeOK /\ KnobsFit /\ CacheFits
  BY DEF PlatformInv
<1>2. /\ UNCHANGED <<image, nvram, knobValues, creator, policy>>
      /\ cached' = call.cache /\ got' = [at |-> k, status |-> call.status, data |-> call.data]
  BY DEF Get
<1>3. call = [status |-> IF init.status # "success" THEN init.status
                         ELSE IF from + SizeOf(k) > size THEN "compromised" ELSE "success",
              cache |-> init.cache,
              data |-> SubSeq(init.cache.bytes, from + 1, from + SizeOf(k))]
  BY DEF ConfigGet, SizeOf, Knob
<1>4. /\ x \in DOMAIN Schemas /\ (policy = None \/ policy \in Seq(Int))
      /\ cached.bytes \in Seq(Int) /\ Len(cached.bytes) = size
  BY <1>1 DEF ImageFits, CacheFits
<1>5. /\ init.cache = [signed |-> init.cache.signed, bytes |-> init.cache.bytes, beyond |-> init.cache.beyond]
      /\ init.cache.signed \in BOOLEAN /\ init.cache.bytes \in Seq(Int) /\ Len(init.cache.bytes) = size
      /\ init.cache.signed => policy # None /\ init.cache.bytes = policy
      /\ init.status = "success" => policy # None /\ (Len(policy) = size => init.cache.bytes = policy)
  <2>1. CASE cached.signed
    <3>1. init.status = "success" /\ init.cache = cached
      BY <2>1
    <3> HIDE DEF init
    <3> QED BY <1>1, <1>4, <2>1, <3>1 DEF CacheFits
  <2>2. CASE ~cached.signed
    <3> DEFINE r == InitConfigPolicyCache(x, cached, policy)
    <3>1. init = r
      BY <2>2
    <3>2. \/ r.status # "success" /\ r.cache = cached
          \/ /\ r.status = "success" /\ policy # None /\ policy \in Seq(Int)
             /\ r.cache = [signed |-> r.cache.signed, bytes |-> r.cache.bytes, beyond |-> r.cache.beyond]
             /\ r.cache.signed = (Len(policy) = size)
             /\ r.cache.bytes \in Seq(Int) /\ Len(r.cache.bytes) = size
             /\ Len(policy) = size => r.cache.bytes = policy
      <4> HIDE DEF x
      <4> QED BY <1>4, CacheFilled
    <3> HIDE DEF init, r, size
    <3>3. CASE r.status # "success" /\ r.cache = cached
      BY <1>1, <1>4, <2>2, <3>1, <3>3 DEF CacheFits
    <3>4. CASE ~(r.status # "success" /\ r.cache = cached)
      BY <3>1, <3>2, <3>4
    <3> QED BY <3>3, <3>4
  <2> QED BY <2>1, <2>2
<1>6. /\ cached' = init.cache
      /\ got' = [at |-> k, status |-> call.status, data |-> SubSeq(init.cache.bytes, from + 1, from + SizeOf(k))]
      /\ call.status = "success" => init.status = "success"
  <2> HIDE DEF init, call
  <2> QED BY <1>2, <1>3
<1> HIDE DEF init, call, size, from
<1>7. Count' = Count /\ (\A j : SizeOf(j)' = SizeOf(j)) /\ (\A m : ProfileBytes(m)' = ProfileBytes(m)) /\ ImageFits'
  BY <1>1, <1>2, SameImage
<1>8. PlatformTypeOK' /\ KnobsFit'
  BY <1>1, <1>2, <1>7 DEF PlatformTypeOK, KnobsFit
<1>9. ASSUME got'.status = "success"
      PROVE  policy # None /\ (Len(policy) = size => got'.at = k /\ got'.data = knobValues[k])
  <2>1. policy # None /\ (Len(policy) = size => init.cache.bytes = policy)
    BY <1>5, <1>6, <1>9
  <2>2. Len(policy) = size => SubSeq(policy, from + 1, from + SizeOf(k)) = knobValues[k]
    BY <1>1, <2>1 DEF CacheFits, PolicyHolds, size, from
  <2> QED BY <1>6, <2>1, <2>2
<1>10. CacheFits'
  <2>1. (policy # None => policy \in Seq(Int) /\ (Len(policy) = GetConfPolicySize(image.xml) => PolicyHolds))'
    BY <1>1, <1>2, <1>7 DEF CacheFits, PolicyHolds
  <2> QED BY <1>1, <1>2, <1>5, <1>6, <1>7, <1>9, <2>1 DEF CacheFits, size
<1> QED BY <1>7, <1>8, <1>10 DEF PlatformInv

(***************************************************************************)
(* Other code writes or deletes a variable.                                *)
(***************************************************************************)
LEMMA SetVariableStep ==
  ASSUME PlatformInv, image # None, NEW k \in 1..Count, NEW blob \in Blobs[image.xml][k] \union {None},
         SetVariable(k, blob)
  PROVE  PlatformInv'
<1>1. ImageFits /\ PlatformTypeOK /\ KnobsFit /\ CacheFits
  BY DEF PlatformInv
<1>2. nvram' = [nvram EXCEPT ![k] = blob] /\ UNCHANGED <<image, knobValues, creator, policy, cached, got>>
  BY DEF SetVariable
<1>3. Count' = Count /\ (\A j : SizeOf(j)' = SizeOf(j)) /\ (\A m : ProfileBytes(m)' = ProfileBytes(m)) /\ ImageFits'
  BY <1>1, <1>2, SameImage
<1>4. PlatformTypeOK'
  BY <1>1, <1>2, <1>3 DEF PlatformTypeOK
<1>5. KnobsFit'
  BY <1>1, <1>2, <1>3 DEF KnobsFit
<1>6. CacheFits'
  <2>1. (policy # None => policy \in Seq(Int) /\ (Len(policy) = GetConfPolicySize(image.xml) => PolicyHolds))'
    BY <1>1, <1>2, <1>3 DEF CacheFits, PolicyHolds
  <2> QED BY <1>1, <1>2, <1>3, <2>1 DEF CacheFits
<1> QED BY <1>3, <1>4, <1>5, <1>6 DEF PlatformInv

-----------------------------------------------------------------------------
(* The firmware *)

LEMMA PlatformStep ==
  ASSUME PlatformInv, PlatformNext
  PROVE  PlatformInv'
<1>1. image # None
  BY DEF PlatformNext
<1>2. ASSUME Reset PROVE PlatformInv'
  <2>1. ImageFits /\ PlatformTypeOK
    BY <1>1 DEF PlatformInv
  <2>2. image' = image /\ nvram' = nvram /\ Boot(image.xml)
    BY <1>2 DEF Reset
  <2>3. ImageFits'
    BY <2>1, <2>2, SameImage
  <2> DEFINE x == image.xml
  <2>4. /\ image'.xml = x /\ Boot(x) /\ DOMAIN nvram' = 1..Len(Schemas[x])
        /\ \A k \in 1..Len(Schemas[x]) : nvram'[k] = None \/ nvram'[k] \in Blobs[x][k]
    BY <2>1, <2>2 DEF PlatformTypeOK, Count
  <2> HIDE DEF x
  <2> QED BY <2>3, <2>4, BootStep
<1>3. ASSUME NEW k \in 1..Count, Get(k) PROVE PlatformInv'
  BY <1>1, <1>3, GetStep
<1>4. ASSUME NEW k \in 1..Count, NEW blob \in Blobs[image.xml][k] \union {None}, SetVariable(k, blob) PROVE PlatformInv'
  BY <1>1, <1>4, SetVariableStep
<1> QED BY <1>1, <1>2, <1>3, <1>4, ApplyProfileStep, ReadSizeStep, ReadDataStep, ValidateStep, PublishStep DEF PlatformNext

(***************************************************************************)
(* The firmware is made of the headers of a directory that is done.        *)
(***************************************************************************)
LEMMA ShipStep ==
  ASSUME BuildInv, Ship
  PROVE  BuildInv' /\ PlatformInv'
<1>1. PICK i \in 1..build.dirs : Flash(BuiltFrom(i))
  BY DEF Ship
<1>2. Accepted /\ DirDone(i)
  BY DEF Ship, BuildInv
<1>3. build.xmls[i] \in DOMAIN Schemas /\ build.csvs[i] \in Seq(DOMAIN CsvFiles) /\ Len(build.csvs[i]) \in 0..256
  BY <1>2, AcceptedSettings
<1> DEFINE x == build.xmls[i]
           csvs == build.csvs[i]
           headers == generated[i]
<1>4. AllDone(headers, x, csvs)
  BY <1>2 DEF DirDone
<1>5. /\ image'.xml = headers.data.xml /\ image'.csvs = csvs
      /\ image'.profiles = IF csvs = <<>> THEN <<>> ELSE headers.profiles.values
      /\ nvram' = [k \in DOMAIN Schemas[image'.xml] |-> None] /\ Boot(image'.xml)
  BY <1>1 DEF Flash, BuiltFrom
<1> HIDE DEF x, csvs, headers
<1>6. headers.data.xml = x
  BY <1>4 DEF AllDone, Header
<1>7. x \in DOMAIN Schemas /\ csvs \in Seq(DOMAIN CsvFiles)
  BY <1>3 DEF x, csvs
<1>8. ImageFits'
  <2>1. CASE csvs = <<>>
    <3>1. Len(csvs) = 0 /\ image'.profiles = <<>>
      BY <1>5, <2>1
    <3> QED BY <1>5, <1>6, <1>7, <2>1, <3>1 DEF ImageFits
  <2>2. CASE csvs # <<>>
    <3>1. image'.profiles = headers.profiles.values
      BY <1>5, <2>2
    <3>2. /\ Len(headers.profiles.values) = Len(csvs)
          /\ \A m \in 1..Len(csvs) :
               csvs[m] \in Readable(x) /\ headers.profiles.values[m] = ReadProfile(x, csvs[m]).vals
      BY <1>4, <2>2 DEF AllDone, ReadSoFar
    <3> QED BY <1>5, <1>6, <1>7, <3>1, <3>2 DEF ImageFits
  <2> QED BY <2>1, <2>2
<1>9. PlatformInv'
  <2>1. DOMAIN Schemas[x] = 1..Len(Schemas[x])
    BY <1>7, DefaultFits
  <2>2. /\ image'.xml = x /\ Boot(x) /\ DOMAIN nvram' = 1..Len(Schemas[x])
        /\ \A k \in 1..Len(Schemas[x]) : nvram'[k] = None \/ nvram'[k] \in Blobs[x][k]
    BY <1>5, <1>6, <2>1
  <2> QED BY <1>8, <2>2, BootStep
<1>10. BuildInv'
  <2>1. /\ build' = None /\ at' = Idle /\ returned' = "none"
        /\ generated' = [j \in 1..MaxDirs |-> NoHeaders]
    BY DEF Ship
  <2>2. BuildTypeOK'
    BY <2>1 DEF BuildTypeOK, Idle, NoHeaders
  <2> QED BY <2>1, <2>2 DEF BuildInv, Idle
<1> QED BY <1>9, <1>10

(***************************************************************************)
(* What a running platform keeps: the directories of the builds.           *)
(***************************************************************************)
LEMMA BuildKept ==
  ASSUME BuildInv, UNCHANGED buildVars
  PROVE  BuildInv'
<1>1. build' = build /\ at' = at /\ generated' = generated /\ returned' = returned
  BY DEF buildVars
<1>2. BuildTypeOK' /\ Accepted' = Accepted
  BY <1>1 DEF BuildInv, BuildTypeOK, Accepted
<1>3. \A i : DirDone(i)' = DirDone(i) /\ OptionsFit(i)' = OptionsFit(i)
  BY <1>1 DEF DirDone, OptionsFit
<1>4. Xml' = Xml /\ Csvs' = Csvs
  BY <1>1 DEF Xml, Csvs
<1>5. Underway => Underway'
  BY <1>1, <1>2, <1>3, <1>4 DEF Underway
<1> QED BY <1>1, <1>2, <1>3, <1>5 DEF BuildInv

(***************************************************************************)
(* A build, which does not touch a platform, keeps what holds of it.       *)
(***************************************************************************)
LEMMA PlatformKept ==
  ASSUME PlatformInv, UNCHANGED platformVars
  PROVE  PlatformInv'
<1>1. /\ image' = image /\ nvram' = nvram /\ knobValues' = knobValues /\ creator' = creator
      /\ policy' = policy /\ cached' = cached /\ got' = got
  BY DEF platformVars
<1> SUFFICES ASSUME image # None PROVE PlatformInv'
  BY <1>1 DEF PlatformInv
<1>2. ImageFits /\ PlatformTypeOK /\ KnobsFit /\ CacheFits
  BY DEF PlatformInv
<1>3. Count' = Count /\ (\A k : SizeOf(k)' = SizeOf(k)) /\ (\A m : ProfileBytes(m)' = ProfileBytes(m)) /\ ImageFits'
  BY <1>1, <1>2, SameImage
<1>4. PlatformTypeOK' /\ KnobsFit'
  BY <1>1, <1>2, <1>3 DEF PlatformTypeOK, KnobsFit
<1>5. CacheFits'
  BY <1>1, <1>2, <1>3 DEF CacheFits, PolicyHolds
<1> QED BY <1>3, <1>4, <1>5 DEF PlatformInv

(***************************************************************************)
(* A running platform stays flashed; one that is flashed starts without a  *)
(* policy.                                                                 *)
(***************************************************************************)
LEMMA NothingYetStays ==
  ASSUME NothingYet, [Next]_vars
  PROVE  NothingYet'
<1>1. ASSUME UNCHANGED platformVars PROVE NothingYet'
  BY <1>1 DEF platformVars, NothingYet
<1>2. ASSUME Ship PROVE NothingYet'
  BY <1>2 DEF Ship, Flash, Boot, NothingYet
<1>3. ASSUME PlatformNext PROVE image' = image /\ image # None
  <2>1. ASSUME NEW k \in 1..Count, Get(k) PROVE image' = image
    BY <2>1 DEF Get
  <2>2. ASSUME NEW k \in 1..Count, NEW blob, SetVariable(k, blob) PROVE image' = image
    BY <2>2 DEF SetVariable
  <2>3. Reset \/ ApplyProfile \/ ReadSize \/ ReadData \/ Validate \/ Publish => image' = image
    BY DEF Reset, ApplyProfile, ReadSize, ReadData, Validate, Publish
  <2> QED BY <1>3, <2>1, <2>2, <2>3 DEF PlatformNext
<1> QED BY <1>1, <1>2, <1>3 DEF Next, vars, NothingYet

(***************************************************************************)
(* No build has run and nothing is flashed.                                *)
(***************************************************************************)
LEMMA InitFits ==
  ASSUME Init
  PROVE  IInv
<1>1. BuildInv
  BY DEF Init, BuildInit, BuildInv, BuildTypeOK, Idle, NoHeaders
<1>2. PlatformInv
  BY DEF Init, PlatformInit, PlatformInv
<1>3. NothingYet
  BY DEF Init, PlatformInit, NothingYet
<1> QED BY <1>1, <1>2, <1>3 DEF IInv

(***************************************************************************)
(* Every step of builds and platform keeps the invariant.                  *)
(***************************************************************************)
LEMMA NextFits ==
  ASSUME IInv, [Next]_vars
  PROVE  IInv'
<1>0. BuildInv /\ PlatformInv /\ NothingYet
  BY DEF IInv
<1>1. ASSUME image = None, BuildNext, UNCHANGED platformVars PROVE BuildInv' /\ PlatformInv'
  <2>1. BuildInv'
    BY <1>0, <1>1, BuildStep
  <2>2. PlatformInv'
    BY <1>0, <1>1, PlatformKept
  <2> QED BY <2>1, <2>2
<1>2. ASSUME Ship PROVE BuildInv' /\ PlatformInv'
  BY <1>0, <1>2, ShipStep
<1>3. ASSUME PlatformNext, UNCHANGED buildVars PROVE BuildInv' /\ PlatformInv'
  <2>1. PlatformInv'
    BY <1>0, <1>3, PlatformStep
  <2>2. BuildInv'
    BY <1>0, <1>3, BuildKept
  <2> QED BY <2>1, <2>2
<1>4. ASSUME UNCHANGED vars PROVE BuildInv' /\ PlatformInv'
  <2>1. BuildInv'
    BY <1>0, <1>4, BuildKept DEF vars
  <2>2. PlatformInv'
    BY <1>0, <1>4, PlatformKept DEF vars
  <2> QED BY <2>1, <2>2
<1> QED BY <1>0, <1>1, <1>2, <1>3, <1>4, NothingYetStays DEF Next, IInv

(***************************************************************************)
(* The inductive invariant: the headers of a build in each of its states,  *)
(* and what variables, creator, policy and driver have.                    *)
(***************************************************************************)
THEOREM FirmwareInductive == Spec => []IInv
<1>1. Init => IInv
  BY InitFits
<1>2. IInv /\ [Next]_vars => IInv'
  BY NextFits
<1> QED BY <1>1, <1>2, PTL DEF Spec

(***************************************************************************)
(* A build that succeeds leaves matching headers that compile, whatever    *)
(* builds before it left, as long as the names are not passed unchanged:   *)
(* do_pre_build of UpdateConfigHdr.py never gives its command -nc.         *)
(***************************************************************************)
LEMMA BuildMatchesFollows ==
  ASSUME NoChange = FALSE, BuildInv
  PROVE  BuildMatches
<1> SUFFICES ASSUME returned = "ok" PROVE BuildMatches
  BY DEF BuildMatches
<1>1. Accepted /\ \A j \in 1..build.dirs : DirDone(j)
  BY DEF BuildInv
<1>2. Len(build.xmls) = build.dirs
  BY <1>1 DEF Accepted
<1>3. ASSUME NEW i \in 1..build.dirs
      PROVE  /\ \A which \in {"client", "service", "data"} : generated[i][which] = Header(build.xmls[i])
             /\ build.csvs[i] # <<>> =>
                  /\ generated[i].profiles # None /\ generated[i].profiles.whole /\ generated[i].profiles.xml = build.xmls[i]
                  /\ Len(generated[i].profiles.values) = Len(build.csvs[i])
                  /\ TablesFit(generated[i].profiles)
             /\ Compiles(build.xmls[i], IF build.csvs[i] = <<>> THEN <<>> ELSE generated[i].profiles.values)
  <2> DEFINE x == build.xmls[i]
             csvs == build.csvs[i]
             headers == generated[i]
  <2>1. x \in DOMAIN Schemas
    BY <1>1, AcceptedSettings
  <2>2. AllDone(headers, x, csvs)
    BY <1>1 DEF DirDone
  <2> HIDE DEF x, csvs, headers
  <2>3. \A which \in {"client", "service", "data"} : headers[which] = Header(x)
    BY <2>2 DEF AllDone
  <2>4. ASSUME csvs # <<>>
        PROVE  /\ headers.profiles # None /\ headers.profiles.whole /\ headers.profiles.xml = x
               /\ Len(headers.profiles.values) = Len(csvs) /\ TablesFit(headers.profiles)
    <3>1. headers.profiles \in ProfilesHeader(x) /\ Len(headers.profiles.values) = Len(csvs)
      BY <2>2, <2>4 DEF AllDone, ReadSoFar
    <3>2. headers.profiles # None /\ headers.profiles.xml = x
      BY <2>1, <3>1, SettingsAssumption DEF SettingsAssumption, ProfilesHeader
    <3> QED BY <2>2, <2>4, <3>1, <3>2 DEF AllDone
  <2>5. \A values : Compiles(x, values)
    BY <2>1, UsedIsDeclared, DataIsDeclared DEF Compiles
  <2> QED BY <2>3, <2>4, <2>5 DEF x, csvs, headers
<1> QED BY <1>2, <1>3 DEF BuildMatches

(***************************************************************************)
(* BuildMatches for every build of the plugin (do_pre_build and main of    *)
(* KnobService.py), whatever builds before it left in the directories.     *)
(***************************************************************************)
THEOREM FirmwareBuildMatches ==
  ASSUME NoChange = FALSE
  PROVE  Spec => []BuildMatches
<1>1. IInv => BuildMatches
  BY BuildMatchesFollows DEF IInv
<1> QED BY <1>1, FirmwareInductive, PTL

(***************************************************************************)
(* A published value is one the tools would accept: the generated          *)
(* validators are sound whatever the variables hold.                       *)
(***************************************************************************)
LEMMA PolicyInBoundsFollows ==
  ASSUME IInv
  PROVE  PolicyInBounds
<1> SUFFICES ASSUME Published, NEW k \in 1..Count
             PROVE  InBounds(image.xml, k, knobValues[k])
  BY DEF PolicyInBounds
<1>1. image # None
  BY DEF IInv, NothingYet, Published
<1>2. ImageFits /\ PlatformTypeOK /\ KnobsFit
  BY <1>1 DEF IInv, PlatformInv
<1>3. creator.step = "done" /\ creator.profile \in 0..Len(image.csvs)
  BY <1>2 DEF Published, PlatformTypeOK
<1>4. image.xml \in DOMAIN Schemas /\ k \in DOMAIN Schemas[image.xml] /\ 0 \in 0..Len(image.csvs)
  BY <1>2, ImageFacts DEF ImageFits
<1>5. CASE k \notin creator.took
  <2>1. knobValues[k] = ProfileBytes(creator.profile)[k]
    BY <1>2, <1>5 DEF KnobsFit
  <2> QED BY <1>2, <1>3, <2>1, ProfileFits
<1>6. CASE knobValues[k] = DefaultBytes[image.xml][k]
  <2>1. knobValues[k] = ProfileBytes(0)[k]
    BY <1>6 DEF ProfileBytes
  <2> QED BY <1>2, <1>4, <2>1, ProfileFits
<1>7. CASE /\ knobValues[k] \in StoredBytes(image.xml, k)
           /\ ValidateKnobContent(image.xml, k, ValueOf(image.xml, k, knobValues[k]))
  BY <1>4, <1>7, ValidatorSound
<1> QED BY <1>2, <1>3, <1>5, <1>6, <1>7 DEF KnobsFit

(***************************************************************************)
(* PolicyInBounds for every schema: the generated validators               *)
(* (validate_knob_content_ and validate_enum_value_) stand between every   *)
(* variable and the policy.                                                *)
(***************************************************************************)
THEOREM FirmwarePolicyInBounds == Spec => []PolicyInBounds
<1>1. IInv => PolicyInBounds
  BY PolicyInBoundsFollows
<1> QED BY <1>1, FirmwareInductive, PTL

(***************************************************************************)
(* A getter that succeeds hands out the bytes the creator published for    *)
(* its knob; unless a variable was taken, those of the CSV file of the     *)
(* active profile, whatever profiles were read before it.                  *)
(***************************************************************************)
LEMMA GetterReadsKnobFollows ==
  ASSUME IInv
  PROVE  GetterReadsKnob
<1> SUFFICES ASSUME got # None, got.status = "success", policy # None => Len(policy) = GetConfPolicySize(image.xml)
             PROVE  /\ Published /\ got.data = knobValues[got.at]
                    /\ got.at \notin creator.took => got.data = PromisedBytes(got.at)
  BY DEF GetterReadsKnob
<1> DEFINE x == image.xml
           p == creator.profile
           k == got.at
<1>1. image # None
  BY DEF IInv, NothingYet
<1>2. ImageFits /\ PlatformTypeOK /\ KnobsFit /\ CacheFits
  BY <1>1 DEF IInv, PlatformInv
<1>3. Published /\ k \in 1..Count /\ got.data = knobValues[k]
  BY <1>2 DEF CacheFits, Published
<1>4. ASSUME k \notin creator.took
      PROVE  knobValues[k] = PromisedBytes(k)
  <2>1. knobValues[k] = ProfileBytes(p)[k] /\ p \in 0..Len(image.csvs)
    BY <1>2, <1>3, <1>4 DEF KnobsFit, PlatformTypeOK
  <2>2. CASE p = 0
    BY <2>1, <2>2 DEF ProfileBytes, PromisedBytes
  <2>3. CASE p # 0
    <3> DEFINE c == image.csvs[p]
    <3>1. p \in 1..Len(image.csvs)
      BY <1>2, <2>1, <2>3 DEF ImageFits
    <3>2. c \in Readable(x) /\ image.profiles[p] = ReadProfile(x, c).vals /\ x \in DOMAIN Schemas
      BY <1>2, <3>1 DEF ImageFits
    <3>3. ProfileBytes(p)[k] = FileBytes(x, c)[k]
      BY <2>3, <3>2 DEF ProfileBytes, FileBytes
    <3>4. k \in DOMAIN Schemas[x]
      BY <1>3, <3>2, ImageFacts
    <3>5. FileBytes(x, c)[k] = ListedBytes(x, k, ListOf[c][x])
      <4> HIDE DEF x, k, c
      <4> QED BY <3>2, <3>4, ProfilesAssumption
    <3> QED BY <2>1, <2>3, <3>3, <3>5 DEF PromisedBytes
  <2> QED BY <2>2, <2>3
<1> QED BY <1>3, <1>4

(***************************************************************************)
(* GetterReadsKnob for every schema: the offsets and sizes of              *)
(* write_uefi_getter_implementations and the cache of                      *)
(* init_config_policy_cache find each knob in the policy.                  *)
(***************************************************************************)
THEOREM FirmwareGetterReadsKnob == Spec => []GetterReadsKnob
<1>1. IInv => GetterReadsKnob
  BY GetterReadsKnobFollows
<1> QED BY <1>1, FirmwareInductive, PTL

(***************************************************************************)
(* A variable is taken as a whole or not at all, unless it has become      *)
(* shorter since its size was read.                                        *)
(***************************************************************************)
THEOREM FirmwareOverrideWhole == Spec => OverrideWhole
<1> DEFINE Whole == ReadData => \/ knobValues' = knobValues \/ knobValues'[creator.at] = nvram[creator.at]
                               \/ Len(nvram[creator.at]) < creator.size
<1>1. ASSUME IInv, [Next]_vars
      PROVE  [Whole]_platformVars
  <2> SUFFICES ASSUME ReadData, ~UNCHANGED platformVars PROVE Whole
    OBVIOUS
  <2> DEFINE a == creator.at
             var == nvram[a]
             now == knobValues[a]
  <2>1. image # None
    BY <1>1 DEF ReadData, IInv, NothingYet, Booting
  <2>2. PlatformTypeOK /\ KnobsFit /\ ImageFits
    BY <1>1, <2>1 DEF IInv, PlatformInv
  <2>3. CASE ~(var # None /\ Len(var) <= creator.size)
    BY <2>3 DEF ReadData
  <2>4. CASE var # None /\ Len(var) <= creator.size
    <3>1. knobValues' = [knobValues EXCEPT ![a] = Overlaid(var, now)]
      BY <2>4 DEF ReadData
    <3>2. a \in 1..Count /\ DOMAIN knobValues = 1..Count /\ creator.size = SizeOf(a)
      BY <2>2 DEF PlatformTypeOK, KnobsFit, ReadData
    <3>3. now \in Seq(Int) /\ Len(now) = creator.size
      BY <2>2, <3>2 DEF PlatformTypeOK
    <3>4. var \in Seq(Int)
      <4>1. var \in Blobs[image.xml][a]
        BY <2>2, <2>4, <3>2 DEF PlatformTypeOK
      <4>2. image.xml \in DOMAIN Schemas /\ a \in DOMAIN Schemas[image.xml]
        BY <2>2, <3>2, ImageFacts DEF ImageFits
      <4> QED BY <4>1, <4>2, BlobsAssumption DEF BlobsAssumption
    <3>5. knobValues'[a] = Overlaid(var, now)
      BY <3>1, <3>2
    <3>6. CASE Len(var) = creator.size
      <4> HIDE DEF var, now
      <4>1. Overlaid(var, now) = var
        BY <2>4, <3>3, <3>4, <3>6, OverlayFits
      <4> QED BY <3>5, <4>1 DEF var
    <3>7. CASE Len(var) # creator.size
      <4>1. Len(var) \in Nat /\ creator.size \in Nat
        <5> HIDE DEF var
        <5> QED BY <2>2, <3>4 DEF PlatformTypeOK
      <4>2. Len(var) < creator.size
        BY <2>4, <3>7, <4>1
      <4> QED BY <4>2
    <3> QED BY <3>6, <3>7
  <2> QED BY <2>3, <2>4
<1>2. IInv /\ [Next]_vars => [Whole]_platformVars
  BY <1>1
<1> QED BY <1>2, FirmwareInductive, PTL DEF Spec, OverrideWhole
===============================================================================
