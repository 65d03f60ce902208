----------------------------- MODULE VfrXml_proofs -----------------------------
(***************************************************************************)
(* Proof of FirstPassAgrees for any blocks, files and numbers of members:  *)
(* block by block, a default that was not lost is the one that all blocks  *)
(* parsed so far have in common.                                           *)
(***************************************************************************)
EXTENDS VfrXml, Induction_proofs

(***************************************************************************)
(* The inductive invariant: while the files are parsed for the first time, *)
(* what FirstPassAgrees says of all blocks holds of those parsed so far.   *)
(***************************************************************************)
Before(p, f, i) == p[1] < f \/ (p[1] = f /\ p[2] < i)
Parsed == IF step \in {"write", "parse"} THEN {p \in Places : Before(p, file, next)} ELSE Places
ParsedOf(m) == {p \in Parsed : BlockAt(p).member = m}

IsFirst(b, w) == b.flagged # <<>> /\ Head(b.flagged).value = w
AllSay(b, w) == \A n \in DOMAIN b.flagged : b.flagged[n].value = w
Unwritten(S) == \A p \in S : BlockAt(p).given = None
Common(S, w) == \E p \in S : IsFirst(BlockAt(p), w) /\ \A q \in S \ {p} : AllSay(BlockAt(q), w)

TypeInv ==
  /\ files \in Seq(Seq(Blocks)) /\ file \in 0..Len(files) /\ next \in Nat \ {0}
  /\ step \in {"write", "parse", "validate", "reparse", "compare", "done"} /\ again \in BOOLEAN
  /\ step \in {"write", "parse"} => ~again
  /\ step \in {"reparse", "compare", "done"} => again
  /\ step = "write" => file = 0 /\ text = <<>>
  /\ step = "parse" => text = IF file = 0 THEN <<>> ELSE files[file]

MembersInv == DOMAIN defaults = {BlockAt(p).member : p \in Parsed} /\ repeated \subseteq DOMAIN defaults
CommonInv ==
  \A m \in DOMAIN defaults :
    defaults[m] # Empty /\ Unwritten(ParsedOf(m)) => Common(ParsedOf(m), defaults[m])

IInv == TypeInv /\ (~again => MembersInv /\ CommonInv)

-----------------------------------------------------------------------------
(***************************************************************************)
(* The DEFAULT options of a block leave a repeated member no default when  *)
(* it is first parsed, unless they all say the one it has.                 *)
(***************************************************************************)
LEMMA FlagsAgree ==
  ASSUME NEW flagged \in Seq(Options), NEW current, FlagsOfRepeated("parse", flagged, current) # Empty
  PROVE  /\ FlagsOfRepeated("parse", flagged, current) = current
         /\ \A n \in 1..Len(flagged) : flagged[n].value = current
<1> DEFINE N == Len(flagged)
           S == Texts \union {Empty, current}
           Turn(n, c) == FlagOfRepeated("parse", flagged[n].value, c)
           G == [p \in (1..N) \X S |-> Turn(p[1], p[2])]
           Eq(h) == h = [n \in 0..N |-> IF n = 0 THEN current ELSE Turn(n, h[n - 1])]
           a == CHOOSE h : Eq(h)
<1>1. N \in Nat /\ \A n \in 1..N : flagged[n].value \in Texts
  BY BlocksAssumption
<1>2. \A n \in 1..N : \A c \in S : Turn(n, c) \in S
  BY <1>1 DEF FlagOfRepeated
<1>3. FlagsOfRepeated("parse", flagged, current) = FixUp(a[N])
  BY DEF FlagsOfRepeated
<1>4. current \in S
  OBVIOUS
<1>5. \A n \in 1..N : \A c : Turn(n, c) # Empty => Turn(n, c) = c /\ flagged[n].value = c
  BY DEF FlagOfRepeated
<1> HIDE DEF N, S, Turn
<1>6. IsStep(G, N, S)
  <2>1. \A p \in (1..N) \X S : Turn(p[1], p[2]) \in S
    BY <1>2
  <2> QED BY <2>1 DEF IsStep
<1>7. PICK f : IsIteration(f, N, S, current, G)
  <2> HIDE DEF G
  <2> QED BY <1>1, <1>4, <1>6, BoundedRecursion
<1>8. f \in [0..N -> S] /\ f[0] = current /\ \A n \in 1..N : f[n] = G[<<n, f[n - 1]>>]
  <2> HIDE DEF G
  <2> QED BY <1>7 DEF IsIteration
<1>9. \A n \in 1..N : f[n] = Turn(n, f[n - 1])
  <2>1. \A n \in 1..N : n - 1 \in 0..N /\ <<n, f[n - 1]>> \in (1..N) \X S
    BY <1>1, <1>8
  <2> QED BY <1>8, <2>1
<1>10. Eq(f)
  <2>1. \A n \in 0..N : n = 0 \/ n \in 1..N
    BY <1>1
  <2> QED BY <1>8, <1>9, <2>1
<1>11. Eq(a)
  <2> HIDE DEF Eq
  <2> QED BY <1>10
<1>12. a[0] = current /\ \A n \in 1..N : a[n] = Turn(n, a[n - 1])
  <2> HIDE DEF a
  <2>1. \A n \in 1..N : n \in 0..N /\ n # 0
    BY <1>1
  <2> QED BY <1>1, <1>11, <2>1
<1> DEFINE w == a[N]
           T == {n \in 0..N : a[N - n] = w}
<1>13. w # Empty /\ FixUp(w) = w
  <2> HIDE DEF a
  <2> QED BY <1>3 DEF FixUp
<1> HIDE DEF Eq, a, G
<1>14. 0..N \subseteq T
  <2>1. 0 \in T
    BY <1>1
  <2>2. ASSUME NEW n \in 1..N, n - 1 \in T PROVE n \in T
    <3>1. N - (n - 1) \in 1..N /\ N - (n - 1) - 1 = N - n /\ n \in 0..N
      BY <1>1
    <3>2. a[N - (n - 1)] = w
      BY <2>2
    <3>3. a[N - n] = w
      <4> HIDE DEF T
      <4> QED BY <3>1, <3>2, <1>12, <1>13, <1>5
    <3> QED BY <3>1, <3>3
  <2> HIDE DEF T
  <2> QED BY <1>1, <2>1, <2>2, BoundedInduction
<1>15. \A n \in 0..N : a[n] = w
  <2>1. \A n \in 0..N : N - n \in 0..N /\ N - (N - n) = n
    BY <1>1
  <2> QED BY <1>14, <2>1
<1>16. w = current
  <2> HIDE DEF w
  <2> QED BY <1>1, <1>12, <1>15
<1>17. \A n \in 1..N : flagged[n].value = w
  <2> HIDE DEF w, T
  <2>1. \A n \in 1..N : n \in 0..N /\ n - 1 \in 0..N
    BY <1>1
  <2> QED BY <2>1, <1>5, <1>12, <1>13, <1>15
<1> QED BY <1>3, <1>13, <1>16, <1>17 DEF N

(***************************************************************************)
(* Where blocks stand.                                                     *)
(***************************************************************************)
LEMMA PlacesAre ==
  ASSUME files \in Seq(Seq(Blocks))
  PROVE  Places = {p \in Nat \X Nat : p[1] \in DOMAIN files /\ p[2] \in DOMAIN files[p[1]]}
<1>1. \A f \in DOMAIN files : f \in Nat /\ files[f] \in Seq(Blocks)
  OBVIOUS
<1>2. \A f \in DOMAIN files : \A i \in DOMAIN files[f] : i \in Nat
  BY <1>1
<1>3. \A p : p \in Places <=> \E f \in DOMAIN files : \E i \in DOMAIN files[f] : p = <<f, i>>
  BY DEF Places
<1> QED BY <1>1, <1>2, <1>3

(***************************************************************************)
(* At first nothing is parsed.                                             *)
(***************************************************************************)
LEMMA FirstInit == Init => IInv
<1> SUFFICES ASSUME Init PROVE IInv
  OBVIOUS
<1>1. TypeInv
  <2>1. <<>> \in Seq(Seq(Blocks)) /\ Len(<<>>) = 0
    OBVIOUS
  <2>2. files \in Seq(Seq(Blocks)) /\ file \in 0..Len(files) /\ next \in Nat \ {0}
    BY <2>1 DEF Init
  <2> QED BY <2>2 DEF Init, TypeInv
<1>2. Parsed = {}
  BY DEF Init, Parsed, Places
<1>3. MembersInv /\ CommonInv
  BY <1>2 DEF Init, MembersInv, CommonInv
<1> QED BY <1>1, <1>3 DEF IInv

(***************************************************************************)
(* As long as the parsed blocks and what is found stay as they are, so do  *)
(* the facts about them.                                                   *)
(***************************************************************************)
LEMMA SameParsed ==
  ASSUME MembersInv, CommonInv, Parsed' = Parsed, UNCHANGED defaults, UNCHANGED repeated,
         \A p \in Parsed : BlockAt(p)' = BlockAt(p)
  PROVE  MembersInv' /\ CommonInv'
<1>1. {BlockAt(p).member : p \in Parsed}' = {BlockAt(p).member : p \in Parsed}
  OBVIOUS
<1>2. MembersInv'
  BY <1>1 DEF MembersInv
<1>3. ASSUME NEW m PROVE ParsedOf(m)' = ParsedOf(m) /\ \A p \in ParsedOf(m) : BlockAt(p)' = BlockAt(p)
  BY DEF ParsedOf
<1>4. ASSUME NEW m, NEW w PROVE Unwritten(ParsedOf(m))' => Unwritten(ParsedOf(m))
  BY <1>3 DEF Unwritten
<1>5. ASSUME NEW m, NEW w, Common(ParsedOf(m), w) PROVE Common(ParsedOf(m), w)'
  BY <1>3, <1>5 DEF Common
<1>6. CommonInv'
  BY <1>4, <1>5 DEF CommonInv
<1> QED BY <1>2, <1>6

(***************************************************************************)
(* Parsing a block for the first time.                                     *)
(***************************************************************************)
LEMMA FirstParse ==
  ASSUME IInv, step = "parse", ParseNext
  PROVE  MembersInv' /\ CommonInv'
<1> DEFINE here == <<file, next>>
           b == text[next]
           m == b.member
<1>1. /\ files \in Seq(Seq(Blocks)) /\ file \in 0..Len(files) /\ next \in 1..Len(text)
      /\ text = IF file = 0 THEN <<>> ELSE files[file]
  BY DEF IInv, TypeInv, ParseNext
<1>2. /\ file \in DOMAIN files /\ next \in DOMAIN files[file] /\ file \in Nat /\ next \in Nat
      /\ b = BlockAt(here) /\ b \in Blocks
  BY <1>1 DEF BlockAt
<1>3. UNCHANGED <<files, file, step>> /\ next' = next + 1 /\ ParseBlock(b)
  BY DEF ParseNext
<1>4. MembersInv /\ CommonInv
  BY DEF IInv, TypeInv
<1>5. Places' = Places /\ \A p : BlockAt(p)' = BlockAt(p)
  BY <1>3 DEF Places, BlockAt
<1>6. Parsed' = Parsed \union {here} /\ here \notin Parsed
  <2>1. Places = {p \in Nat \X Nat : p[1] \in DOMAIN files /\ p[2] \in DOMAIN files[p[1]]}
    BY <1>1, PlacesAre
  <2>2. here \in Places /\ Places \subseteq Nat \X Nat
    BY <1>2, <2>1
  <2>3. \A p \in Nat \X Nat : Before(p, file, next + 1) <=> Before(p, file, next) \/ p = here
    BY <1>2 DEF Before
  <2>4. ~Before(here, file, next)
    BY <1>2 DEF Before
  <2>5. Parsed = {p \in Places : Before(p, file, next)} /\ Parsed' = {p \in Places : Before(p, file, next + 1)}
    BY <1>3, <1>5 DEF Parsed
  <2> HIDE DEF here
  <2> QED BY <2>2, <2>3, <2>4, <2>5
<1> HIDE DEF here, b, m
<1>7. /\ repeated' = repeated \union ({m} \intersect DOMAIN defaults)
      /\ defaults' = Put(defaults, m, DefaultOf("parse", b, ValueOf(defaults, m), m \in repeated'))
  BY <1>3 DEF ParseBlock, RepeatedWith, m
<1>8. DOMAIN defaults' = DOMAIN defaults \union {m} /\ \A x \in DOMAIN defaults \ {m} : defaults'[x] = defaults[x]
  BY <1>7 DEF Put
<1>9. MembersInv'
  <2>1. DOMAIN defaults' = {BlockAt(p)'.member : p \in Parsed'}
    BY <1>2, <1>4, <1>5, <1>6, <1>8 DEF MembersInv, m
  <2>2. repeated' \subseteq DOMAIN defaults'
    BY <1>4, <1>7, <1>8 DEF MembersInv
  <2> QED BY <2>1, <2>2 DEF MembersInv
<1>10. \A x : ParsedOf(x)' = ParsedOf(x) \union (IF x = m THEN {here} ELSE {})
  BY <1>2, <1>5, <1>6 DEF ParsedOf, m
<1>11. ASSUME NEW x \in DOMAIN defaults', defaults'[x] # Empty, Unwritten(ParsedOf(x))'
       PROVE  Common(ParsedOf(x), defaults[x])'
  <2>1. \A p \in ParsedOf(x)' : BlockAt(p).given = None
    BY <1>5, <1>11 DEF Unwritten
  <2>2. SUFFICES \E p \in ParsedOf(x)' : /\ IsFirst(BlockAt(p), defaults'[x])
                                         /\ \A q \in ParsedOf(x)' \ {p} : AllSay(BlockAt(q), defaults'[x])
    BY <1>5 DEF Common
  <2>3. CASE x # m
    <3>1. x \in DOMAIN defaults /\ defaults'[x] = defaults[x] /\ ParsedOf(x)' = ParsedOf(x)
      BY <1>8, <1>10, <2>3
    <3>2. Common(ParsedOf(x), defaults[x])
      BY <3>1, <2>1, <1>4, <1>11 DEF CommonInv, Unwritten
    <3> QED BY <3>1, <3>2 DEF Common
  <2>4. CASE x = m /\ m \notin DOMAIN defaults
    <3>1. ParsedOf(x) = {} /\ ParsedOf(x)' = {here}
      BY <1>4, <1>10, <2>4 DEF MembersInv, ParsedOf
    <3>2. (m \in repeated') = FALSE /\ b.given = None /\ ValueOf(defaults, m) = Empty
      BY <1>2, <1>4, <1>7, <2>1, <2>4, <3>1 DEF MembersInv, ValueOf
    <3>3. defaults'[m] = DefaultOf("parse", b, Empty, FALSE)
      <4>1. defaults'[m] = DefaultOf("parse", b, ValueOf(defaults, m), m \in repeated')
        BY <1>7 DEF Put
      <4> QED BY <3>2, <4>1
    <3>4. IsFirst(b, defaults'[m])
      BY <3>2, <3>3, <1>11, <2>4 DEF DefaultOf, IsFirst
    <3> QED BY <3>1, <3>4, <2>4, <1>2
  <2>5. CASE x = m /\ m \in DOMAIN defaults
    <3>1. (m \in repeated') = TRUE /\ ParsedOf(x)' = ParsedOf(x) \union {here} /\ here \notin ParsedOf(x)
      BY <1>6, <1>7, <1>10, <2>5 DEF ParsedOf
    <3>2. b.given = None /\ Unwritten(ParsedOf(x))
      BY <1>2, <2>1, <2>5, <3>1 DEF Unwritten
    <3>3. defaults'[x] = DefaultOf("parse", b, defaults[x], TRUE)
      <4>1. defaults'[m] = DefaultOf("parse", b, ValueOf(defaults, m), m \in repeated')
        BY <1>7 DEF Put
      <4>2. ValueOf(defaults, m) = defaults[m]
        BY <2>5 DEF ValueOf
      <4> QED BY <2>5, <3>1, <4>1, <4>2
    <3>4. defaults'[x] = defaults[x] /\ AllSay(b, defaults[x])
      <4>1. CASE b.flagged = <<>>
        BY <3>2, <3>3, <4>1 DEF DefaultOf, AllSay
      <4>2. CASE b.flagged # <<>>
        <5>1. b.flagged \in Seq(Options)
          BY <1>2, BlocksAssumption
        <5>2. defaults'[x] = FlagsOfRepeated("parse", b.flagged, defaults[x])
          BY <3>2, <3>3, <4>2 DEF DefaultOf
        <5>3. /\ FlagsOfRepeated("parse", b.flagged, defaults[x]) = defaults[x]
              /\ \A n \in 1..Len(b.flagged) : b.flagged[n].value = defaults[x]
          BY <1>11, <2>5, <5>1, <5>2, FlagsAgree
        <5> QED BY <5>1, <5>2, <5>3 DEF AllSay
      <4> QED BY <4>1, <4>2
    <3>5. Common(ParsedOf(x), defaults[x])
      BY <1>4, <1>11, <2>5, <3>2, <3>4 DEF CommonInv
    <3>6. PICK p \in ParsedOf(x) : /\ IsFirst(BlockAt(p), defaults[x])
                                   /\ \A q \in ParsedOf(x) \ {p} : AllSay(BlockAt(q), defaults[x])
      BY <3>5 DEF Common
    <3>7. \A q \in ParsedOf(x)' \ {p} : AllSay(BlockAt(q), defaults[x])
      BY <1>2, <3>1, <3>4, <3>6
    <3> QED BY <2>5, <3>1, <3>4, <3>6, <3>7
  <2> QED BY <1>8, <2>3, <2>4, <2>5
<1>12. CommonInv'
  BY <1>11 DEF CommonInv
<1> QED BY <1>9, <1>12

(***************************************************************************)
(* Every other step leaves alone what was parsed for the first time, or    *)
(* comes before or after it.                                               *)
(***************************************************************************)
LEMMA FirstNext == IInv /\ [Next]_vars => IInv'
<1> SUFFICES ASSUME IInv, [Next]_vars PROVE IInv'
  OBVIOUS
<1>0. /\ files \in Seq(Seq(Blocks)) /\ Len(files) \in Nat /\ file \in 0..Len(files) /\ next \in Nat \ {0}
      /\ \A f \in 1..Len(files) : Len(files[f]) \in Nat
      /\ Places = {p \in Nat \X Nat : p[1] \in DOMAIN files /\ p[2] \in DOMAIN files[p[1]]}
  BY PlacesAre DEF IInv, TypeInv
<1>1. ASSUME WriteBlock PROVE IInv'
  <2>1. PICK b \in Blocks :
          \/ files' = Append(files, <<b>>)
          \/ \E last \in {Len(files)} \ {0} : files' = [files EXCEPT ![last] = Append(@, b)]
    BY <1>1 DEF WriteBlock
  <2>2. files' \in Seq(Seq(Blocks)) /\ Len(files') \in Nat
    <3>1. CASE files' = Append(files, <<b>>)
      <4>1. <<b>> \in Seq(Blocks)
        OBVIOUS
      <4> QED BY <1>0, <3>1, <4>1
    <3>2. CASE \E last \in {Len(files)} \ {0} : files' = [files EXCEPT ![last] = Append(@, b)]
      <4>1. PICK last \in 1..Len(files) : files' = [files EXCEPT ![last] = Append(files[last], b)]
        <5>1. PICK l \in {Len(files)} \ {0} : files' = [files EXCEPT ![l] = Append(files[l], b)]
          BY <3>2
        <5>2. l \in 1..Len(files)
          BY <1>0
        <5> QED BY <5>1, <5>2
      <4>2. Append(files[last], b) \in Seq(Blocks)
        <5>1. files[last] \in Seq(Blocks)
          BY <1>0
        <5> QED BY <5>1
      <4> QED BY <1>0, <4>1, <4>2
    <3> QED BY <2>1, <3>1, <3>2
  <2>3. TypeInv'
    BY <1>0, <1>1, <2>2 DEF WriteBlock, IInv, TypeInv
  <2>4. Parsed = {} /\ Parsed' = {}
    <3>1. \A p \in Places' : p[1] \in DOMAIN files'
      BY DEF Places
    <3>2. step = "write" /\ step' = "write" /\ file = 0 /\ file' = 0
      BY <1>1 DEF WriteBlock, IInv, TypeInv
    <3>3. \A p : \A i : p[1] \in Nat \ {0} => ~Before(p, 0, i)
      BY DEF Before
    <3>4. \A p \in Places : p[1] \in Nat \ {0}
      BY <1>0
    <3>5. \A p \in Places' : p[1] \in Nat \ {0}
      BY <2>2, <3>1
    <3> QED BY <3>2, <3>3, <3>4, <3>5 DEF Parsed
  <2>5. ~again => MembersInv' /\ CommonInv'
    BY <1>1, <2>4, SameParsed DEF WriteBlock, IInv
  <2> QED BY <1>1, <2>3, <2>5 DEF WriteBlock, IInv
<1> DEFINE Keeps == UNCHANGED files /\ UNCHANGED defaults /\ UNCHANGED repeated
<1>2. ASSUME Keeps, Parsed' = Parsed \/ again, TypeInv', ~again' => ~again PROVE IInv'
  <2>1. \A p : BlockAt(p)' = BlockAt(p)
    BY <1>2 DEF BlockAt
  <2> QED BY <1>2, <2>1, SameParsed DEF IInv
<1>3. ASSUME UNCHANGED files PROVE Places' = Places
  BY <1>3 DEF Places
<1>4. CASE Start
  <2>1. TypeInv'
    BY <1>4 DEF Start, IInv, TypeInv
  <2>2. Parsed' = Parsed
    BY <1>3, <1>4 DEF Start, Parsed
  <2> QED BY <1>2, <1>4, <2>1, <2>2 DEF Start
<1>5. CASE ReadFile
  <2>1. TypeInv'
    <3>1. file + 1 \in 1..Len(files) /\ file' = file + 1 /\ next' = 1 /\ UNCHANGED <<files, step, again>>
      BY <1>0, <1>5 DEF ReadFile
    <3>2. step = "parse" => text' = files[file']
      BY <1>5 DEF ReadFile, TextOf
    <3> QED BY <1>0, <1>5, <3>1, <3>2 DEF ReadFile, IInv, TypeInv
  <2>2. CASE step = "parse"
    <3>1. \A p \in Places : Before(p, file', next') <=> Before(p, file, next)
      <4>1. text = IF file = 0 THEN <<>> ELSE files[file]
        BY <2>2 DEF IInv, TypeInv
      <4>2. file' = file + 1 /\ next' = 1 /\ next > Len(text) /\ file \in Nat
        BY <1>0, <1>5 DEF ReadFile
      <4> SUFFICES ASSUME NEW p \in Places PROVE Before(p, file + 1, 1) <=> Before(p, file, next)
        BY <4>2
      <4>3. p[1] \in 1..Len(files) /\ p[2] \in 1..Len(files[p[1]])
        BY <1>0
      <4>4. p[1] = file => p[2] < next
        BY <1>0, <4>1, <4>2, <4>3
      <4> QED BY <1>0, <4>2, <4>3, <4>4 DEF Before
    <3>2. Parsed' = Parsed
      BY <1>3, <1>5, <2>2, <3>1 DEF ReadFile, Parsed
    <3> QED BY <1>2, <1>5, <2>1, <3>2 DEF ReadFile
  <2>3. CASE step = "reparse"
    BY <1>2, <1>5, <2>1, <2>3 DEF ReadFile, IInv, TypeInv
  <2> QED BY <1>5, <2>2, <2>3 DEF ReadFile
<1>6. CASE ParseNext
  <2>1. TypeInv'
    BY <1>0, <1>6 DEF ParseNext, IInv, TypeInv
  <2>2. CASE step = "parse"
    BY <1>6, <2>1, <2>2, FirstParse DEF IInv
  <2>3. CASE step = "reparse"
    BY <1>6, <2>1, <2>3 DEF ParseNext, IInv, TypeInv
  <2> QED BY <1>6, <2>2, <2>3 DEF ParseNext
<1>7. CASE EndPass
  <2>1. TypeInv'
    BY <1>0, <1>7 DEF EndPass, IInv, TypeInv
  <2>2. CASE step = "parse"
    <3>1. \A p \in Places : Before(p, file, next)
      <4>1. text = IF file = 0 THEN <<>> ELSE files[file]
        BY <2>2 DEF IInv, TypeInv
      <4>2. file = Len(files) /\ next > Len(text)
        BY <1>7 DEF EndPass
      <4> SUFFICES ASSUME NEW p \in Places PROVE Before(p, file, next)
        OBVIOUS
      <4>3. p[1] \in 1..Len(files) /\ p[2] \in 1..Len(files[p[1]])
        BY <1>0
      <4>4. p[1] = file => p[2] < next
        BY <1>0, <4>1, <4>2, <4>3
      <4> QED BY <1>0, <4>2, <4>3, <4>4 DEF Before
    <3>2. Parsed = Places /\ Parsed' = Places'
      BY <1>7, <2>2, <3>1 DEF EndPass, Parsed
    <3> QED BY <1>2, <1>3, <1>7, <2>1, <3>2 DEF EndPass
  <2>3. CASE step = "reparse"
    BY <1>2, <1>7, <2>1, <2>3 DEF EndPass, IInv, TypeInv
  <2> QED BY <1>7, <2>2, <2>3 DEF EndPass
<1>8. CASE Validate
  <2>1. TypeInv'
    BY <1>8 DEF Validate, IInv, TypeInv
  <2> QED BY <1>8, <2>1 DEF Validate, IInv
<1>9. CASE Compare
  <2>1. TypeInv'
    BY <1>9 DEF Compare, IInv, TypeInv
  <2> QED BY <1>2, <1>9, <2>1 DEF Compare, IInv, TypeInv
<1>10. CASE UNCHANGED vars
  <2>1. TypeInv'
    BY <1>10 DEF vars, IInv, TypeInv
  <2>2. Parsed' = Parsed
    BY <1>3, <1>10 DEF vars, Parsed
  <2> QED BY <1>2, <1>10, <2>1, <2>2 DEF vars
<1> QED BY <1>1, <1>4, <1>5, <1>6, <1>7, <1>8, <1>9, <1>10 DEF Next, Convert

(***************************************************************************)
(* FirstPassAgrees, of the defaults that parse_vfr_content finds when all  *)
(* blocks are parsed once: for any number of blocks and files, a default   *)
(* no block writes as such is the one that all of them say.                *)
(***************************************************************************)
THEOREM VfrFirstPassAgrees == Spec => []FirstPassAgrees
<1>1. IInv => FirstPassAgrees
  <2> SUFFICES ASSUME IInv, step = "validate", ~again, NEW m \in DOMAIN defaults, defaults[m] # Empty,
                      \A p \in BlocksOf(m) : BlockAt(p).given = None
               PROVE  \E p \in BlocksOf(m) :
                        /\ BlockAt(p).flagged # <<>> /\ Head(BlockAt(p).flagged).value = defaults[m]
                        /\ \A q \in BlocksOf(m) \ {p} :
                             \A n \in DOMAIN BlockAt(q).flagged : BlockAt(q).flagged[n].value = defaults[m]
    BY DEF FirstPassAgrees
  <2>1. ParsedOf(m) = BlocksOf(m)
    BY DEF ParsedOf, Parsed, BlocksOf, BlockAt
  <2>2. Common(BlocksOf(m), defaults[m])
    BY <2>1 DEF IInv, CommonInv, Unwritten
  <2> QED BY <2>2 DEF Common, IsFirst, AllSay
<1> QED BY <1>1, FirstInit, FirstNext, PTL DEF Spec
===============================================================================
