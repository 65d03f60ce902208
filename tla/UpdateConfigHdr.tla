---------------------------- MODULE UpdateConfigHdr ----------------------------
(***************************************************************************)
(* The build plugin UpdateConfigHdr and the command it runs for each XML   *)
(* file, generateheader_efi of KnobService.py.  The command writes the     *)
(* headers of one directory one after the other and the plugin gives up at *)
(* the first command that fails.  The directories outlive the build: a     *)
(* build that failed, or was killed while a header was written, leaves     *)
(* them to the next one.                                                   *)
(*                                                                         *)
(* The settings of a build are a record: dirs, the number of include       *)
(* directories; xmls, the XML files (None: there is no such file); csvs,   *)
(* names and ids, for each XML file its profiles (<<>> if it has none),    *)
(* and their names and numbers as CheckNames and CheckIds take them.       *)
(***************************************************************************)
EXTENDS KnobService

CONSTANTS Settings,   \* the settings a build may have
          CsvFiles,   \* the CSV files, by number
          NoChange,   \* whether the command is given -nc
          MaxDirs,    \* the include directories there are
          MaxBuilds   \* bound on the number of builds

\* What the CSV file makes of a schema without values, and the header of the profiles
\* of an XML file.
ReadProfile(x, c) == read_csv(x, NoValues(x), CsvFiles[c])
ProfilesHeader(x) ==
  [xml : {x}, whole : BOOLEAN, values : Seq({ReadProfile(x, c).vals : c \in DOMAIN CsvFiles}),
   names : Seq(Nat), ids : Seq(Nat)]

\* split(";") returns one item at least, and for each XML file there is an item about
\* its profiles, of which there are no more than numbers for them.
ASSUME SettingsAssumption ==
  /\ None \notin DOMAIN Schemas /\ MaxDirs \in Nat
  /\ \A x \in DOMAIN Schemas : None \notin ProfilesHeader(x)
  /\ \A s \in Settings :
       /\ s # None /\ s.dirs \in 1..MaxDirs
       /\ s.xmls \in Seq(DOMAIN Schemas \union {None})
       /\ s.csvs \in Seq(Seq(DOMAIN CsvFiles)) /\ Len(s.csvs) = Len(s.xmls)
       /\ \A i \in DOMAIN s.csvs :
            /\ Len(s.csvs[i]) <= 256
            /\ s.names[i] = None \/ s.names[i] \in Seq(Nat)
            /\ s.ids[i] = None \/ s.ids[i] \in Seq([hex : BOOLEAN, number : Nat])

VARIABLES build,     \* the settings of the build, None before the first
          builds,    \* how many there were
          at,        \* [dir, step, turn] of the command, step "idle" when none runs
          schemaVals,\* the values of the knobs in the command's schema
          generated, \* generated[i]: the headers of directory i, each None or a record
          returned   \* "ok" (0), "failed", "killed", or "none" while it runs

buildVars == <<build, builds, at, schemaVals, generated, returned>>

NoHeaders == [client |-> None, service |-> None, data |-> None, profiles |-> None]
Idle == [dir |-> 0, step |-> "idle", turn |-> 0]
Xml == build.xmls[at.dir]
Csvs == build.csvs[at.dir]

BuildInit ==
        /\ build = None /\ builds = 0 /\ at = Idle /\ schemaVals = None
        /\ generated = [i \in 1..MaxDirs |-> NoHeaders]
        /\ returned = "none"

CommandIfMissing(settings, i) ==
  [dir |-> i, step |-> IF generated[i].client # None THEN "service" ELSE "client", turn |-> 0]

\* The command of directory i starts: the schema is loaded.
Command(settings, i) == [dir |-> i, step |-> "client", turn |-> 0]

Stop(code) == at' = Idle /\ schemaVals' = None /\ returned' = code

\* do_pre_build, until the loop.
Start(settings) ==
  /\ at = Idle /\ builds < MaxBuilds
  /\ build' = settings /\ builds' = builds + 1
  /\ IF (\E i \in DOMAIN settings.xmls : settings.xmls[i] = None) \/ Len(settings.xmls) # settings.dirs
     THEN at' = Idle /\ schemaVals' = None /\ returned' = "failed"
     ELSE at' = Command(settings, 1) /\ schemaVals' = NoValues(settings.xmls[1]) /\ returned' = "none"
  /\ UNCHANGED generated

\* The command of this directory is done: the next one, or the end of the build.
NextDir ==
  IF at.dir < Len(build.xmls)
  THEN at' = Command(build, at.dir + 1) /\ schemaVals' = NoValues(build.xmls[at.dir + 1]) /\ UNCHANGED returned
  ELSE Stop("ok")

PutHeader(which, header) == generated' = [generated EXCEPT ![at.dir][which] = header]
Header(x) == [xml |-> x, whole |-> TRUE]

\* generate_sources
GenerateClient ==
  /\ at.step = "client"
  /\ PutHeader("client", Header(Xml)) /\ at' = [at EXCEPT !.step = "service"]
  /\ UNCHANGED <<build, builds, schemaVals, returned>>
GenerateService ==
  /\ at.step = "service"
  /\ PutHeader("service", Header(Xml)) /\ at' = [at EXCEPT !.step = "data"]
  /\ UNCHANGED <<build, builds, schemaVals, returned>>
GenerateData ==
  /\ at.step = "data"
  /\ PutHeader("data", Header(Xml))
  /\ IF Csvs = <<>> THEN NextDir
     ELSE at' = [at EXCEPT !.step = "check"] /\ UNCHANGED <<schemaVals, returned>>
  /\ UNCHANGED <<build, builds>>

\* The names and numbers are looked at after the headers above are written.  Then
\* the file for the profiles is opened.
CheckOptions ==
  LET ok == CheckNames(build.names[at.dir], Len(Csvs)) /\ CheckIds(build.ids[at.dir], Len(Csvs))
  IN /\ at.step = "check"
     /\ IF ok THEN /\ PutHeader("profiles", [xml |-> Xml, whole |-> FALSE, values |-> <<>>, names |-> <<>>, ids |-> <<>>])
                   /\ at' = [at EXCEPT !.step = "profiles", !.turn = 1]
                   /\ UNCHANGED <<schemaVals, returned>>
        ELSE Stop("failed") /\ UNCHANGED generated
     /\ UNCHANGED <<build, builds>>

\* A turn of the loop; after an error the file stays as it is.
GenerateOneProfile ==
  LET read == GenerateProfile(Xml, schemaVals, CsvFiles[Csvs[at.turn]])
      header == generated[at.dir].profiles
  IN /\ at.step = "profiles" /\ at.turn <= Len(Csvs)
     /\ IF read.err THEN Stop("failed") /\ UNCHANGED generated
        ELSE /\ PutHeader("profiles", [header EXCEPT !.values = Append(@, read.vals)])
             /\ schemaVals' = read.vals /\ at' = [at EXCEPT !.turn = @ + 1]
             /\ UNCHANGED returned
     /\ UNCHANGED <<build, builds>>

GenerateTables ==
  LET header == generated[at.dir].profiles
  IN /\ at.step = "profiles" /\ at.turn > Len(Csvs)
     /\ PutHeader("profiles", [header EXCEPT !.whole = TRUE, !.names = ProfileNames(build.names[at.dir], Len(Csvs)),
                                             !.ids = ProfileIds(build.ids[at.dir], Len(Csvs))])
     /\ NextDir
     /\ UNCHANGED <<build, builds>>

\* The build is killed while a header is written.
Killed ==
  /\ at.step # "idle"
  /\ Stop("killed")
  /\ IF at.step = "check" THEN UNCHANGED generated
     ELSE IF at.step = "profiles" THEN UNCHANGED generated
     ELSE PutHeader(at.step, [xml |-> Xml, whole |-> FALSE])
  /\ UNCHANGED <<build, builds>>

BuildNext ==
        \/ \E settings \in Settings : Start(settings)
        \/ GenerateClient \/ GenerateService \/ GenerateData
        \/ CheckOptions \/ GenerateOneProfile \/ GenerateTables \/ Killed

-----------------------------------------------------------------------------
\* An entry for each profile, that fits its type, in gProfileFlavorNames and
\* gProfileFlavorIds.
TablesFit(header) ==
  /\ Len(header.names) = Len(header.values) /\ \A n \in DOMAIN header.names : header.names[n] = 2
  /\ Len(header.ids) = Len(header.values) /\ \A n \in DOMAIN header.ids : header.ids[n] \in 0..255

\* The constants that the data header and the profiles use are declared by the
\* public header, which "must be included prior".
Compiles(x, profiles) ==
  LET declared == PublicHeader(x, FALSE, NoChange)
  IN /\ DataHeader(x) \subseteq declared
     /\ \A n \in DOMAIN profiles : UsedIn(x, profiles[n]) \subseteq declared

\* A build that succeeds leaves in each directory whole headers of the XML file it
\* is paired with, all its profiles and tables as long as they are, whatever failed
\* or killed builds left there (the pairing of do_pre_build and the return code of
\* each command).  Together they compile.
BuildMatches ==
  returned = "ok" =>
    /\ Len(build.xmls) = build.dirs
    /\ \A i \in 1..build.dirs :
         LET header == generated[i].profiles
         IN /\ \A which \in {"client", "service", "data"} : generated[i][which] = Header(build.xmls[i])
            /\ build.csvs[i] # <<>> =>
                 /\ header # None /\ header.whole /\ header.xml = build.xmls[i]
                 /\ Len(header.values) = Len(build.csvs[i])
                 /\ TablesFit(header)
            /\ Compiles(build.xmls[i], IF build.csvs[i] = <<>> THEN <<>> ELSE header.values)
=============================================================================
