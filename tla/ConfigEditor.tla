----------------------------- MODULE ConfigEditor -----------------------------
(***************************************************************************)
(* The configuration editor, ConfigEditor.py: XML files that are opened,   *)
(* the tree of their pages, the input fields of the page that is shown,    *)
(* and the loads and saves of the File and Variables menus, on the objects *)
(* of CfgData.                                                             *)
(*                                                                         *)
(* A value has up to three copies: the text in a field, the text in the    *)
(* shim and the value in the schema.  Fields of numbers are copied when    *)
(* the page changes or something is saved, drop-down lists at once.        *)
(*                                                                         *)
(* The state of the application is the record ed.  Every operation is a    *)
(* function on it; err says that it raised, after which the rest of the    *)
(* handler is not run.  Tk prints the exception of a handler and goes on;  *)
(* an exception while the command line is handled ends the program.        *)
(***************************************************************************)
EXTENDS CfgData, FiniteSets

CONSTANTS FileNames,    \* FileNames[x]: the name of XML file x without path and suffix
          Broken,       \* an XML file that does not load
          Offered,      \* the XML files the user may open
          Sessions,     \* the sessions: [line, the arguments the editor is started with, and
                        \* as a bound kinds, the kinds of events that happen, and max of them]
          PageSize,     \* page_size: fields on one page
          UserCsvs, UserBins, UserSvds,  \* files from elsewhere
          Entries,      \* texts the user types
          print_diff_raises  \* [p][a][b]: whether CompareConfigs of KnobDelta.py raises when it
                        \* compares XML files a and b by what it has read of XML file p

XmlFiles == DOMAIN knobs \union {Broken}

\* The constructor tells the kind of an argument by its suffix; the first has to be
\* an XML file.
Arguments ==
  [kind : {"xml"}, file : XmlFiles] \union [kind : {"csv"}, file : UserCsvs]
    \union [kind : {"vl"}, file : UserBins] \union [kind : {"other"}, file : {None}]
ASSUME FilesAssumption ==
  /\ Offered \subseteq XmlFiles
  /\ \A s \in Sessions :
       s.line \in Seq(Arguments) /\ (s.line # <<>> => s.line[1].kind \in {"xml", "other"})
  /\ \A svd \in UserSvds : Len(svd) \in Nat

VARIABLES session,\* the session
          ed,     \* the application
          args,   \* the arguments not yet handled, and idx of the constructor
          disk,   \* the files the editor saves
          nvram,  \* the variables of the system, as entries
          last,   \* the last event and whether it ended without raising
          torn,   \* whether a load has raised so far
          events  \* how many there were
vars == <<session, ed, args, disk, nvram, last, torn, events>>

-----------------------------------------------------------------------------
(* Pages: one for the file, below it one for each namespace, below it its knobs *)

FilePage(x) == <<FileNames[x], "">>
SpacePage(ns) == <<ns, "">>
PageOf(x, k) == <<knobs[x][k].ns, knobs[x][k].name>>

\* build_cfg_list
PagesOf(x) ==
  {FilePage(x)} \union {SpacePage(knobs[x][k].ns) : k \in DOMAIN knobs[x]}
                \union {PageOf(x, k) : k \in DOMAIN knobs[x]}

\* get_cfg_list(page): the items of the knob of that page, in order.
GetCfgList(x, page) ==
  LET upto[i \in 0..Len(subknobs[x])] ==
        IF i = 0 THEN <<>>
        ELSE IF PageOf(x, subknobs[x][i].k) = page THEN Append(upto[i - 1], i) ELSE upto[i - 1]
  IN  upto[Len(subknobs[x])]
Items == [x \in DOMAIN knobs |-> [page \in PagesOf(x) |-> GetCfgList(x, page)]]

\* The items of a struct follow it: behind the first two, which are the struct
\* itself, a leaf is less than a page away from every item.
ASSUME ItemsAssumption ==
  /\ PageSize \in Nat \ {0}
  /\ \A x \in DOMAIN knobs :
       /\ Len(knobs[x]) \in Nat /\ DOMAIN knobs[x] = 1..Len(knobs[x])
       /\ Len(subknobs[x]) \in Nat /\ DOMAIN subknobs[x] = 1..Len(subknobs[x])
       /\ \A page \in PagesOf(x) : \A m \in 3..Len(Items[x][page]) :
            \E n \in m..Len(Items[x][page]) :
              n < m + PageSize /\ subknobs[x][Items[x][page][n]].leaf

FirstIndex(hits) == IF hits = {} THEN 0 ELSE Min(hits)

\* get_item_by_path: the first leaf with that namespace and name, or 0.
GetItemByPath(x, guid, name) ==
  FirstIndex({i \in DOMAIN subknobs[x] :
             subknobs[x][i].name = name /\ knobs[x][subknobs[x][i].k].ns = guid /\ subknobs[x][i].leaf})

-----------------------------------------------------------------------------
(* The application *)

\* What a page shows: its id, the file_id of its fields, the object their items are
\* from, their texts, and those the user has typed into since they were made.
NoWidgets == [page |-> None, fid |-> 0, obj |-> 0, text |-> <<>>, typed |-> {}]

\* files is cfg_data_list in its order, obj = 0 standing for None; objs are all
\* objects made so far; pmap is page_cfg_map, plist page_list, path config_xml_path
\* and dflt the XML file of default_cfg_data_obj.
Empty ==
  [objs |-> <<>>, files |-> <<>>, tree |-> {}, pmap |-> <<>>, plist |-> <<>>, sel |-> None,
   cur |-> 0, total |-> 0, wid |-> NoWidgets, menu |-> FALSE, path |-> None, dflt |-> None, err |-> FALSE]

ObjOf(e, id) == e.files[CHOOSE n \in DOMAIN e.files : e.files[n].id = id].obj
Loadeds(e) == {n \in DOMAIN e.files : e.files[n].obj # 0}
Fail(e) == [e EXCEPT !.err = TRUE]

\* update_config_data_from_widget and set_config_item_value: the item is looked up
\* in the object the file_id has now; a text that is refused leaves it alone.
Shown(e) == e.objs[e.wid.obj].xml
FieldItem(e, o, i) ==
  GetItemByPath(e.objs[o].xml, knobs[Shown(e)][subknobs[Shown(e)][i].k].ns, subknobs[Shown(e)][i].name)
Copied(e, o, j, text, set) ==
  IF set.err THEN e
  ELSE [e EXCEPT !.objs[o] = [set.cfg EXCEPT !.shim[j] = ReformatValueStr(set.cfg.xml, j, text)]]
CopyText(e, o, j, text) ==
  IF j = 0 THEN e ELSE Copied(e, o, j, text, SetItemValue(e.objs[o], j, text))
CopyField(e, o, i) == IF o = 0 THEN Fail(e) ELSE CopyText(e, o, FieldItem(e, o, i), e.wid.text[i])
UpdateFromWidget(e, i) == IF e.err THEN e ELSE CopyField(e, ObjOf(e, e.wid.fid), i)

UpdateConfigDataOnPageNot(e) == e

\* update_config_data_on_page: the fields from top to bottom.
UpdateItem(e, i) == IF i \in DOMAIN e.wid.text THEN UpdateFromWidget(e, i) ELSE e
UpdateItems(e, items) ==
  LET after[n \in 0..Len(items)] == IF n = 0 THEN e ELSE UpdateItem(after[n - 1], items[n])
  IN  after[Len(items)]
UpdateConfigDataOnPage(e) ==
  IF e.wid = NoWidgets THEN e
  ELSE UpdateItems(e, Items[Shown(e)][e.wid.page])

ClearWidgets(e) == [e EXCEPT !.wid = NoWidgets]

\* add_config_item: a number, a list of options or a flag has a field with the text
\* of the shim, a struct has a label and an array has nothing.
AddConfigItems(c, shown) == [i \in {j \in shown : subknobs[c.xml][j].leaf} |-> c.shim[i]]

PartCount(items) == (Len(items) - 2 + PageSize - 1) \div PageSize
OnPart(items, n) == {items[m] : m \in {m \in DOMAIN items : 2 + n * PageSize < m /\ m <= 2 + (n + 1) * PageSize}}
ShowPart(e, page, items, n) ==
  [e EXCEPT !.total = PartCount(items), !.cur = n,
            !.wid = [page |-> page, fid |-> e.pmap[page], obj |-> e.plist[page], typed |-> {},
                     text |-> AddConfigItems(e.objs[e.plist[page]], OnPart(items, n))]]

ClampedNot(n, count) == n
Clamped(n, count) == IF n >= count THEN count - 1 ELSE n

ShowItems(e, page, items) ==
  IF Len(items) <= 2 THEN ClearWidgets(e) ELSE ShowPart(e, page, items, Clamped(e.cur, PartCount(items)))

\* build_config_data_page: a page of two items or fewer stays empty.  The first two
\* items are the struct itself.
BuildConfigDataPage(e, page) == ShowItems(e, page, Items[e.objs[e.plist[page]].xml][page])

\* on_config_page_select_change
ShowSelected(up) == IF up.err \/ up.sel = None THEN up ELSE BuildConfigDataPage(up, up.sel)
OnSelectChange(e) == ShowSelected(UpdateConfigDataOnPage(e))

RefreshConfigDataPage(e) == OnSelectChange(ClearWidgets(e))

-----------------------------------------------------------------------------
(* Opening *)

Put(map, page, value) == [p \in DOMAIN map \union {page} |-> IF p = page THEN value ELSE map[p]]

AddToTree(e, page) == IF page \in e.tree THEN Fail(e) ELSE [e EXCEPT !.tree = @ \union {page}]

AddPageKeepsObject(e, page, id, o) ==
  IF e.err THEN e ELSE AddToTree([e EXCEPT !.pmap = Put(@, page, id),
                                            !.plist = IF page \in DOMAIN @ THEN @ ELSE Put(@, page, o)], page)

\* build_config_page_tree: a page whose id is in the tree raises after the maps
\* have been changed.
AddPage(e, page, id, o) ==
  IF e.err THEN e ELSE AddToTree([e EXCEPT !.pmap = Put(@, page, id), !.plist = Put(@, page, o)], page)

\* The page of a namespace and those of its knobs, for each namespace in the order in
\* which they come up.
AddKnob(e, x, ns, k, id, o) == IF knobs[x][k].ns = ns THEN AddPage(e, PageOf(x, k), id, o) ELSE e
AddSpace(e, x, ns, id, o) ==
  LET after[k \in 0..Len(knobs[x])] ==
        IF k = 0 THEN AddPage(e, SpacePage(ns), id, o) ELSE AddKnob(after[k - 1], x, ns, k, id, o)
  IN  after[Len(knobs[x])]
NewSpace(x, j) == \A i \in 1..(j - 1) : knobs[x][i].ns # knobs[x][j].ns
AddSpaceAt(e, x, j, id, o) == IF NewSpace(x, j) THEN AddSpace(e, x, knobs[x][j].ns, id, o) ELSE e
AddSpaces(e, x, id, o) ==
  LET after[j \in 0..Len(knobs[x])] == IF j = 0 THEN e ELSE AddSpaceAt(after[j - 1], x, j, id, o)
  IN  after[Len(knobs[x])]

\* cfg_data_list[id] = ...: a known id keeps its place.
PutFile(files, id, o) ==
  IF \E n \in DOMAIN files : files[n].id = id
  THEN [n \in DOMAIN files |-> IF files[n].id = id THEN [id |-> id, obj |-> o] ELSE files[n]]
  ELSE Append(files, [id |-> id, obj |-> o])

\* load_cfg_file: the entry is there before the XML file is read, its values are packed
\* before its pages are added, and the menus are enabled after the tree is built.
Enabled(built, x) == IF built.err THEN built ELSE [built EXCEPT !.menu = TRUE, !.path = x, !.dflt = x]
Entered(e, x, id, o) ==
  [e EXCEPT !.objs = Append(@, LoadXml(x)), !.files = PutFile(@, id, o),
            !.err = (GenerateBinaryArray(LoadXml(x)) = Error)]
BuildTree(e, x, id, o) == AddSpaces(AddPage(Entered(e, x, id, o), FilePage(x), id, o), x, id, o)
ReadCfgFile(e, x, id) ==
  IF x = Broken THEN Fail([e EXCEPT !.files = PutFile(@, id, 0)])
  ELSE Enabled(BuildTree(e, x, id, Len(e.objs) + 1), x)
LoadCfgFile(e, x, id, clear) ==
  ReadCfgFile(IF clear THEN [ClearWidgets(e) EXCEPT !.tree = {}, !.files = <<>>, !.sel = None] ELSE e, x, id)

-----------------------------------------------------------------------------
(* Loading *)

CsvInto(e, o, r) == [e EXCEPT !.objs[o] = r.cfg, !.err = r.err, !.dflt = IF r.err THEN @ ELSE r.cfg.xml]
BinInto(e, o, r) ==
  IF r.err THEN [e EXCEPT !.objs[o] = r.cfg, !.err = TRUE] ELSE RefreshConfigDataPage([e EXCEPT !.objs[o] = r.cfg])
LoadInto(e, o, kind, input) ==
  CASE kind = "csv" -> CsvInto(e, o, OverrideDefaultValue(e.objs[o], input))
    [] kind = "bin" -> BinInto(e, o, LoadDefaultFromBin(e.objs[o], input))
    [] kind = "svd" -> BinInto(e, o, LoadFromSvd(e.objs[o], input))

\* The loops over cfg_data_list end with the first exception.
LoadNext(e, o, kind, input) ==
  IF e.err THEN e ELSE IF o = 0 THEN Fail(e) ELSE LoadInto(e, o, kind, input)
LoadEach(e, kind, input) ==
  LET after[n \in 0..Len(e.files)] ==
        IF n = 0 THEN e ELSE LoadNext(after[n - 1], e.files[n].obj, kind, input)
  IN  after[Len(e.files)]

\* load_delta_file: an exception, or a file that applies to no knob, is shown and
\* returns before the page is refreshed.
AppliesToNone(e, csv) ==
  \A n \in Loadeds(e) : OverrideDefaultValue(e.objs[e.files[n].obj], csv).count = 0
Refreshed(all, unused) == IF all.err \/ unused THEN all ELSE RefreshConfigDataPage(all)
LoadDeltaFile(e, csv) == Refreshed(LoadEach(e, "csv", csv), AppliesToNone(e, csv))

\* load_bin_file: each file is loaded and the page refreshed.
LoadBinFile(e, bin) == LoadEach(e, "bin", bin)
LoadSvdFile(e, settings) == LoadEach(e, "svd", settings)

\* print_diff_cfg compares the file whose file_id is one less than the number of
\* files with the default object.  Whether it raises depends on the XML files only.
PrintDiffRaises(e) ==
  /\ e.path # None /\ e.files # <<>>
  /\ \A n \in DOMAIN e.files : e.files[n].id = Len(e.files) - 1 =>
       e.files[n].obj = 0 \/ print_diff_raises[e.path][e.dflt][e.objs[e.files[n].obj].xml]

-----------------------------------------------------------------------------
(* The constructor: the arguments in order.  idx counts all of them. *)

Init ==
  /\ ed = Empty
  /\ session \in Sessions /\ args = [left |-> session.line, idx |-> 0]
  /\ disk = [bin |-> None, svd |-> None, csv |-> [x \in DOMAIN knobs |-> None]]
  /\ nvram = {} /\ last = [op |-> "start", ok |-> TRUE] /\ torn = FALSE /\ events = 0

\* Errors of .csv and .vl files are shown in a box; an XML file that raises, or the
\* comparison after a .vl file, ends the program.  Another file ends the loop.
Handled(a) ==
  CASE a.kind = "xml" -> LoadCfgFile(ed, a.file, args.idx, FALSE)
    [] a.kind = "csv" -> LoadDeltaFile(ed, a.file)
    [] a.kind = "vl" -> LoadBinFile(ed, a.file)
    [] a.kind = "other" -> ed
Raised(kind, e) == (kind = "xml" /\ e.err) \/ (kind = "vl" /\ ~e.err /\ PrintDiffRaises(e))
NextArgument(a) ==
  IF a.kind = "other" \/ Len(args.left) = 1 THEN [left |-> <<>>, idx |-> 0]
  ELSE [left |-> Tail(args.left), idx |-> args.idx + 1]

StartArgument ==
  /\ args.left # <<>> /\ last.ok
  /\ \E a \in {Head(args.left)} : \E e \in {Handled(a)} :
       /\ ed' = [e EXCEPT !.err = FALSE]
       /\ last' = [op |-> a.kind, ok |-> ~Raised(a.kind, e)]
       /\ torn' = (torn \/ (a.kind # "xml" /\ e.err))
       /\ args' = NextArgument(a)
  /\ UNCHANGED <<session, disk, nvram, events>>

Running == args.left = <<>> /\ (events > 0 \/ last.ok) /\ events < session.max

-----------------------------------------------------------------------------
(* Events of the user *)

Event(op, e) ==
  /\ op \in session.kinds
  /\ ed' = [e EXCEPT !.err = FALSE]
  /\ last' = [op |-> op, ok |-> ~e.err]
  /\ torn' = (torn \/ (op \in {"load_csv", "load_bin", "load_svd", "load_runtime", "set_runtime"} /\ e.err))
  /\ events' = events + 1 /\ UNCHANGED <<session, args>>

\* load_from_ml: the new file_id is the number of files.
OpenXml ==
  \E x \in Offered :
    Event("open", LoadCfgFile(ed, x, Len(ed.files), FALSE)) /\ UNCHANGED <<disk, nvram>>

OpenXmlAndClear ==
  \E x \in Offered :
    Event("clear", LoadCfgFile(ed, x, 0, TRUE)) /\ UNCHANGED <<disk, nvram>>

SelectPage ==
  \E page \in ed.tree :
    Event("select", OnSelectChange([ed EXCEPT !.sel = page])) /\ UNCHANGED <<disk, nvram>>

\* Typing into the field of a number.
TypeEntry ==
  \E i \in DOMAIN ed.wid.text, text \in Entries :
    /\ subknobs[ed.objs[ed.wid.obj].xml][i].fmt.kind \in {"int", "float"}
    /\ Event("type", [ed EXCEPT !.wid.text[i] = text, !.wid.typed = @ \union {i}])
    /\ UNCHANGED <<disk, nvram>>

\* combo_select_changed: the field is copied at once.
SelectCombo ==
  \E i \in DOMAIN ed.wid.text :
    \E option \in GetCfgItemOptions(ed.objs[ed.wid.obj].xml, i) :
      Event("combo", UpdateFromWidget([ed EXCEPT !.wid.text[i] = option], i)) /\ UNCHANGED <<disk, nvram>>

\* previous_page, go_to_page, next_page: there are buttons when the page has parts.
ShowAgain(up) == IF up.err THEN up ELSE BuildConfigDataPage(up, up.wid.page)
TurnPage ==
  /\ ed.wid # NoWidgets /\ ed.total > 1
  /\ \E n \in 0..(ed.total - 1) : Event("turn", ShowAgain(UpdateConfigDataOnPage([ed EXCEPT !.cur = n])))
  /\ UNCHANGED <<disk, nvram>>

LoadFromDelta ==
  \E csv \in (UserCsvs \union {disk.csv[x] : x \in DOMAIN knobs}) \ {None} :
    ed.menu /\ Event("load_csv", LoadDeltaFile(ed, csv)) /\ UNCHANGED <<disk, nvram>>

LoadFromBin ==
  \E bin \in (UserBins \union {disk.bin}) \ {None} :
    ed.menu /\ Event("load_bin", LoadBinFile(ed, bin)) /\ UNCHANGED <<disk, nvram>>

LoadSvd ==
  \E svd \in (UserSvds \union {disk.svd}) \ {None} :
    ed.menu /\ Event("load_svd", LoadSvdFile(ed, svd)) /\ UNCHANGED <<disk, nvram>>

\* The lists of all files one after the other, or Error.
AllBinaries(e, Of(_)) ==
  IF \E n \in DOMAIN e.files : e.files[n].obj = 0 \/ Of(e.objs[e.files[n].obj]) = Error THEN Error
  ELSE FlattenSeq([n \in DOMAIN e.files |-> Of(e.objs[e.files[n].obj])])
FullList(e) == IF e.err THEN Error ELSE AllBinaries(e, GenerateBinaryArray)
DeltaList(e) == IF e.err THEN Error ELSE AllBinaries(e, GenerateDeltaBinaryArray)
Save(op, e, list) == Event(op, IF list = Error THEN Fail(e) ELSE e) /\ UNCHANGED nvram

\* save_to_bin opens the file before it asks the objects.
SaveToBin ==
  /\ ed.menu
  /\ \E e \in {UpdateConfigDataOnPage(ed)} : \E list \in {FullList(e)} :
       /\ Save("save_bin", e, list)
       /\ disk' = IF e.err THEN disk ELSE [disk EXCEPT !.bin = IF list = Error THEN <<>> ELSE list]

\* save_delta_to_bin asks the objects first.
SaveDeltaToBin ==
  /\ ed.menu
  /\ \E e \in {UpdateConfigDataOnPage(ed)} : \E list \in {DeltaList(e)} :
       /\ Save("save_delta_bin", e, list)
       /\ disk' = IF list = Error THEN disk ELSE [disk EXCEPT !.bin = list]

\* save_to_svd: one setting for each variable.  The changed ones are looked for when
\* all have been packed.
SvdList(e, full) == IF full \/ FullList(e) = Error THEN FullList(e) ELSE DeltaList(e)
Singly(list) == [n \in DOMAIN list |-> <<list[n]>>]
SaveToSvd ==
  /\ ed.menu
  /\ \E full \in BOOLEAN, e \in {UpdateConfigDataOnPage(ed)} : \E list \in {SvdList(e, full)} :
       /\ Save("save_svd", e, list)
       /\ disk' = IF list = Error THEN disk ELSE [disk EXCEPT !.svd = Singly(list)]

\* save_delta_file: a CSV file for each XML file, which loads its own binary first.
CsvSaved(st, up, o, w) ==
  [e |-> [up EXCEPT !.objs[o] = w.cfg, !.err = w.err],
   csv |-> [st.csv EXCEPT ![up.objs[o].xml] = IF w.opened THEN w.file ELSE @]]
SaveObject(st, up, full, o) ==
  IF up.err \/ o = 0 THEN [st EXCEPT !.e = Fail(up)]
  ELSE CsvSaved(st, up, o, GenerateDeltaFileFromBin(up.objs[o], GenerateBinaryArray(up.objs[o]), full))
SaveUpdated(st, up, full, n) == SaveObject(st, up, full, up.files[n].obj)
SaveDeltaStep(st, full, n) ==
  IF st.e.err THEN st ELSE SaveUpdated(st, UpdateConfigDataOnPage(st.e), full, n)
SaveDeltas(full) ==
  LET after[n \in 0..Len(ed.files)] ==
        IF n = 0 THEN [e |-> ed, csv |-> disk.csv] ELSE SaveDeltaStep(after[n - 1], full, n)
  IN  after[Len(ed.files)]

SaveDeltaFile ==
  /\ ed.menu
  /\ \E full \in BOOLEAN : \E all \in {SaveDeltas(full)} :
       /\ Event("save_csv", all.e)
       /\ disk' = [disk EXCEPT !.csv = all.csv]
  /\ UNCHANGED nvram

-----------------------------------------------------------------------------
(* The variables of the system *)

VarsOf(x) == {[guid |-> knobs[x][k].ns, name |-> <<knobs[x][k].name, <<>> >>] : k \in DOMAIN knobs[x]}
IsOf(v, ids) == [guid |-> v.guid, name |-> v.name] \in ids

\* read_all_uefi_vars for the XML file opened last, in the order of its knobs.
VarsOfKnob(nv, kn) == {v \in nv : v.guid = kn.ns /\ v.name = <<kn.name, <<>> >>}
ReadAllUefiVars(nv, x) == FlattenSeq([k \in DOMAIN knobs[x] |-> SetToSeq(VarsOfKnob(nv, knobs[x][k]))])

\* load_variable_runtime
LoadRuntimeList(e, list) == IF list = <<>> THEN e ELSE LoadBinFile(e, list)
LoadRuntimeInto(e, nv) == LoadRuntimeList(e, ReadAllUefiVars(nv, e.path))

LoadVariableRuntime ==
  ed.menu /\ Event("load_runtime", LoadRuntimeInto(ed, nvram)) /\ UNCHANGED <<disk, nvram>>

\* set_variable_runtime: bin is assigned in the loop over the files, so it is the
\* list of the last one.  The system may refuse an entry, and the rest is not tried.
LastList(e) == GenerateBinaryArray(e.objs[e.files[Len(e.files)].obj])
AfterSetting(list, n) ==
  {v \in nvram : \A i \in 1..n : list[i].guid # v.guid \/ list[i].name # v.name} \union {list[i] : i \in 1..n}
SetVariables(e, list) ==
  \E n \in 0..Len(list) :
    /\ nvram' = AfterSetting(list, n)
    /\ \/ n < Len(list) /\ Event("set_refused", e)
       \/ n = Len(list) /\ Event("set_runtime", LoadRuntimeInto(e, AfterSetting(list, n)))
SetVariableRuntime ==
  /\ ed.menu /\ UNCHANGED disk
  /\ \E e \in {UpdateConfigDataOnPage(ed)} :
       \/ FullList(e) = Error /\ Event("set_runtime", Fail(e)) /\ UNCHANGED nvram
       \/ FullList(e) # Error /\ SetVariables(e, LastList(e))

\* del_all_variable_runtime: the knobs of the XML file opened last; any of the
\* deletions may be refused.
DelAllVariableRuntime ==
  /\ ed.menu
  /\ \E kept \in SUBSET {v \in nvram : IsOf(v, VarsOf(ed.path))} :
       nvram' = {v \in nvram : ~IsOf(v, VarsOf(ed.path))} \union kept
  /\ Event("del_runtime", ed)
  /\ UNCHANGED disk

UserEvent ==
  \/ OpenXml \/ OpenXmlAndClear \/ SelectPage \/ TypeEntry \/ SelectCombo \/ TurnPage
  \/ LoadFromDelta \/ LoadFromBin \/ LoadSvd
  \/ SaveToBin \/ SaveDeltaToBin \/ SaveToSvd \/ SaveDeltaFile
  \/ LoadVariableRuntime \/ SetVariableRuntime \/ DelAllVariableRuntime

Next == StartArgument \/ (Running /\ UserEvent)

Spec == Init /\ [][Next]_vars

-----------------------------------------------------------------------------
(***************************************************************************)
(* What the editor relies on: laws of VariableList.py and of the XML files,*)
(* one value, text or list at a time.                                      *)
(***************************************************************************)

Leaves(x) == {i \in DOMAIN subknobs[x] : subknobs[x][i].leaf}
SameTexts(x, v, w) == \A i \in Leaves(x) : subknob_text(x, v, i) = subknob_text(x, w, i)

\* No two leaves have the same namespace and name.
PathsDiffer(x) ==
  \A i, j \in Leaves(x) :
    subknobs[x][i].name = subknobs[x][j].name /\ knobs[x][subknobs[x][i].k].ns = knobs[x][subknobs[x][j].k].ns
      => i = j

\* The setter of subknob.value: a leaf that is set from a text has the text as its
\* format writes it, and the other leaves keep theirs.
OneLeafIsSet(x, i, v, new, text) ==
  /\ subknob_text(x, new, i) = ReformatValueStr(x, i, text)
  /\ \A j \in Leaves(x) \ {i} : subknob_text(x, new, j) = subknob_text(x, v, j)
SetsOneLeaf(x, i, v, text) ==
  set_subknob_text(x, v, i, text) # Error => OneLeafIsSet(x, i, v, set_subknob_text(x, v, i, text), text)

\* Whether a text is refused does not depend on what the knobs hold.
RefusesAlike(x, i, v, w, text) ==
  set_subknob_text(x, v, i, text) = Error => set_subknob_text(x, w, i, text) = Error

\* The text of a value is written as it is when it is read; so is an option, and no
\* option is refused.
TextStands(x, i, v) ==
  LET text == subknob_text(x, v, i)
  IN  set_subknob_text(x, v, i, text) # Error => ReformatValueStr(x, i, text) = text
OptionsStand(x, i, v) ==
  \A option \in GetCfgItemOptions(x, i) :
    set_subknob_text(x, v, i, option) # Error /\ ReformatValueStr(x, i, option) = option

\* What is packed gives every leaf its text again, whatever the knobs hold, and says
\* nothing to another XML file.
PackedAgain(x, v, own, r) == own # Error => ~r.err /\ SameTexts(x, r.vals, v)
ReadsBack(x, v, w) ==
  PackedAgain(x, v, vlist_to_binary(x, v), uefi_variables_to_knobs(x, w, vlist_to_binary(x, v)))
LeavesAlone(x, w, y, v) ==
  vlist_to_binary(y, v) # Error =>
    uefi_variables_to_knobs(x, w, vlist_to_binary(y, v)) = [vals |-> w, err |-> FALSE]

\* Variables are read one after the other, and none after one that raises.
ReadsInOrder(x, v, s, t) ==
  LET r == uefi_variables_to_knobs(x, v, s)
  IN  uefi_variables_to_knobs(x, v, s \o t) = IF r.err THEN r ELSE uefi_variables_to_knobs(x, r.vals, t)

\* A list is read as it is, or not at all; a CSV file that updates no knob changes
\* no value.
ReadsAll(list) == read_vlist_from_buffer(list) \in {list, Error}
CountsKnobs(x, v, csv) ==
  LET r == read_csv(x, v, csv) IN ~r.err /\ r.count = 0 => r.vals = v

-----------------------------------------------------------------------------
(* Properties *)

ObjectsInSync ==
  \A n \in Loadeds(ed) :
    LET c == ed.objs[ed.files[n].obj]
    IN \A i \in DOMAIN subknobs[c.xml] : subknobs[c.xml][i].leaf => c.shim[i] = subknob_text(c.xml, c.vals, i)

\* Every load and every field that is copied leaves the shim and the schema with one
\* value for each knob (sync_shim_and_schema, set_config_item_value), in each file
\* that is open, and the fields of the page show them (refresh_config_data_page)
\* except where the user has typed, as long as no load has raised.
LeavesInSync ==
  ~torn => /\ ObjectsInSync
           /\ \A i \in DOMAIN ed.wid.text \ ed.wid.typed : ed.wid.text[i] = ed.objs[ed.wid.obj].shim[i]

\* The pages in the tree are of objects that are saved (page_cfg_map, page_list and
\* cfg_data_list agree), whatever files failed to open before.
PagesBelong ==
  \A page \in ed.tree :
    \E n \in DOMAIN ed.files : ed.files[n] = [id |-> ed.pmap[page], obj |-> ed.plist[page]]

\* Going from a struct of many parts to one of few shows a part that exists
\* (build_config_data_page): a page of the tree with parts is never shown empty.
NonEmptyPage == ed.wid.page # None => \E i \in DOMAIN ed.wid.text : TRUE

OpenOnce ==
  \A m, n \in Loadeds(ed) :
    ed.objs[ed.files[m].obj].xml = ed.objs[ed.files[n].obj].xml => m = n

\* After save_to_bin the file has what is on the screen: a text in a field that the
\* format and the bounds accept is the value of that knob in the file, as long as no
\* XML file is open twice.
WhatYouSeeIsSaved ==
  last = [op |-> "save_bin", ok |-> TRUE] /\ OpenOnce =>
    \A i \in DOMAIN ed.wid.text :
      LET c == ed.objs[ed.wid.obj]
          back == uefi_variables_to_knobs(c.xml, Defaulted(c.xml), disk.bin)
      IN ~SetItemValue(c, i, ed.wid.text[i]).err =>
           ~back.err /\ subknob_text(c.xml, back.vals, i) = ReformatValueStr(c.xml, i, ed.wid.text[i])
=============================================================================
