---------------------------- MODULE StandingProofs ---------------------------
(***************************************************************************)
(* What was stored stands: a column an administrator saved, for any number *)
(* of editors, columns and values, the pin of a group's pointer for any    *)
(* number of instances, channels and requests, and the refresh token and   *)
(* the rest of a Codex account, for any number of those who use it.        *)
(*                                                                         *)
(* Columns: what a request is about to write back in a column it does not  *)
(* name is either what the column was last given, or the column is one     *)
(* that a save of the same section overlapped (Pending).  Sections do not  *)
(* share columns, so no other handler can come in between.                 *)
(*                                                                         *)
(* Pins: a request writes the pin it holds, and what it holds comes from   *)
(* its instance's copy or from the row; so once all agree, every step but  *)
(* an administrator's or a restart keeps them so (GoesOn).                 *)
(*                                                                         *)
(* The grant of a Codex account: of those who refresh at once, requests of *)
(* one instance, one asks the issuer and the others find its throttle, so  *)
(* who asks and who saves has the token the issuer takes (InHand, Alone).  *)
(* Its limit: a row that rests is freed by name, and so is memory (Rested, *)
(* Sunk).                                                                  *)
(***************************************************************************)
EXTENDS ChannelSettings, Pointers, CodexAccounts, TLAPS

SettingsSpec == SettingsInit /\ [][SettingsNext]_settingVars

Sections == {MetaColumns, SettingColumns, BasicColumns} \cup {{f} : f \in LoneColumns}
EditRows == [section: SUBSET Columns, asks: Maps(Columns, Stored), writes: Maps(Columns, Stored)]

Shapes ==
    /\ exists \in BOOLEAN /\ saves \in 0..MaxSaves
    /\ saved \in [Columns -> Stored] /\ last \in [Columns -> Stored \cup {Unsure}]
    /\ edits \in [Editors -> EditRows]
    /\ \A e \in Editors :
        /\ edits[e].section = {} \/ \E s \in Sections : edits[e].section = s \cap Columns
        /\ DOMAIN edits[e].asks \subseteq edits[e].section
        /\ edits[e].writes \in [edits[e].section -> Stored]
Pending ==
    \A e \in Editors : \A f \in edits[e].section :
        IF f \in DOMAIN edits[e].asks THEN edits[e].writes[f] = edits[e].asks[f]
        ELSE last[f] = Unsure \/ edits[e].writes[f] = last[f]
SInv == Shapes /\ Pending /\ SavesStand

\* No column belongs to two sections.
LEMMA SectionsApart ==
  ASSUME NEW s \in Sections, NEW t \in Sections, NEW f \in s \cap t
  PROVE  s = t
<1>1. /\ MetaColumns \cap SettingColumns = {} /\ MetaColumns \cap BasicColumns = {}
      /\ SettingColumns \cap BasicColumns = {}
  BY DEF MetaColumns, SettingColumns, BasicColumns
<1>2. /\ LoneColumns \cap MetaColumns = {} /\ LoneColumns \cap SettingColumns = {}
      /\ LoneColumns \cap BasicColumns = {}
  BY DEF MetaColumns, SettingColumns, BasicColumns, LoneColumns
<1>3. QED
  BY <1>1, <1>2 DEF Sections

LEMMA MapsMember ==
  ASSUME NEW fs, NEW vs, NEW gs \in SUBSET fs, NEW m \in [gs -> vs]
  PROVE  m \in Maps(fs, vs)
BY DEF Maps

LEMMA MapsShape ==
  ASSUME NEW fs, NEW vs, NEW m \in Maps(fs, vs)
  PROVE  m \in [DOMAIN m -> vs] /\ DOMAIN m \in SUBSET fs
BY DEF Maps

LEMMA QuietRow == Quiet \in EditRows /\ Quiet.section = {} /\ DOMAIN Quiet.asks = {}
                  /\ Quiet.writes \in [{} -> Stored]
<1>1. NoEdit \in [{} -> Stored] /\ DOMAIN NoEdit = {}
  BY DEF NoEdit
<1>2. NoEdit \in Maps(Columns, Stored)
  BY <1>1, MapsMember
<1>3. QED
  BY <1>1, <1>2 DEF Quiet, EditRows

LEMMA SettingsInitOK == SettingsInit => SInv
<1> SUFFICES ASSUME SettingsInit PROVE SInv
  OBVIOUS
<1>1. Shapes
  <2>1. exists \in BOOLEAN /\ saves \in 0..MaxSaves
    BY SavesAssumption DEF SettingsInit
  <2>2. saved \in [Columns -> Stored] /\ last \in [Columns -> Stored \cup {Unsure}]
    BY DEF SettingsInit, Stored
  <2>3. edits \in [Editors -> EditRows] /\ \A e \in Editors : edits[e] = Quiet
    BY QuietRow DEF SettingsInit
  <2>4. QED
    BY <2>1, <2>2, <2>3, QuietRow DEF Shapes
<1>2. Pending /\ SavesStand
  BY QuietRow DEF SettingsInit, Pending, SavesStand
<1>3. QED
  BY <1>1, <1>2 DEF SInv

\* A request that reads the row goes on with what stands in it.
LEMMA ReadStep ==
  ASSUME SInv, NEW e \in Editors, NEW s \in Sections, NEW a,
         a \in [DOMAIN a -> Stored \cup {Malformed}], ReadRow(e, s, a)
  PROVE  SInv'
<1> DEFINE mine == s \cap Columns
           w == Overlay([f \in mine |-> saved[f]], a)
<1>1. saves' \in 0..MaxSaves /\ UNCHANGED <<exists, saved, last>>
  BY SavesAssumption DEF ReadRow, SInv, Shapes
<1>0. DOMAIN a \subseteq mine
  BY DEF ReadRow
<1>2. CASE edits' = edits
  BY <1>1, <1>2 DEF SInv, Shapes, Pending, SavesStand
<1>3. CASE /\ \A f \in DOMAIN a : a[f] # Malformed
           /\ edits' = [edits EXCEPT ![e] = [section |-> mine, asks |-> a, writes |-> w]]
  <2>1. a \in [DOMAIN a -> Stored] /\ a \in Maps(Columns, Stored)
    <3>1. a \in [DOMAIN a -> Stored]
      BY <1>3
    <3>2. QED
      BY <1>0, <3>1, MapsMember
  <2>2. w \in [mine -> Stored] /\ w \in Maps(Columns, Stored)
    <3>1. w = [f \in mine |-> IF f \in DOMAIN a THEN a[f] ELSE saved[f]]
      BY DEF Overlay
    <3>2. w \in [mine -> Stored]
      BY <3>1, <2>1 DEF SInv, Shapes
    <3>3. QED
      BY <3>2, MapsMember
  <2>3. \A f \in mine : w[f] = IF f \in DOMAIN a THEN a[f] ELSE saved[f]
    BY DEF Overlay
  <2> HIDE DEF w
  <2>4. /\ edits' \in [Editors -> EditRows]
        /\ edits'[e].section = mine /\ edits'[e].asks = a /\ edits'[e].writes = w
        /\ \A o \in Editors : o # e => edits'[o] = edits[o]
    BY <1>3, <2>1, <2>2 DEF SInv, Shapes, EditRows
  <2>5. Shapes'
    BY <1>0, <1>1, <2>2, <2>4 DEF SInv, Shapes
  <2>6. Pending'
    BY <1>1, <2>3, <2>4 DEF SInv, Pending, SavesStand
  <2>7. SavesStand'
    BY <1>1 DEF SInv, SavesStand
  <2>8. QED
    BY <2>5, <2>6, <2>7 DEF SInv
<1>4. QED
  BY <1>2, <1>3 DEF ReadRow

\* A request that writes makes its own columns what it says, and the columns of
\* its section it does not name what they were, unless they are unsure already.
LEMMA WriteStep ==
  ASSUME SInv, NEW e \in Editors, NEW s \in Sections, edits[e].section = s \cap Columns,
         WriteSection(e)
  PROVE  SInv'
<1> DEFINE mine == edits[e]
           others == {o \in Editors \ {e} : edits[o].section = mine.section}
           undoes(f) == \E o \in others : f \notin DOMAIN edits[o].asks
<1>1. /\ edits' = [edits EXCEPT ![e] = Quiet] /\ UNCHANGED <<exists, saves>>
      /\ \/ UNCHANGED <<saved, last>>
         \/ /\ saved' = [f \in Columns |-> IF f \in mine.section THEN mine.writes[f] ELSE saved[f]]
            /\ last' = [f \in Columns |->
                   IF f \notin DOMAIN mine.asks THEN last[f]
                   ELSE IF undoes(f) THEN Unsure ELSE mine.asks[f]]
  BY DEF WriteSection
<1>2. /\ edits' \in [Editors -> EditRows] /\ edits'[e] = Quiet
      /\ \A o \in Editors : o # e => edits'[o] = edits[o]
  BY <1>1, QuietRow DEF SInv, Shapes
<1>3. CASE UNCHANGED <<saved, last>>
  <2>1. Shapes'
    BY <1>1, <1>2, <1>3, QuietRow DEF SInv, Shapes
  <2>2. Pending'
    BY <1>2, <1>3, QuietRow DEF SInv, Pending
  <2>3. QED
    BY <1>3, <2>1, <2>2 DEF SInv, SavesStand
<1>4. CASE /\ saved' = [f \in Columns |-> IF f \in mine.section THEN mine.writes[f] ELSE saved[f]]
           /\ last' = [f \in Columns |->
                  IF f \notin DOMAIN mine.asks THEN last[f]
                  ELSE IF undoes(f) THEN Unsure ELSE mine.asks[f]]
  <2>1. /\ mine.section \subseteq Columns /\ DOMAIN mine.asks \subseteq mine.section
        /\ mine.writes \in [mine.section -> Stored]
        /\ \A f \in DOMAIN mine.asks : mine.writes[f] = mine.asks[f]
    BY DEF SInv, Shapes, Pending, EditRows
  <2>2. \A f \in Columns :
            /\ f \in mine.section => saved'[f] = mine.writes[f]
            /\ f \notin mine.section => saved'[f] = saved[f] /\ last'[f] = last[f]
            /\ f \notin DOMAIN mine.asks => last'[f] = last[f]
            /\ f \in DOMAIN mine.asks => last'[f] = Unsure \/ (~undoes(f) /\ last'[f] = mine.writes[f])
    BY <1>4, <2>1
  <2>3. saved' \in [Columns -> Stored] /\ last' \in [Columns -> Stored \cup {Unsure}]
    BY <1>4, <2>1, <2>2 DEF SInv, Shapes
  <2>4. Shapes'
    BY <1>1, <1>2, <2>3, QuietRow DEF SInv, Shapes
  <2>5. SavesStand'
    BY <2>1, <2>2 DEF SInv, SavesStand, Pending
  <2>6. ASSUME NEW o \in Editors, NEW f \in edits'[o].section
        PROVE  IF f \in DOMAIN edits'[o].asks THEN edits'[o].writes[f] = edits'[o].asks[f]
               ELSE last'[f] = Unsure \/ edits'[o].writes[f] = last'[f]
    <3>1. o # e /\ edits'[o] = edits[o] /\ f \in Columns
      BY <1>2, <2>6, QuietRow DEF SInv, Shapes, EditRows
    <3>2. CASE f \in DOMAIN edits[o].asks
      BY <3>1, <3>2, <2>6 DEF SInv, Pending
    <3>3. CASE f \notin DOMAIN edits[o].asks /\ f \notin DOMAIN mine.asks
      BY <3>1, <3>3, <2>2, <2>6 DEF SInv, Pending
    <3>4. CASE f \notin DOMAIN edits[o].asks /\ f \in DOMAIN mine.asks
      <4>1. f \in mine.section /\ f \in edits[o].section
        BY <3>1, <3>4, <2>1, <2>6
      <4>2. PICK t \in Sections : edits[o].section = t \cap Columns
        BY <4>1 DEF SInv, Shapes
      <4>3. edits[o].section = mine.section
        BY <4>1, <4>2, SectionsApart
      <4>4. undoes(f)
        BY <3>1, <3>4, <4>3
      <4>5. QED
        BY <3>1, <3>4, <4>4, <2>2
    <3>5. QED
      BY <3>2, <3>3, <3>4
  <2>7. Pending'
    BY <2>6 DEF Pending
  <2>8. QED
    BY <2>4, <2>5, <2>7 DEF SInv
<1>5. QED
  BY <1>1, <1>3, <1>4

-----------------------------------------------------------------------------
\* A handler of a section, and one of a single column.
LEMMA SectionStep ==
  ASSUME SInv, NEW e \in Editors, NEW s \in Sections, NEW refused,
         \/ \E a \in Asks(s, refused) : ReadRow(e, s, a)
         \/ edits[e].section = s \cap Columns /\ WriteSection(e)
  PROVE  SInv'
<1>1. ASSUME NEW a \in Asks(s, refused), ReadRow(e, s, a)
      PROVE  SInv'
  <2>1. a \in Maps(s \cap Columns, Stored \cup {Malformed})
    BY DEF Asks
  <2>2. a \in [DOMAIN a -> Stored \cup {Malformed}]
    BY <2>1, MapsShape
  <2>3. QED
    BY <1>1, <2>2, ReadStep
<1>2. QED
  BY <1>1, WriteStep

LEMMA LoneStep ==
  ASSUME SInv, NEW e \in Editors, NEW f \in LoneColumns, SaveLone(e, f) \/ UpdateLone(e, f)
  PROVE  SInv'
<1>1. {f} \in Sections
  BY DEF Sections
<1>2. ASSUME NEW v \in Stored \cup {Malformed}, ReadRow(e, {f}, [x \in {f} |-> v])
      PROVE  SInv'
  BY <1>1, <1>2, ReadStep
<1>3. CASE UpdateLone(e, f)
  BY <1>1, <1>3, WriteStep DEF UpdateLone
<1>4. QED
  BY <1>2, <1>3 DEF SaveLone

LEMMA SettingsNextOK == SInv /\ [SettingsNext]_settingVars => SInv'
<1> SUFFICES ASSUME SInv, [SettingsNext]_settingVars PROVE SInv'
  OBVIOUS
<1>1. CASE UNCHANGED settingVars
  BY <1>1 DEF settingVars, SInv, Shapes, Pending, SavesStand
<1>2. CASE ChannelGoes
  BY <1>2 DEF ChannelGoes, SInv, Shapes, Pending, SavesStand
<1>3. ASSUME NEW e \in Editors,
             \/ SaveMeta(e) \/ UpdateMeta(e) \/ SaveSetting(e) \/ UpdateSetting(e)
             \/ SaveBasics(e) \/ UpdateBasics(e)
      PROVE  SInv'
  <2>1. MetaColumns \in Sections /\ SettingColumns \in Sections /\ BasicColumns \in Sections
    BY DEF Sections
  <2>2. QED
    BY <1>3, <2>1, SectionStep
       DEF SaveMeta, UpdateMeta, SaveSetting, UpdateSetting, SaveBasics, UpdateBasics
<1>4. ASSUME NEW e \in Editors,
             \/ SaveParamOverride(e) \/ UpdateParamOverride(e)
             \/ SaveHeaderOverride(e) \/ UpdateHeaderOverride(e)
             \/ SaveStatusCodeMapping(e) \/ UpdateStatusCodeMapping(e)
             \/ SaveSuffixPreserve(e) \/ UpdateSuffixPreserve(e)
             \/ SaveBlacklist(e) \/ UpdateBlacklist(e) \/ SaveWhitelist(e) \/ UpdateWhitelist(e)
      PROVE  SInv'
  <2>1. {"param_override", "header_override", "status_code_mapping", "model_suffix_preserve",
         "request_body_blacklist", "request_body_whitelist"} \subseteq LoneColumns
    BY DEF LoneColumns
  <2>2. PICK f \in LoneColumns : SaveLone(e, f) \/ UpdateLone(e, f)
    BY <1>4, <2>1 DEF SaveParamOverride, UpdateParamOverride, SaveHeaderOverride,
       UpdateHeaderOverride, SaveStatusCodeMapping, UpdateStatusCodeMapping, SaveSuffixPreserve,
       UpdateSuffixPreserve, SaveBlacklist, UpdateBlacklist, SaveWhitelist, UpdateWhitelist
  <2>3. QED
    BY <2>2, LoneStep
<1>5. QED
  BY <1>1, <1>2, <1>3, <1>4 DEF SettingsNext

\* A column holds what was last saved in it, unless a save that overlapped it in
\* the same section may have put the old value back (updateChannelMetaHandler,
\* updateChannelSettingHandler and the handlers of one column).
THEOREM SavedColumnsStand == SettingsSpec => []SavesStand
<1>1. SInv => SavesStand
  BY DEF SInv
<1>2. QED
  BY <1>1, SettingsInitOK, SettingsNextOK, PTL DEF SettingsSpec

\* Every variable keeps its type, and what a request is about to write is for the
\* columns of its section.
THEOREM SettingsTypeCorrect == SettingsSpec => []SettingsTypeOK
<1>1. SInv => SettingsTypeOK
  BY DEF SInv, Shapes, EditRows, SettingsTypeOK
<1>2. QED
  BY <1>1, SettingsInitOK, SettingsNextOK, PTL DEF SettingsSpec

-----------------------------------------------------------------------------
(* Pins of pointers.                                                       *)

PointersSpec == PointersInit /\ [][PointersNext]_pointerVars

CopyRows == [rec: PointerRows, fresh: BOOLEAN]

LEMMA NothingFits == NoPointer \in PointerRows /\ NoRoute \in RouteRows
BY DEF NoPointer, PointerRows, NoRoute, RouteRows

\* A request that goes on with the pin all agree on disturbs nothing.
LEMMA GoesOn ==
  ASSUME PointersTypeOK, NEW r \in Routers, NEW w \in RouteRows, Proceeds(r, w),
         row' \in PointerRows, copies' \in [Servers -> CopyRows],
         written' \in [Servers -> PointerRows], UNCHANGED pins,
         Agreed => /\ w.op = "idle" \/ w.rec.pinned = row.pinned
                   /\ row'.pinned = row.pinned
                   /\ \A i \in Servers : copies'[i].rec.pinned = row.pinned
  PROVE  PointersTypeOK' /\ (Agreed => Agreed')
<1>1. route' \in [Routers -> RouteRows]
  BY NothingFits DEF Proceeds, PointersTypeOK
<1>2. route'[r] = IF w.op = "idle" THEN NoRoute ELSE w
  BY DEF Proceeds, PointersTypeOK
<1>3. \A q \in Routers \ {r} : route'[q] = route[q]
  BY DEF Proceeds, PointersTypeOK
<1>4. PointersTypeOK'
  BY <1>1 DEF PointersTypeOK, CopyRows
<1>5. Agreed => \A q \in Routers : route'[q].op # "idle" => route'[q].rec.pinned = row.pinned
  BY <1>2, <1>3 DEF Agreed, Routing, NoRoute
<1>6. QED
  BY <1>4, <1>5 DEF Agreed, Routing

LEMMA SyncFits ==
  ASSUME PointersTypeOK, NEW r \in Routers, NEW w \in RouteRows, w.on \in Servers,
         NEW then \in {"ring", "touch"}, Sync(r, w, then), UNCHANGED <<row, written, pins>>
  PROVE  PointersTypeOK' /\ (Agreed => Agreed')
<1> DEFINE copy == copies[w.on]
           v == [w EXCEPT !.rec = copy.rec, !.then = then]
           goes == [v EXCEPT !.op = then]
           reads == [v EXCEPT !.op = "read"]
<1>1. copy \in CopyRows
  BY DEF PointersTypeOK, CopyRows
<1>2. /\ goes \in RouteRows /\ goes.rec = copy.rec
      /\ reads \in RouteRows /\ reads.rec = copy.rec
  BY <1>1 DEF RouteRows, CopyRows
<1>3. Agreed => copy.rec.pinned = row.pinned
  BY DEF Agreed
<1>4. /\ row' \in PointerRows /\ row' = row /\ UNCHANGED pins
      /\ written' \in [Servers -> PointerRows] /\ copies \in [Servers -> CopyRows]
      /\ Agreed => \A i \in Servers : copies[i].rec.pinned = row.pinned
  BY DEF PointersTypeOK, CopyRows, Agreed
<1>5. CASE copy.fresh
  <2>1. UNCHANGED copies /\ Proceeds(r, goes)
    BY <1>5 DEF Sync
  <2> HIDE DEF goes
  <2>2. QED
    BY <1>2, <1>3, <1>4, <2>1, GoesOn
<1>6. CASE ~copy.fresh
  <2>1. copies' = [copies EXCEPT ![w.on] = [copy EXCEPT !.fresh = TRUE]] /\ Proceeds(r, reads)
    BY <1>6 DEF Sync
  <2>2. [copy EXCEPT !.fresh = TRUE] \in CopyRows /\ [copy EXCEPT !.fresh = TRUE].rec = copy.rec
    BY <1>1 DEF CopyRows
  <2>3. copies' \in [Servers -> CopyRows] /\ \A i \in Servers : copies'[i].rec = copies[i].rec
    BY <1>4, <2>1, <2>2
  <2> HIDE DEF reads
  <2>4. QED
    BY <1>2, <1>3, <1>4, <2>1, <2>3, GoesOn
<1>7. QED
  BY <1>5, <1>6

\* What a request copies or remembers is what it holds.
LEMMA HeldFits ==
  ASSUME PointersTypeOK, NEW r \in Routers, ~Routing(r, "idle"), route[r].on \in Servers
  PROVE  LET c == [copies EXCEPT ![route[r].on] = [rec |-> route[r].rec, fresh |-> TRUE]]
         IN  /\ c \in [Servers -> CopyRows]
             /\ Agreed => \A i \in Servers : c[i].rec.pinned = row.pinned
<1>1. route[r].rec \in PointerRows
  BY DEF PointersTypeOK, RouteRows
<1>2. [rec |-> route[r].rec, fresh |-> TRUE] \in CopyRows
  BY <1>1 DEF CopyRows
<1>3. Agreed => route[r].rec.pinned = row.pinned /\ \A i \in Servers : copies[i].rec.pinned = row.pinned
  BY DEF Agreed
<1>4. copies \in [Servers -> CopyRows]
  BY DEF PointersTypeOK, CopyRows
<1>5. QED
  BY <1>2, <1>3, <1>4

\* A request that is under way is at some instance.
Placed == \A r \in Routers : Routing(r, "idle") \/ route[r].on \in Servers
PInv == PointersTypeOK /\ Placed

LEMMA StepFits ==
  ASSUME PInv, NEW r \in Routers, RouteStep(r), UNCHANGED pins
  PROVE  PointersTypeOK' /\ (Agreed => Agreed')
<1> DEFINE w == route[r]
<1> USE DEF PInv
<1>1. w \in RouteRows /\ w.rec \in PointerRows
  BY DEF PointersTypeOK, RouteRows
<1>2. \A op \in {"idle", "read", "store", "note", "ring", "rotate", "try", "touch", "upsert",
                 "write", "remember"} :
        LET v == [w EXCEPT !.op = op] IN v \in RouteRows /\ v.rec = w.rec
  BY <1>1 DEF RouteRows
<1>3. LET v == [w EXCEPT !.op = w.then] IN v \in RouteRows /\ v.rec = w.rec
  BY <1>1 DEF RouteRows
<1>4. Agreed /\ ~Routing(r, "idle") => w.rec.pinned = row.pinned
  BY DEF Agreed
<1>5. /\ row \in PointerRows /\ written \in [Servers -> PointerRows]
      /\ copies \in [Servers -> CopyRows]
      /\ Agreed => \A j \in Servers : copies[j].rec.pinned = row.pinned
  BY DEF PointersTypeOK, CopyRows, Agreed
<1>6. ~Routing(r, "idle") => w.on \in Servers
  BY DEF Placed
<1>7. ASSUME NEW c \in Members \cup {None}, NEW then \in {"rotate", "try", "idle"}, ~Routing(r, "idle"),
             MovesTo(r, c, then), UNCHANGED <<row, copies, written>>
      PROVE  PointersTypeOK' /\ (Agreed => Agreed')
  <2> DEFINE v == [w EXCEPT !.op = "upsert", !.then = then, !.rec.channel = c]
  <2>1. v \in RouteRows /\ v.rec.pinned = w.rec.pinned
    BY <1>1 DEF RouteRows, PointerRows
  <2>2. Proceeds(r, v)
    BY <1>7 DEF MovesTo
  <2> HIDE DEF v
  <2>3. QED
    BY <1>4, <1>5, <1>7, <2>1, <2>2, GoesOn
<1>8. ASSUME NEW i \in Servers, NextFromGroup(r, i)
      PROVE  PointersTypeOK' /\ (Agreed => Agreed')
  <2>1. [NoRoute EXCEPT !.on = i] \in RouteRows /\ [NoRoute EXCEPT !.on = i].on = i
    BY NothingFits DEF RouteRows
  <2>2. QED
    BY <1>8, <2>1, SyncFits DEF NextFromGroup
<1>9. CASE ReadPointerRow(r)
  <2> DEFINE v == [w EXCEPT !.op = "store", !.rec = row]
  <2>1. v \in RouteRows /\ v.rec = row
    BY <1>1, <1>5 DEF RouteRows
  <2>2. Proceeds(r, v) /\ UNCHANGED <<row, copies, written>>
    BY <1>9 DEF ReadPointerRow
  <2> HIDE DEF v
  <2>3. QED
    BY <1>5, <2>1, <2>2, GoesOn
<1>10. CASE ReadFails(r)
  <2>1. ~Routing(r, "idle")
    BY <1>10 DEF ReadFails, Routing
  <2>2. QED
    BY <1>3, <1>4, <1>5, <1>10, <2>1, GoesOn DEF ReadFails
<1>11. CASE StoreCopy(r)
  <2>1. ~Routing(r, "idle")
    BY <1>11 DEF StoreCopy, Routing
  <2>2. QED
    BY <1>2, <1>4, <1>5, <1>6, <1>11, <2>1, HeldFits, GoesOn DEF StoreCopy
<1>12. CASE NoteWritten(r)
  <2>1. ~Routing(r, "idle")
    BY <1>12 DEF NoteWritten, Routing
  <2>2. written' \in [Servers -> PointerRows]
    BY <1>1, <1>5, <1>12 DEF NoteWritten
  <2>3. QED
    BY <1>3, <1>4, <1>5, <1>12, <2>1, <2>2, GoesOn DEF NoteWritten
<1>13. CASE Upsert(r)
  <2>1. ~Routing(r, "idle")
    BY <1>13 DEF Upsert, Routing
  <2>2. written' \in [Servers -> PointerRows] /\ UNCHANGED <<row, copies>>
    BY <1>1, <1>5, <1>13 DEF Upsert
  <2>3. Proceeds(r, [w EXCEPT !.op = w.then]) \/ Proceeds(r, [w EXCEPT !.op = "write"])
    BY <1>13 DEF Upsert
  <2>4. QED
    BY <1>2, <1>3, <1>4, <1>5, <2>1, <2>2, <2>3, GoesOn
<1>14. CASE WriteRow(r)
  <2>1. ~Routing(r, "idle")
    BY <1>14 DEF WriteRow, Routing
  <2>2. row' \in PointerRows /\ (Agreed => row'.pinned = row.pinned)
    BY <1>1, <1>4, <1>5, <1>14, <2>1 DEF WriteRow
  <2>3. QED
    BY <1>2, <1>4, <1>5, <1>14, <2>1, <2>2, GoesOn DEF WriteRow
<1>15. CASE Remember(r)
  <2>1. ~Routing(r, "idle")
    BY <1>15 DEF Remember, Routing
  <2>2. QED
    BY <1>3, <1>4, <1>5, <1>6, <1>15, <2>1, HeldFits, GoesOn DEF Remember
<1>16. CASE StartRing(r)
  <2>1. ~Routing(r, "idle") /\ UNCHANGED <<row, copies, written>>
    BY <1>16 DEF StartRing, Routing
  <2>2. ASSUME NEW c \in Members, Proceeds(r, [w EXCEPT !.op = "rotate", !.rec.channel = c])
        PROVE  PointersTypeOK' /\ (Agreed => Agreed')
    <3> DEFINE v == [w EXCEPT !.op = "rotate", !.rec.channel = c]
    <3>1. v \in RouteRows /\ v.rec.pinned = w.rec.pinned
      BY <1>1 DEF RouteRows, PointerRows
    <3> HIDE DEF v
    <3>2. QED
      BY <1>4, <1>5, <2>1, <2>2, <3>1, GoesOn DEF v
  <2>3. ASSUME NEW op \in {"rotate", "try"}, Proceeds(r, [w EXCEPT !.op = op])
        PROVE  PointersTypeOK' /\ (Agreed => Agreed')
    BY <1>2, <1>4, <1>5, <2>1, <2>3, GoesOn
  <2>4. QED
    BY <1>7, <1>16, <2>1, <2>2, <2>3 DEF StartRing
<1>17. CASE Rotate(r)
  <2>1. ~Routing(r, "idle") /\ UNCHANGED <<row, copies, written>>
    BY <1>17 DEF Rotate, Routing
  <2>2. CASE Proceeds(r, [w EXCEPT !.op = "try"])
    BY <1>2, <1>4, <1>5, <2>1, <2>2, GoesOn
  <2>3. QED
    BY <1>7, <1>17, <2>1, <2>2 DEF Rotate
<1>18. CASE Try(r)
  <2>1. ~Routing(r, "idle") /\ UNCHANGED <<row, written>>
    BY <1>18 DEF Try, Routing
  <2>2. CASE Proceeds(r, NoRoute) /\ UNCHANGED copies
    <3>1. NoRoute.op = "idle"
      BY DEF NoRoute
    <3>2. QED
      BY <1>5, <2>1, <2>2, <3>1, NothingFits, GoesOn
  <2>3. ASSUME NEW c \in Members, Sync(r, [w EXCEPT !.chosen = c], "touch")
        PROVE  PointersTypeOK' /\ (Agreed => Agreed')
    <3>1. [w EXCEPT !.chosen = c] \in RouteRows /\ [w EXCEPT !.chosen = c].on = w.on
      BY <1>1 DEF RouteRows
    <3>2. QED
      BY <1>6, <2>1, <2>3, <3>1, SyncFits
  <2>4. QED
    BY <1>18, <2>2, <2>3 DEF Try
<1>19. CASE Touch(r)
  <2>1. ~Routing(r, "idle") /\ UNCHANGED <<row, copies, written>>
    BY <1>19 DEF Touch, Routing
  <2>2. CASE Proceeds(r, NoRoute)
    <3>1. NoRoute.op = "idle"
      BY DEF NoRoute
    <3>2. QED
      BY <1>5, <2>1, <2>2, <3>1, NothingFits, GoesOn
  <2>3. w.chosen \in Members \cup {None}
    BY <1>1 DEF RouteRows
  <2>4. QED
    BY <1>7, <1>19, <2>1, <2>2, <2>3 DEF Touch
<1>20. QED
  BY <1>8, <1>9, <1>10, <1>11, <1>12, <1>13, <1>14, <1>15, <1>16, <1>17, <1>18, <1>19
     DEF RouteStep

LEMMA StaysPlaced ==
  ASSUME PInv, NEW r \in Routers, RouteStep(r)
  PROVE  Placed'
<1> DEFINE w == route[r]
<1> USE DEF PInv
<1>1. route \in [Routers -> RouteRows] /\ w \in RouteRows
  BY DEF PointersTypeOK
<1>2. ~Routing(r, "idle") => w.on \in Servers
  BY DEF Placed
<1>3. ASSUME NEW v \in RouteRows, v.on \in Servers, Proceeds(r, v)
      PROVE  Placed'
  BY <1>1, <1>3 DEF Proceeds, Placed, Routing, NoRoute
<1>4. ASSUME NEW v \in RouteRows, v.on \in Servers, NEW then \in {"ring", "touch"},
             Sync(r, v, then)
      PROVE  Placed'
  <2>1. copies[v.on].rec \in PointerRows
    BY <1>4 DEF PointersTypeOK
  <2> DEFINE u == [v EXCEPT !.rec = copies[v.on].rec, !.then = then]
  <2>2. \A op \in {then, "read"} : [u EXCEPT !.op = op] \in RouteRows
                                   /\ [u EXCEPT !.op = op].on = v.on
    BY <2>1 DEF RouteRows
  <2>3. Proceeds(r, [u EXCEPT !.op = then]) \/ Proceeds(r, [u EXCEPT !.op = "read"])
    BY <1>4 DEF Sync
  <2> HIDE DEF u
  <2>4. QED
    BY <1>3, <1>4, <2>2, <2>3
<1>5. ASSUME NEW i \in Servers, NextFromGroup(r, i)
      PROVE  Placed'
  <2>1. [NoRoute EXCEPT !.on = i] \in RouteRows /\ [NoRoute EXCEPT !.on = i].on = i
    BY NothingFits DEF RouteRows
  <2>2. QED
    BY <1>4, <1>5, <2>1 DEF NextFromGroup
<1>6. CASE Proceeds(r, NoRoute)
  BY <1>1, <1>6 DEF Proceeds, Placed, Routing, NoRoute
<1>7. ASSUME NEW c \in Members \cup {None}, NEW then \in {"rotate", "try", "idle"},
             ~Routing(r, "idle"), MovesTo(r, c, then)
      PROVE  Placed'
  <2> DEFINE v == [w EXCEPT !.op = "upsert", !.then = then, !.rec.channel = c]
  <2>1. v \in RouteRows /\ v.on = w.on
    BY <1>1 DEF RouteRows, PointerRows
  <2>2. Proceeds(r, v)
    BY <1>7 DEF MovesTo
  <2> HIDE DEF v
  <2>3. QED
    BY <1>2, <1>3, <1>7, <2>1, <2>2
<1>8. ASSUME NEW op \in {"store", "note", "rotate", "try", "write", "remember", w.then},
             ~Routing(r, "idle"), Proceeds(r, [w EXCEPT !.op = op])
      PROVE  Placed'
  <2>1. [w EXCEPT !.op = op] \in RouteRows /\ [w EXCEPT !.op = op].on = w.on
    BY <1>1 DEF RouteRows
  <2>2. QED
    BY <1>2, <1>3, <1>8, <2>1
<1>9. CASE ReadPointerRow(r)
  <2> DEFINE v == [w EXCEPT !.op = "store", !.rec = row]
  <2>1. v \in RouteRows /\ v.on = w.on
    BY <1>1 DEF RouteRows, PointersTypeOK
  <2>2. Proceeds(r, v) /\ ~Routing(r, "idle")
    BY <1>9 DEF ReadPointerRow, Routing
  <2> HIDE DEF v
  <2>3. QED
    BY <1>2, <1>3, <2>1, <2>2
<1>10. CASE ReadFails(r) \/ StoreCopy(r) \/ NoteWritten(r)
  BY <1>8, <1>10 DEF ReadFails, StoreCopy, NoteWritten, Routing
<1>11. CASE Upsert(r) \/ WriteRow(r) \/ Remember(r)
  BY <1>8, <1>11 DEF Upsert, WriteRow, Remember, Routing
<1>12. CASE StartRing(r)
  <2>1. ~Routing(r, "idle")
    BY <1>12 DEF StartRing, Routing
  <2>2. ASSUME NEW c \in Members, Proceeds(r, [w EXCEPT !.op = "rotate", !.rec.channel = c])
        PROVE  Placed'
    <3> DEFINE v == [w EXCEPT !.op = "rotate", !.rec.channel = c]
    <3>1. v \in RouteRows /\ v.on = w.on
      BY <1>1 DEF RouteRows, PointerRows
    <3>2. QED
      BY <1>2, <1>3, <2>1, <2>2, <3>1
  <2>3. QED
    BY <1>7, <1>8, <1>12, <2>1, <2>2 DEF StartRing
<1>13. CASE Rotate(r)
  BY <1>7, <1>8, <1>13 DEF Rotate, Routing
<1>14. CASE Try(r)
  <2>1. ~Routing(r, "idle")
    BY <1>14 DEF Try, Routing
  <2>2. ASSUME NEW c \in Members, Sync(r, [w EXCEPT !.chosen = c], "touch")
        PROVE  Placed'
    <3>1. [w EXCEPT !.chosen = c] \in RouteRows /\ [w EXCEPT !.chosen = c].on = w.on
      BY <1>1 DEF RouteRows
    <3>2. QED
      BY <1>2, <1>4, <2>1, <2>2, <3>1
  <2>3. QED
    BY <1>6, <1>14, <2>2 DEF Try
<1>15. CASE Touch(r)
  <2>1. ~Routing(r, "idle") /\ w.chosen \in Members \cup {None}
    BY <1>1, <1>15 DEF Touch, Routing, RouteRows
  <2>2. QED
    BY <1>6, <1>7, <1>15, <2>1 DEF Touch
<1>16. QED
  BY <1>5, <1>9, <1>10, <1>11, <1>12, <1>13, <1>14, <1>15 DEF RouteStep

\* Every step of requests, time and administrators keeps the types, and all but
\* those of administrators and restarts keep the agreement.
LEMMA PointersNextOK ==
  ASSUME PInv, [PointersNext]_pointerVars
  PROVE  /\ PInv'
         /\ Agreed => Agreed' \/ pins' # pins \/ \E i \in Servers : Restarts(i)
<1> USE DEF PInv
<1>1. CASE UNCHANGED pointerVars
  BY <1>1 DEF pointerVars, PointersTypeOK, Placed, Agreed, Routing
<1>2. ASSUME NEW r \in Routers, RouteStep(r), UNCHANGED pins
      PROVE  PInv' /\ (Agreed => Agreed')
  BY <1>2, StepFits, StaysPlaced
<1>3. ASSUME NEW i \in Servers, Age(i)
      PROVE  PInv' /\ (Agreed => Agreed')
  <2>1. copies[i] \in CopyRows /\ copies \in [Servers -> CopyRows]
    BY DEF PointersTypeOK, CopyRows
  <2>2. copies' = [copies EXCEPT ![i] = [copies[i] EXCEPT !.fresh = FALSE]]
        /\ UNCHANGED <<row, written, route, pins>>
    BY <1>3 DEF Age
  <2>3. copies' \in [Servers -> CopyRows] /\ \A j \in Servers : copies'[j].rec = copies[j].rec
    BY <2>1, <2>2 DEF CopyRows
  <2>4. QED
    BY <2>2, <2>3 DEF PointersTypeOK, Placed, Agreed, Routing, CopyRows
<1>4. ASSUME NEW i \in Servers, Restarts(i)
      PROVE  PInv'
  BY <1>4, NothingFits DEF Restarts, PointersTypeOK, Placed, Routing, NoRoute
<1>5. ASSUME NEW c \in Members \cup {None}, NEW p \in BOOLEAN, Pin(c, p)
      PROVE  PInv' /\ pins' # pins
  <2>1. pins' # pins /\ pins' \in 0..MaxPins
    BY <1>5, PointersAssumption DEF Pin, PointersTypeOK
  <2>2. (p /\ c # None) \in BOOLEAN
    OBVIOUS
  <2>3. row' \in PointerRows /\ UNCHANGED <<copies, written, route>>
    BY <1>5, <2>2 DEF Pin, PointerRows
  <2>4. QED
    BY <2>1, <2>3 DEF PointersTypeOK, Placed, Routing
<1>6. QED
  BY <1>1, <1>2, <1>3, <1>4, <1>5 DEF PointersNext

LEMMA PointersInitOK == PointersInit => PInv
BY NothingFits, PointersAssumption DEF PointersInit, PInv, PointersTypeOK, Placed, Routing, NoRoute

\* A pin, or its absence, that every instance and request has seen stands until an
\* administrator writes or an instance starts anew, for any number of instances,
\* channels and requests (touchChannelGroupPointer).
THEOREM AgreedPinsStand == PointersSpec => PinsStand
<1>1. PointersInit => PInv
  BY PointersInitOK
<1>2. PInv /\ [PointersNext]_pointerVars => PInv'
  BY PointersNextOK
<1>3. PInv /\ [PointersNext]_pointerVars =>
        [Agreed => Agreed' \/ pins' # pins \/ \E i \in Servers : Restarts(i)]_pointerVars
  BY PointersNextOK
<1>4. QED
  BY <1>1, <1>2, <1>3, PTL DEF PointersSpec, PinsStand

-----------------------------------------------------------------------------
(* A Codex account.                                                        *)

CodexSpec == CodexInit /\ [][CodexNext]_codexVars

\* Whoever is at work is on an instance; only polls look at the quota, only requests
\* ask for leave.
Staffed ==
    \A w \in Parties :
        /\ ~Reached(w, "idle") => work[w].on \in Instances
        /\ Reached(w, "quota") => w \in Pollers
        /\ Reached(w, "check") => w \in Callers
\* What worker w has in hand, as long as nothing befell the grant.
InHand(w) ==
    /\ ~Reached(w, "off")
    /\ work[w].op \in {"ask", "save", "quota"} => work[w].token = live
    /\ Reached(w, "check") => work[w].token = live \/ memory[work[w].on].hold
    /\ w \in Callers /\ work[w].op \in {"ask", "save"} => memory[work[w].on].hold
\* Two who refresh are requests of one instance, and one of them at most asks.
Alone(v, w) ==
    Refreshing(v) /\ Refreshing(w) =>
        Throttled(v, w) /\ ~({work[v].op, work[w].op} \subseteq {"ask", "save"})
Grant ==
    account.there /\ ~mishap =>
        /\ account.on
        /\ account.token = live \/ \E w \in Parties : Reached(w, "save")
        /\ \A w \in Parties : InHand(w)
        /\ \A v, w \in Parties : v # w => Alone(v, w)
\* A limit about to be reported, or reported, is in the row or was freed from it.
Reports(w) == Reached(w, "report") /\ work[w].rest = "limit"
Rested ==
    account.there /\ (limits.owed # {} \/ \E w \in Parties : Reports(w)) =>
        account.rest = "limit" \/ limits.freed
Sunk == \A i \in limits.owed : memory[i].cool = "limit" \/ i \in limits.sank
KInv == CodexTypeOK /\ Staffed /\ Grant /\ Rested /\ Sunk

-----------------------------------------------------------------------------
(* Types.                                                                  *)

LEMMA IdleRow == Idle \in WorkRows /\ Idle.op = "idle"
BY CodexAssumption DEF Idle, WorkRows, Tokens, Rests

\* One worker moves.
LEMMA OneGoes ==
  ASSUME work \in [Parties -> WorkRows], NEW w \in Parties, NEW r \in WorkRows, Goes(w, r)
  PROVE  /\ work' \in [Parties -> WorkRows]
         /\ work'[w] = r /\ \A v \in Parties \ {w} : work'[v] = work[v]
BY DEF Goes

Ops == {"idle", "read", "check", "ask", "save", "off", "tire", "send", "rest",
        "report", "failed", "broken", "quota"}

\* The rows workers go to.
LEMMA RowsOfWork ==
  ASSUME NEW entry \in WorkRows, NEW op \in Ops
  PROVE  /\ [entry EXCEPT !.op = op] \in WorkRows
         /\ [entry EXCEPT !.op = op, !.again = TRUE] \in WorkRows
         /\ [entry EXCEPT !.op = op, !.rest = "limit"] \in WorkRows
         /\ \A t \in Tokens : [entry EXCEPT !.op = op, !.token = t] \in WorkRows
         /\ \A t \in Tokens, d \in BOOLEAN :
              [entry EXCEPT !.op = op, !.token = t, !.due = d] \in WorkRows
         /\ \A i \in Instances \cup {NoInstance} : [Idle EXCEPT !.op = op, !.on = i] \in WorkRows
<1>1. [entry EXCEPT !.op = op] \in WorkRows
  BY DEF WorkRows, Ops
<1>2. [entry EXCEPT !.op = op, !.again = TRUE] \in WorkRows
  BY DEF WorkRows, Ops
<1>3. [entry EXCEPT !.op = op, !.rest = "limit"] \in WorkRows
  BY DEF WorkRows, Ops, Rests
<1>4. \A t \in Tokens : [entry EXCEPT !.op = op, !.token = t] \in WorkRows
  BY DEF WorkRows, Ops
<1>5. \A t \in Tokens, d \in BOOLEAN : [entry EXCEPT !.op = op, !.token = t, !.due = d] \in WorkRows
  BY DEF WorkRows, Ops
<1>6. \A i \in Instances \cup {NoInstance} : [Idle EXCEPT !.op = op, !.on = i] \in WorkRows
  BY IdleRow DEF WorkRows, Ops, Idle
<1>7. QED
  BY <1>1, <1>2, <1>3, <1>4, <1>5, <1>6

LEMMA SendsType ==
  ASSUME CodexTypeOK, NEW w \in Parties,
         \/ Sends(w) \/ Leaves(w) \/ Asked(w)
         \/ \E op \in Ops : GoesTo(w, op) \/ Denied(w, op)
         \/ UNCHANGED work
  PROVE  work' \in [Parties -> WorkRows]
<1>1. Idle \in WorkRows /\ [Idle EXCEPT !.op = "send", !.on = work[w].on] \in WorkRows
  BY IdleRow DEF CodexTypeOK, WorkRows, Idle, Tokens
<1>2. \A op \in Ops : [work[w] EXCEPT !.op = op] \in WorkRows
  BY DEF CodexTypeOK, WorkRows, Ops
<1>3. "quota" \in Ops
  BY DEF Ops
<1>4. work \in [Parties -> WorkRows]
  BY DEF CodexTypeOK
<1>5. QED
  BY <1>1, <1>2, <1>3, <1>4, OneGoes DEF Sends, Leaves, Asked, GoesTo, Denied

\* The rows an action may leave behind.
LEMMA TablesFit ==
  ASSUME CodexTypeOK
  PROVE  /\ \A entry \in AccountRows : Updated(entry) \subseteq AccountRows
         /\ InList \in ListRows /\ Forgotten \in MemoryRows
         /\ "none" \in Rests /\ "short" \in Rests /\ "limit" \in Rests
         /\ \A r \in Rests : Over(r) \in Rests
<1>1. account \in AccountRows
  BY DEF CodexTypeOK
<1>2. "none" \in Rests /\ "short" \in Rests /\ "limit" \in Rests
  BY DEF Rests
<1>3. InList \in ListRows
  BY <1>1 DEF InList, ListRows, AccountRows
<1>4. Forgotten \in MemoryRows
  BY <1>2, <1>3 DEF Forgotten, MemoryRows
<1>5. \A entry \in AccountRows : Updated(entry) \subseteq AccountRows
  BY <1>1 DEF Updated
<1>6. \A r \in Rests : Over(r) \in Rests
  BY <1>2 DEF Over
<1>7. QED
  BY <1>2, <1>3, <1>4, <1>5, <1>6

LimitsType == limits \in [owed: SUBSET Instances, sank: SUBSET Instances, freed: BOOLEAN]
Freedom(l) == \E b \in BOOLEAN : l = [limits EXCEPT !.freed = b]
LEMMA LimitsFit ==
  ASSUME LimitsType, NEW i \in Instances, NEW b \in BOOLEAN, NEW S \in SUBSET Instances
  PROVE  /\ [limits EXCEPT !.freed = b] \in [owed: SUBSET Instances, sank: SUBSET Instances, freed: BOOLEAN]
         /\ [limits EXCEPT !.sank = @ \cup S] \in [owed: SUBSET Instances, sank: SUBSET Instances, freed: BOOLEAN]
         /\ [limits EXCEPT !.owed = @ \cup {i}, !.sank = @ \ {i}]
              \in [owed: SUBSET Instances, sank: SUBSET Instances, freed: BOOLEAN]
BY DEF LimitsType

LEMMA CallTypes ==
  ASSUME CodexTypeOK, Staffed, NEW r \in Callers, Call(r)
  PROVE  CodexTypeOK'
<1>1. r \in Parties /\ work[r] \in WorkRows /\ work \in [Parties -> WorkRows]
      /\ account \in AccountRows /\ account.token \in Tokens /\ calls \in 0..MaxCalls
  BY DEF Parties, CodexTypeOK, AccountRows
<1>2. ~Reached(r, "idle") => work[r].on \in Instances
  BY <1>1 DEF Staffed
<1>3. /\ {"check", "ask", "send", "off", "tire", "read", "failed", "broken", "rest", "report"} \subseteq Ops
      /\ TRUE \in BOOLEAN /\ FALSE \in BOOLEAN
  BY DEF Ops
<1>4. LimitsType /\ MaxCalls \in Nat
  BY CodexAssumption DEF CodexTypeOK, LimitsType
<1>5. ASSUME NEW i \in Instances, NEW bound \in BOOLEAN, Select(r, i, bound)
      PROVE  CodexTypeOK'
  <2>1. calls' \in 0..MaxCalls
    BY <1>1, <1>4, <1>5 DEF Select, Enters
  <2>2. work' \in [Parties -> WorkRows]
    BY <1>1, <1>3, <1>5, RowsOfWork, OneGoes DEF Select, Enters
  <2>3. QED
    BY <2>1, <2>2, <1>5 DEF Select, Enters, CodexTypeOK
<1>6. CASE ReadSecret(r)
  <2>1. work' \in [Parties -> WorkRows]
    <3>1. [work[r] EXCEPT !.op = "check", !.token = account.token, !.due = TRUE] \in WorkRows
      BY <1>1, <1>3, RowsOfWork
    <3>2. QED
      BY <1>1, <1>3, <1>6, <3>1, OneGoes, SendsType DEF ReadSecret
  <2>2. mishap' \in BOOLEAN
    BY <1>6 DEF ReadSecret, CodexTypeOK
  <2>3. QED
    BY <1>6, <2>1, <2>2 DEF ReadSecret, CodexTypeOK
<1>7. CASE ShouldAttemptRefresh(r)
  <2>1. work' \in [Parties -> WorkRows]
    BY <1>1, <1>3, <1>7, SendsType DEF ShouldAttemptRefresh
  <2>2. work[r].on \in Instances
    BY <1>2, <1>7 DEF ShouldAttemptRefresh, Reached
  <2>3. memory' \in [Instances -> MemoryRows]
    <3>1. UNCHANGED memory \/ memory' = [memory EXCEPT ![work[r].on].hold = TRUE]
      BY <1>7 DEF ShouldAttemptRefresh
    <3>2. memory \in [Instances -> MemoryRows]
      BY DEF CodexTypeOK
    <3>3. QED
      BY <2>2, <3>1, <3>2 DEF MemoryRows
  <2>4. QED
    BY <1>7, <2>1, <2>3 DEF ShouldAttemptRefresh, CodexTypeOK
<1>8. CASE TurnOff(r)
  <2>1. account' \in AccountRows
    BY <1>1, <1>8 DEF TurnOff, Updated, AccountRows
  <2>2. QED
    BY <1>1, <1>8, <2>1, SendsType DEF TurnOff, CodexTypeOK
<1>9. CASE Tire(r)
  <2>1. account' \in AccountRows
    BY <1>1, <1>9 DEF Tire, Updated, AccountRows, Rests
  <2>2. limits' \in [owed: SUBSET Instances, sank: SUBSET Instances, freed: BOOLEAN]
    BY <1>4, <1>9 DEF Tire, RowFreed, LimitsType
  <2>3. QED
    BY <1>1, <1>9, <2>1, <2>2, SendsType DEF Tire, CodexTypeOK
<1>10. CASE Answered(r)
  <2>1. [work[r] EXCEPT !.op = "rest", !.rest = "limit"] \in WorkRows
    BY <1>1, <1>3, RowsOfWork
  <2>2. work' \in [Parties -> WorkRows]
    BY <1>1, <1>3, <1>10, <2>1, SendsType, OneGoes DEF Answered
  <2>3. QED
    BY <1>10, <2>2 DEF Answered, CodexTypeOK
<1>11. CASE SetCooldown(r)
  <2>1. account' \in AccountRows
    BY <1>1, <1>11 DEF SetCooldown, Updated, AccountRows, WorkRows
  <2>2. limits' \in [owed: SUBSET Instances, sank: SUBSET Instances, freed: BOOLEAN]
    BY <1>4, <1>11 DEF SetCooldown, LimitsType
  <2>3. QED
    BY <1>1, <1>3, <1>11, <2>1, <2>2, SendsType DEF SetCooldown, CodexTypeOK
<1>12. ASSUME NEW rest \in Rests, Cools(work[r].on, rest), work[r].on \in Instances
       PROVE  /\ memory' \in [Instances -> MemoryRows]
              /\ limits' \in [owed: SUBSET Instances, sank: SUBSET Instances, freed: BOOLEAN]
  <2>1. memory' \in [Instances -> MemoryRows]
    BY <1>12 DEF Cools, CodexTypeOK, MemoryRows
  <2>2. {work[r].on} \in SUBSET Instances
    BY <1>12
  <2>3. QED
    BY <1>4, <1>12, <2>1, <2>2, LimitsFit DEF Cools, LimitsType
<1>13. CASE ReportExhausted(r)
  <2>1. work[r].on \in Instances
    BY <1>2, <1>13 DEF ReportExhausted, Reached
  <2>2. QED
    BY <1>1, <1>12, <1>13, <2>1, SendsType, TablesFit DEF ReportExhausted, CodexTypeOK
<1>14. CASE ReportFailure(r)
  <2>1. work[r].on \in Instances
    BY <1>2, <1>14 DEF ReportFailure, Reached
  <2>2. calls' \in 0..MaxCalls
    BY <1>1, <1>4, <1>14 DEF ReportFailure
  <2>3. QED
    BY <1>1, <1>3, <1>12, <1>14, <2>1, <2>2, SendsType, TablesFit DEF ReportFailure, CodexTypeOK
<1>15. QED
  BY <1>5, <1>6, <1>7, <1>8, <1>9, <1>10, <1>11, <1>13, <1>14 DEF Call

LEMMA PollTypes ==
  ASSUME CodexTypeOK, Staffed, NEW p \in Pollers, Poll(p)
  PROVE  CodexTypeOK'
<1>1. p \in Parties /\ work[p] \in WorkRows /\ work \in [Parties -> WorkRows]
      /\ account \in AccountRows /\ account.token \in Tokens /\ account.due \in BOOLEAN
      /\ calls \in 0..MaxCalls /\ MaxCalls \in Nat
  BY CodexAssumption DEF Parties, CodexTypeOK, AccountRows
<1>2. {"read", "ask", "quota"} \subseteq Ops
  BY DEF Ops
<1>3. ASSUME NEW i \in Instances, Enters(p, i)
      PROVE  CodexTypeOK'
  <2>1. calls' \in 0..MaxCalls
    BY <1>1, <1>3 DEF Enters
  <2>2. work' \in [Parties -> WorkRows]
    BY <1>1, <1>2, <1>3, RowsOfWork, OneGoes DEF Enters
  <2>3. QED
    BY <2>1, <2>2, <1>3 DEF Enters, CodexTypeOK
<1>4. CASE PollReads(p)
  <2>1. work' \in [Parties -> WorkRows]
    <3>1. [work[p] EXCEPT !.op = IF account.due THEN "ask" ELSE "quota",
                          !.token = account.token, !.due = account.due] \in WorkRows
      BY <1>1, <1>2, RowsOfWork
    <3>2. QED
      BY <1>1, <1>4, <3>1, OneGoes, SendsType DEF PollReads
  <2>2. mishap' \in BOOLEAN
    BY <1>4 DEF PollReads, CodexTypeOK
  <2>3. QED
    BY <1>4, <2>1, <2>2 DEF PollReads, CodexTypeOK
<1>5. CASE FetchQuota(p)
  <2>1. [work[p] EXCEPT !.op = "ask", !.again = TRUE] \in WorkRows
    BY <1>1, <1>2, RowsOfWork
  <2>2. work' \in [Parties -> WorkRows]
    BY <1>1, <1>5, <2>1, SendsType, OneGoes DEF FetchQuota
  <2>3. QED
    BY <1>5, <2>2 DEF FetchQuota, CodexTypeOK
<1>6. QED
  BY <1>3, <1>4, <1>5 DEF Poll

LEMMA RefreshTypes ==
  ASSUME CodexTypeOK, NEW w \in Parties, Refresh(w)
  PROVE  CodexTypeOK'
<1>1. /\ work[w] \in WorkRows /\ work \in [Parties -> WorkRows] /\ work[w].token \in Tokens
      /\ work[w].due \in BOOLEAN /\ live \in Tokens
  BY DEF CodexTypeOK, WorkRows
<1>2. {"save", "off", "tire"} \subseteq Ops /\ Renewed \subseteq Tokens /\ {live} \subseteq Tokens
  BY <1>1 DEF Ops, Renewed
<1>3. CASE Refreshed(w)
  <2>1. live' \in Tokens
    BY <1>2, <1>3 DEF Refreshed
  <2>2. [work[w] EXCEPT !.op = "save", !.token = live'] \in WorkRows
    BY <1>1, <1>2, <2>1, RowsOfWork
  <2>3. QED
    BY <1>1, <1>3, <2>1, <2>2, OneGoes DEF Refreshed, CodexTypeOK
<1>4. CASE Rejected(w)
  BY <1>2, <1>4, SendsType DEF Rejected, CodexTypeOK
<1>5. CASE NoAnswer(w)
  <2>1. live' \in Tokens
    BY <1>2, <1>5 DEF NoAnswer
  <2>2. mishap' \in BOOLEAN
    BY <1>5 DEF NoAnswer, CodexTypeOK
  <2>3. QED
    BY <1>2, <1>5, <2>1, <2>2, SendsType DEF NoAnswer, CodexTypeOK
<1>6. CASE SaveTokens(w)
  <2>1. account' \in AccountRows
    <3>1. /\ [account EXCEPT !.token = work[w].token, !.due = FALSE, !.rest = "none"] \in AccountRows
          /\ [account EXCEPT !.token = work[w].token, !.due = work[w].due, !.rest = "none"]
               \in AccountRows
      BY <1>1 DEF CodexTypeOK, AccountRows, Rests
    <3>2. QED
      BY <1>6, <3>1, TablesFit DEF SaveTokens
  <2>2. limits' \in [owed: SUBSET Instances, sank: SUBSET Instances, freed: BOOLEAN]
    BY <1>6 DEF SaveTokens, RowFreed, CodexTypeOK
  <2>3. mishap' \in BOOLEAN
    BY <1>6 DEF SaveTokens, CodexTypeOK
  <2>4. QED
    BY <1>6, <2>1, <2>2, <2>3, SendsType DEF SaveTokens, CodexTypeOK
<1>7. QED
  BY <1>3, <1>4, <1>5, <1>6 DEF Refresh

LEMMA ElseTypes ==
  ASSUME CodexTypeOK,
         \/ \E i \in Instances :
              ListAccounts(i) \/ Restarted(i) \/ HoldLapses(i) \/ CooldownEnds(i)
         \/ DeleteAccount \/ Revoked \/ TokenAges \/ RestEnds \/ LimitEnds
  PROVE  CodexTypeOK'
<1>1. /\ work \in [Parties -> WorkRows] /\ memory \in [Instances -> MemoryRows]
      /\ TRUE \in BOOLEAN /\ FALSE \in BOOLEAN /\ LimitsType
  BY DEF CodexTypeOK, LimitsType
<1>2. ASSUME NEW i \in Instances, ListAccounts(i) \/ HoldLapses(i) \/ CooldownEnds(i)
      PROVE  CodexTypeOK'
  <2>1. memory' \in [Instances -> MemoryRows]
    <3>1. CASE ListAccounts(i)
      BY <1>1, <3>1, TablesFit DEF ListAccounts, MemoryRows
    <3>2. CASE HoldLapses(i)
      BY <1>1, <3>2 DEF HoldLapses, MemoryRows
    <3>3. CASE CooldownEnds(i)
      BY <1>1, <3>3 DEF CooldownEnds, MemoryRows, Rests
    <3>4. QED
      BY <1>2, <3>1, <3>2, <3>3
  <2>2. mishap' \in BOOLEAN
    BY <1>2 DEF ListAccounts, HoldLapses, CooldownEnds, CodexTypeOK
  <2>3. QED
    BY <1>2, <2>1, <2>2 DEF ListAccounts, HoldLapses, CooldownEnds, CodexTypeOK
<1>3. CASE DeleteAccount \/ TokenAges \/ RestEnds
  <2>1. account' \in AccountRows
    <3>1. CASE DeleteAccount
      BY <3>1 DEF DeleteAccount, CodexTypeOK, AccountRows, Rests
    <3>2. CASE TokenAges
      BY <3>2 DEF TokenAges, CodexTypeOK, AccountRows
    <3>3. CASE RestEnds
      BY <3>3 DEF RestEnds, CodexTypeOK, AccountRows, Rests
    <3>4. QED
      BY <1>3, <3>1, <3>2, <3>3
  <2>2. QED
    BY <1>3, <2>1 DEF DeleteAccount, TokenAges, RestEnds, CodexTypeOK
<1>4. CASE Revoked
  BY <1>4, CodexAssumption DEF Revoked, CodexTypeOK, Tokens
<1>5. ASSUME NEW i \in Instances, Restarted(i)
      PROVE  CodexTypeOK'
  <2>1. memory' \in [Instances -> MemoryRows]
    BY <1>1, <1>5, TablesFit DEF Restarted
  <2>2. work' \in [Parties -> WorkRows]
    BY <1>1, <1>5, IdleRow DEF Restarted
  <2>3. mishap' \in BOOLEAN
    BY <1>5 DEF Restarted, CodexTypeOK
  <2>4. limits' \in [owed: SUBSET Instances, sank: SUBSET Instances, freed: BOOLEAN]
    BY <1>5, LimitsFit, <1>1 DEF Restarted, LimitsType
  <2>5. QED
    BY <1>5, <2>1, <2>2, <2>3, <2>4 DEF Restarted, CodexTypeOK
<1>6. CASE LimitEnds
  <2>1. account' \in AccountRows
    <3>1. account \in AccountRows /\ account.rest \in Rests
      BY DEF CodexTypeOK, AccountRows
    <3>2. Over(account.rest) \in Rests
      BY <3>1, TablesFit
    <3>3. QED
      BY <1>6, <3>1, <3>2 DEF LimitEnds, AccountRows
  <2>2. \A r \in Rests : Over(r) \in Rests
    BY TablesFit
  <2>3. memory' \in [Instances -> MemoryRows]
    <3>1. ASSUME NEW j \in Instances
          PROVE  [memory[j] EXCEPT !.cool = Over(@), !.seen.rest = Over(@)] \in MemoryRows
      <4>1. /\ memory[j] \in MemoryRows /\ Over(memory[j].cool) \in Rests
            /\ Over(memory[j].seen.rest) \in Rests
        BY <1>1, <2>2 DEF MemoryRows, ListRows
      <4>2. QED
        BY <4>1 DEF MemoryRows, ListRows
    <3>2. QED
      BY <1>6, <3>1 DEF LimitEnds
  <2>4. work' \in [Parties -> WorkRows]
    <3>1. ASSUME NEW w \in Parties
          PROVE  [work[w] EXCEPT !.rest = Over(@)] \in WorkRows
      <4>1. work[w] \in WorkRows /\ Over(work[w].rest) \in Rests
        BY <1>1, <2>2 DEF WorkRows
      <4>2. QED
        BY <4>1 DEF WorkRows
    <3>2. QED
      BY <1>6, <3>1 DEF LimitEnds
  <2>5. QED
    BY <1>6, <2>1, <2>3, <2>4 DEF LimitEnds, CodexTypeOK
<1>7. QED
  BY <1>2, <1>3, <1>4, <1>5, <1>6

\* A worker at work stays on its instance, and requests stay away from quotas.
LEMMA StaffedStays ==
  ASSUME CodexTypeOK, Staffed, [CodexNext]_codexVars
  PROVE  Staffed'
<1>1. work \in [Parties -> WorkRows]
  BY DEF CodexTypeOK
<1>2. ASSUME NEW w \in Parties, NEW entry, Goes(w, entry), entry.op = "idle" \/ entry.on \in Instances,
             entry.op = "quota" => w \in Pollers, entry.op = "check" => w \in Callers
      PROVE  Staffed'
  BY <1>1, <1>2 DEF Goes, Staffed, Reached
<1>3. CASE UNCHANGED work
  BY <1>3 DEF Staffed, Reached
<1>4. ASSUME NEW w \in Parties, Leaves(w)
      PROVE  Staffed'
  BY <1>2, <1>4 DEF Leaves, Idle
<1>5. ASSUME NEW w \in Parties, Sends(w), ~Reached(w, "idle")
      PROVE  Staffed'
  <2>1. work[w].on \in Instances
    BY <1>5 DEF Staffed
  <2>2. QED
    BY <1>2, <1>5, <2>1 DEF Sends, Idle
<1>6. ASSUME NEW w \in Parties, NEW op, GoesTo(w, op), ~Reached(w, "idle"),
             op = "quota" => w \in Pollers, op # "check"
      PROVE  Staffed'
  <2>1. work[w].on \in Instances /\ work[w] \in WorkRows
    BY <1>1, <1>6 DEF Staffed
  <2>2. [work[w] EXCEPT !.op = op].on = work[w].on /\ [work[w] EXCEPT !.op = op].op = op
    BY <2>1 DEF WorkRows
  <2>3. QED
    BY <1>2, <1>6, <2>1, <2>2 DEF GoesTo
<1>7. ASSUME NEW w \in Parties, NEW op \in {"off", "tire"}, Denied(w, op) \/ (w \in Pollers /\ Asked(w)),
             ~Reached(w, "idle")
      PROVE  Staffed'
  BY <1>4, <1>6, <1>7 DEF Denied, Asked, Parties
<1>8. ASSUME NEW r \in Callers, Call(r)
      PROVE  Staffed'
  <2>1. r \in Parties /\ work[r] \in WorkRows
    BY <1>1 DEF Parties
  <2>2. ASSUME NEW i \in Instances, NEW bound \in BOOLEAN, Select(r, i, bound)
        PROVE  Staffed'
    BY <1>2, <2>1, <2>2 DEF Select, Enters, Idle
  <2>3. CASE ReadSecret(r)
    <3>1. [work[r] EXCEPT !.op = "check", !.token = account.token, !.due = TRUE].on = work[r].on
          /\ [work[r] EXCEPT !.op = "check", !.token = account.token, !.due = TRUE].op = "check"
      BY <2>1 DEF WorkRows
    <3>2. ~Reached(r, "idle") /\ work[r].on \in Instances
      BY <2>1, <2>3 DEF ReadSecret, Reached, Staffed
    <3>3. QED
      BY <1>2, <1>5, <1>6, <2>1, <2>3, <3>1, <3>2 DEF ReadSecret
  <2>4. CASE ShouldAttemptRefresh(r) \/ TurnOff(r) \/ Tire(r) \/ SetCooldown(r)
    BY <1>5, <1>6, <2>1, <2>4 DEF ShouldAttemptRefresh, TurnOff, Tire, SetCooldown, Reached
  <2>5. CASE Answered(r)
    <3>1. [work[r] EXCEPT !.op = "rest", !.rest = "limit"].on = work[r].on
          /\ [work[r] EXCEPT !.op = "rest", !.rest = "limit"].op = "rest"
      BY <2>1 DEF WorkRows
    <3>2. ~Reached(r, "idle") /\ work[r].on \in Instances
      BY <2>1, <2>5 DEF Answered, Reached, Staffed
    <3>3. QED
      BY <1>2, <1>4, <1>6, <2>1, <2>5, <3>1, <3>2 DEF Answered
  <2>6. CASE ReportExhausted(r) \/ ReportFailure(r)
    BY <1>4, <1>6, <2>1, <2>6 DEF ReportExhausted, ReportFailure, Reached
  <2>7. QED
    BY <1>8, <2>2, <2>3, <2>4, <2>5, <2>6 DEF Call
<1>9. ASSUME NEW p \in Pollers, Poll(p)
      PROVE  Staffed'
  <2>1. p \in Parties /\ work[p] \in WorkRows
    BY <1>1 DEF Parties
  <2>2. ASSUME NEW i \in Instances, Enters(p, i)
        PROVE  Staffed'
    BY <1>2, <2>1, <2>2 DEF Enters, Idle
  <2>3. CASE PollReads(p)
    <3> DEFINE entry == [work[p] EXCEPT !.op = IF account.due THEN "ask" ELSE "quota",
                                      !.token = account.token, !.due = account.due]
    <3>1. entry.on = work[p].on /\ entry.op \in {"ask", "quota"}
      BY <2>1 DEF WorkRows
    <3>2. work[p].on \in Instances
      BY <2>1, <2>3 DEF PollReads, Reached, Staffed
    <3>3. Leaves(p) \/ Goes(p, entry)
      BY <2>3 DEF PollReads
    <3> HIDE DEF entry
    <3>4. QED
      BY <1>2, <1>4, <2>1, <3>1, <3>2, <3>3
  <2>4. CASE FetchQuota(p)
    <3>1. [work[p] EXCEPT !.op = "ask", !.again = TRUE].on = work[p].on
          /\ [work[p] EXCEPT !.op = "ask", !.again = TRUE].op = "ask"
      BY <2>1 DEF WorkRows
    <3>2. work[p].on \in Instances
      BY <2>1, <2>4 DEF FetchQuota, Reached, Staffed
    <3>3. QED
      BY <1>2, <1>4, <2>1, <2>4, <3>1, <3>2 DEF FetchQuota
  <2>5. QED
    BY <1>9, <2>2, <2>3, <2>4 DEF Poll
<1>10. ASSUME NEW w \in Parties, Refresh(w)
       PROVE  Staffed'
  <2>1. ~Reached(w, "idle")
    BY <1>10 DEF Refresh, Refreshed, Rejected, NoAnswer, SaveTokens, Reached
  <2>2. CASE Refreshed(w)
    <3>1. [work[w] EXCEPT !.op = "save", !.token = live'].on = work[w].on
          /\ [work[w] EXCEPT !.op = "save", !.token = live'].op = "save"
      BY <1>1 DEF WorkRows
    <3>2. QED
      BY <1>2, <2>1, <2>2, <3>1 DEF Refreshed, Staffed
  <2>3. CASE Rejected(w) \/ NoAnswer(w)
    BY <1>3, <1>5, <1>7, <2>1, <2>3 DEF Rejected, NoAnswer
  <2>4. CASE SaveTokens(w)
    BY <1>5, <1>7, <2>1, <2>4 DEF SaveTokens, Parties
  <2>5. QED
    BY <1>10, <2>2, <2>3, <2>4 DEF Refresh
<1>11. ASSUME NEW i \in Instances, Restarted(i)
       PROVE  Staffed'
  BY <1>1, <1>11 DEF Restarted, Staffed, Reached, Idle
<1>12. CASE LimitEnds
  <2>1. \A w \in Parties : work'[w].op = work[w].op /\ work'[w].on = work[w].on
    BY <1>1, <1>12 DEF LimitEnds, WorkRows
  <2>2. QED
    BY <2>1 DEF Staffed, Reached
<1>13. CASE UNCHANGED codexVars
  BY <1>3, <1>13 DEF codexVars
<1>14. CASE DeleteAccount \/ Revoked \/ TokenAges \/ RestEnds
  BY <1>3, <1>14 DEF DeleteAccount, Revoked, TokenAges, RestEnds
<1>15. ASSUME NEW i \in Instances, ListAccounts(i) \/ HoldLapses(i) \/ CooldownEnds(i)
       PROVE  Staffed'
  BY <1>3, <1>15 DEF ListAccounts, HoldLapses, CooldownEnds
<1>16. QED
  BY <1>8, <1>9, <1>10, <1>11, <1>12, <1>13, <1>14, <1>15 DEF CodexNext, Elapse

-----------------------------------------------------------------------------
(* The grant.                                                              *)

\* The worker has the same in hand as before, or lets go of it.
LetsGo(v) ==
    \/ /\ work'[v].op = work[v].op /\ work'[v].token = work[v].token
       /\ work'[v].on = work[v].on
    \/ /\ work'[v].op \in Ops \ {"check", "ask", "save", "quota", "off"}
       /\ ~Reached(v, "save")
\* A step that neither refreshes nor stores a token.
Calm ==
    /\ live' = live /\ (mishap => mishap')
    /\ \A i \in Instances : memory[i].hold => memory'[i].hold
    /\ account'.there => account.there /\ account'.on = account.on /\ account'.token = account.token
    /\ \A v \in Parties : LetsGo(v)

LEMMA CalmKeeps ==
  ASSUME CodexTypeOK, Staffed, Grant, Calm
  PROVE  Grant'
<1>1. SUFFICES ASSUME account'.there, ~mishap'
               PROVE  /\ account'.on
                      /\ account'.token = live' \/ \E w \in Parties : Reached(w, "save")'
                      /\ \A w \in Parties : InHand(w)'
                      /\ \A v, w \in Parties : v # w => Alone(v, w)'
  BY DEF Grant
<1>2. account.there /\ ~mishap
  BY <1>1 DEF Calm
<1>3. account'.on /\ (account'.token = live' \/ \E w \in Parties : Reached(w, "save")')
  BY <1>1, <1>2 DEF Calm, Grant, LetsGo, Reached
<1>4. ASSUME NEW w \in Parties
      PROVE  InHand(w)'
  <2>1. InHand(w) /\ LetsGo(w)
    BY <1>2 DEF Grant, Calm
  <2>2. ~Reached(w, "idle") => work[w].on \in Instances
    BY DEF Staffed
  <2>3. QED
    BY <2>1, <2>2 DEF InHand, LetsGo, Reached, Calm
<1>5. ASSUME NEW v \in Parties, NEW w \in Parties, v # w
      PROVE  Alone(v, w)'
  <2>1. Alone(v, w) /\ LetsGo(v) /\ LetsGo(w)
    BY <1>2, <1>5 DEF Grant, Calm
  <2>2. QED
    BY <2>1 DEF Alone, LetsGo, Refreshing, Throttled, Reached
<1>6. QED
  BY <1>3, <1>4, <1>5

\* Whoever starts to refresh is alone, but for requests of the same instance.
LEMMA Begins ==
  ASSUME Grant, account.there, ~mishap, NEW w \in Parties, ~Overlaps(w)
  PROVE  /\ \A v \in Parties \ {w} : Refreshing(v) =>
              Throttled(v, w) /\ v \in Callers /\ w \in Callers /\ work[v].on = work[w].on
         /\ account.token = live \/ Reached(w, "save") \/
              (w \in Callers /\ memory[work[w].on].hold)
<1>1. ASSUME NEW v \in Parties \ {w}, Refreshing(v)
      PROVE  Throttled(v, w) /\ v \in Callers /\ w \in Callers /\ work[v].on = work[w].on
  BY <1>1 DEF Overlaps, Throttled
<1>2. ASSUME NEW v \in Parties \ {w}, Reached(v, "save")
      PROVE  w \in Callers /\ memory[work[w].on].hold
  <2>1. Refreshing(v) /\ InHand(v)
    BY <1>2 DEF Refreshing, Reached, Grant
  <2>2. QED
    BY <1>1, <1>2, <2>1 DEF InHand, Reached
<1>3. QED
  BY <1>1, <1>2 DEF Grant

LEMMA CallKeepsGrant ==
  ASSUME CodexTypeOK, Staffed, Grant, NEW r \in Callers, Call(r)
  PROVE  Grant'
<1>1. r \in Parties /\ work[r] \in WorkRows /\ work \in [Parties -> WorkRows]
      /\ memory \in [Instances -> MemoryRows] /\ account \in AccountRows
  BY DEF Parties, CodexTypeOK
<1>2. ASSUME ~Reached(r, "save"), NEW entry, Goes(r, entry),
             entry.op \in Ops \ {"check", "ask", "save", "quota", "off"}
      PROVE  \A v \in Parties : LetsGo(v)
  BY <1>1, <1>2 DEF Goes, LetsGo
<1>3. ASSUME ~Reached(r, "save"),
             Sends(r) \/ Leaves(r) \/ \E op \in Ops \ {"check", "ask", "save", "quota", "off"} :
               GoesTo(r, op)
      PROVE  \A v \in Parties : LetsGo(v)
  <2>1. /\ \A op \in Ops : [work[r] EXCEPT !.op = op].op = op
        /\ Idle.op = "idle" /\ [Idle EXCEPT !.op = "send", !.on = work[r].on].op = "send"
        /\ {"idle", "send"} \subseteq Ops
    BY <1>1 DEF WorkRows, Idle, Ops
  <2>2. QED
    BY <1>2, <1>3, <2>1 DEF Sends, Leaves, GoesTo
<1>4. {"send", "read", "failed", "broken", "rest", "report", "tire"} \subseteq Ops
  BY DEF Ops
<1>5. ASSUME NEW i \in Instances, NEW bound \in BOOLEAN, Select(r, i, bound)
      PROVE  Grant'
  <2>1. \A v \in Parties : LetsGo(v)
    BY <1>2, <1>4, <1>5 DEF Select, Enters, Idle, Reached
  <2>2. QED
    BY <1>5, <2>1, CalmKeeps DEF Select, Enters, Calm
<1>6. CASE ReadSecret(r)
  <2>1. ~Reached(r, "save") /\ UNCHANGED <<account, live, memory>> /\ (mishap => mishap')
    <3>1. ~Reached(r, "save") /\ UNCHANGED <<account, live, memory>>
      BY <1>6 DEF ReadSecret, Reached
    <3>2. mishap => mishap'
      BY <1>6 DEF ReadSecret
    <3>3. QED
      BY <3>1, <3>2
  <2>2. CASE GoesTo(r, "broken") \/ Sends(r)
    BY <1>3, <1>4, <2>1, <2>2, CalmKeeps DEF Calm
  <2> DEFINE entry == [work[r] EXCEPT !.op = "check", !.token = account.token, !.due = TRUE]
  <2>3. CASE Goes(r, entry) /\ mishap' = (mishap \/ Overlaps(r)) /\ account.there
    <3>1. entry.op = "check" /\ entry.token = account.token /\ entry.on = work[r].on
      BY <1>1 DEF WorkRows
    <3>2. work'[r] = entry /\ \A v \in Parties \ {r} : work'[v] = work[v]
      BY <1>1, <2>3 DEF Goes
    <3> HIDE DEF entry
    <3>3. SUFFICES ASSUME ~mishap'
                   PROVE  Grant'
      BY DEF Grant
    <3>4. ~Overlaps(r) /\ ~mishap
      BY <2>3, <3>3
    <3>5. account'.on /\ (account'.token = live' \/ \E w \in Parties : Reached(w, "save")')
      BY <2>1, <2>3, <3>2, <3>4 DEF Grant, Reached
    <3>6. ASSUME NEW w \in Parties
          PROVE  InHand(w)'
      <4>1. CASE w = r
        BY <2>1, <2>3, <3>1, <3>2, <3>4, <4>1, Begins DEF InHand, Reached
      <4>2. CASE w # r
        BY <2>1, <2>3, <3>2, <3>4, <4>2 DEF Grant, InHand, Reached
      <4>3. QED
        BY <4>1, <4>2
    <3>7. ASSUME NEW v \in Parties, NEW w \in Parties, v # w
          PROVE  Alone(v, w)'
      <4>1. CASE v # r /\ w # r
        BY <2>3, <3>2, <3>4, <3>7, <4>1 DEF Grant, Alone, Refreshing, Throttled
      <4>2. ASSUME NEW u \in Parties \ {r}
            PROVE  Alone(u, r)' /\ Alone(r, u)'
        <5>1. Refreshing(u) => u \in Callers /\ r \in Callers /\ work[u].on = work[r].on
          BY <1>1, <2>3, <3>4, Begins
        <5>2. QED
          BY <3>1, <3>2, <5>1 DEF Alone, Refreshing, Throttled
      <4>3. QED
        BY <3>7, <4>1, <4>2
    <3>8. QED
      BY <3>5, <3>6, <3>7 DEF Grant
  <2>4. QED
    BY <1>6, <2>2, <2>3 DEF ReadSecret
<1>7. CASE ShouldAttemptRefresh(r)
  <2> DEFINE i == work[r].on
  <2>1. ~Reached(r, "save") /\ Reached(r, "check") /\ UNCHANGED <<account, live, mishap>>
    BY <1>7 DEF ShouldAttemptRefresh, Reached
  <2>2. CASE Sends(r) /\ UNCHANGED memory
    BY <1>3, <1>4, <2>1, <2>2, CalmKeeps DEF Calm
  <2>3. CASE ~memory[i].hold /\ GoesTo(r, "ask") /\ memory' = [memory EXCEPT ![i].hold = TRUE]
    <3>1. i \in Instances
      BY <1>1, <2>1 DEF Staffed, Reached
    <3>2. /\ work'[r].op = "ask" /\ work'[r].token = work[r].token /\ work'[r].on = i
          /\ \A v \in Parties \ {r} : work'[v] = work[v]
      BY <1>1, <2>3 DEF GoesTo, Goes, WorkRows
    <3>3. memory'[i].hold /\ \A j \in Instances : memory[j].hold => memory'[j].hold
      BY <1>1, <2>3, <3>1 DEF MemoryRows
    <3> HIDE DEF i
    <3>4. SUFFICES ASSUME account.there, ~mishap
                   PROVE  Grant'
      BY <2>1 DEF Grant
    <3>5. account'.on /\ (account'.token = live' \/ \E w \in Parties : Reached(w, "save")')
      BY <2>1, <3>2, <3>4 DEF Grant, Reached
    <3>6. ASSUME NEW w \in Parties
          PROVE  InHand(w)'
      <4>1. InHand(w) /\ (~Reached(w, "idle") => work[w].on \in Instances)
        BY <3>4 DEF Grant, Staffed
      <4>2. CASE w = r
        BY <2>1, <2>3, <3>2, <3>3, <4>1, <4>2 DEF InHand, Reached, i
      <4>3. CASE w # r
        BY <2>1, <3>2, <3>3, <4>1, <4>3 DEF InHand, Reached
      <4>4. QED
        BY <4>2, <4>3
    <3>7. ASSUME NEW v \in Parties \ {r}, Refreshing(v)
          PROVE  work[v].op \notin {"ask", "save"} /\ Throttled(v, r) /\ Throttled(r, v)
      <4>1. Alone(v, r) /\ Refreshing(r)
        BY <1>1, <2>1, <3>4 DEF Grant, Reached, Refreshing
      <4>2. InHand(v)
        BY <3>4 DEF Grant
      <4>3. v \in Callers /\ work[v].on = i
        BY <3>7, <4>1 DEF Alone, Throttled, i
      <4>4. QED
        BY <2>3, <3>7, <4>1, <4>2, <4>3 DEF Alone, InHand, Throttled, i
    <3>8. ASSUME NEW v \in Parties, NEW w \in Parties, v # w
          PROVE  Alone(v, w)'
      <4>1. Alone(v, w)
        BY <3>4, <3>8 DEF Grant
      <4>2. CASE v # r /\ w # r
        BY <3>2, <4>1, <4>2 DEF Alone, Refreshing, Throttled
      <4>3. ASSUME NEW u \in Parties \ {r}
            PROVE  Alone(u, r)' /\ Alone(r, u)'
        BY <3>2, <3>7, <4>3 DEF Alone, Refreshing, Throttled, i
      <4>4. QED
        BY <3>8, <4>2, <4>3
    <3>9. QED
      BY <3>5, <3>6, <3>8 DEF Grant
  <2>4. QED
    BY <1>7, <2>2, <2>3 DEF ShouldAttemptRefresh
<1>8. CASE TurnOff(r)
  BY <1>1, <1>8 DEF TurnOff, Grant, InHand, Updated, AccountRows
<1>9. CASE Tire(r)
  <2>1. account'.there => account.there /\ account'.on = account.on /\ account'.token = account.token
    BY <1>1, <1>9 DEF Tire, Updated, AccountRows
  <2>2. QED
    BY <1>3, <1>9, <2>1, CalmKeeps DEF Tire, Calm, Reached
<1>10. CASE Answered(r)
  <2>1. [work[r] EXCEPT !.op = "rest", !.rest = "limit"].op = "rest"
    BY <1>1 DEF WorkRows
  <2>2. \A v \in Parties : LetsGo(v)
    BY <1>2, <1>3, <1>4, <1>10, <2>1 DEF Answered, Reached
  <2>3. QED
    BY <1>10, <2>2, CalmKeeps DEF Answered, Calm
<1>11. CASE SetCooldown(r)
  <2>1. account'.there => account.there /\ account'.on = account.on /\ account'.token = account.token
    BY <1>1, <1>11 DEF SetCooldown, Updated, AccountRows
  <2>2. QED
    BY <1>3, <1>4, <1>11, <2>1, CalmKeeps DEF SetCooldown, Calm, Reached
<1>12. ASSUME NEW rest, Cools(work[r].on, rest)
       PROVE  \A i \in Instances : memory'[i].hold = memory[i].hold
  BY <1>1, <1>12 DEF Cools, MemoryRows
<1>13. CASE ReportExhausted(r)
  BY <1>3, <1>12, <1>13, CalmKeeps DEF ReportExhausted, Calm, Reached
<1>14. CASE ReportFailure(r)
  BY <1>3, <1>4, <1>12, <1>14, CalmKeeps DEF ReportFailure, Calm, Reached
<1>15. QED
  BY <1>5, <1>6, <1>7, <1>8, <1>9, <1>10, <1>11, <1>13, <1>14 DEF Call

LEMMA PollKeepsGrant ==
  ASSUME CodexTypeOK, Staffed, Grant, NEW p \in Pollers, Poll(p)
  PROVE  Grant'
<1>1. p \in Parties /\ work[p] \in WorkRows /\ work \in [Parties -> WorkRows] /\ p \notin Callers
  BY CodexAssumption DEF Parties, CodexTypeOK
<1>2. ASSUME NEW i \in Instances, Enters(p, i)
      PROVE  Grant'
  <2>1. \A v \in Parties : LetsGo(v)
    BY <1>1, <1>2 DEF Enters, Goes, Idle, LetsGo, Reached, Ops
  <2>2. QED
    BY <1>2, <2>1, CalmKeeps DEF Enters, Calm
<1>3. ASSUME Leaves(p), ~Reached(p, "save"), UNCHANGED <<account, live, memory>>,
             mishap => mishap'
      PROVE  Grant'
  <2>1. \A v \in Parties : LetsGo(v)
    BY <1>1, <1>3 DEF Leaves, Goes, Idle, LetsGo, Ops
  <2>2. QED
    BY <1>3, <2>1, CalmKeeps DEF Calm
<1>4. CASE PollReads(p)
  <2> DEFINE entry == [work[p] EXCEPT !.op = IF account.due THEN "ask" ELSE "quota",
                                    !.token = account.token, !.due = account.due]
  <2>1. Reached(p, "read") /\ UNCHANGED <<account, live, memory>>
    BY <1>4 DEF PollReads
  <2>2. CASE Leaves(p) /\ UNCHANGED mishap
    BY <1>3, <2>1, <2>2 DEF Reached
  <2>3. CASE account.there /\ Goes(p, entry) /\ mishap' = (mishap \/ Overlaps(p))
    <3>1. entry.op \in {"ask", "quota"} /\ entry.token = account.token /\ entry.on = work[p].on
      BY <1>1 DEF WorkRows
    <3>2. work'[p] = entry /\ \A v \in Parties \ {p} : work'[v] = work[v]
      BY <1>1, <2>3 DEF Goes
    <3> HIDE DEF entry
    <3>3. SUFFICES ASSUME ~mishap'
                   PROVE  Grant'
      BY DEF Grant
    <3>4. ~Overlaps(p) /\ ~mishap
      BY <2>3, <3>3
    <3>5. \A v \in Parties \ {p} : ~Refreshing(v)
      BY <1>1, <2>3, <3>4, Begins
    <3>6. account.token = live
      BY <1>1, <2>1, <2>3, <3>4, Begins DEF Reached
    <3>7. account'.on /\ account'.token = live'
      BY <2>1, <2>3, <3>4, <3>6 DEF Grant
    <3>8. ASSUME NEW w \in Parties
          PROVE  InHand(w)'
      <4>1. CASE w = p
        BY <1>1, <2>1, <3>1, <3>2, <3>6, <4>1 DEF InHand, Reached
      <4>2. CASE w # p
        BY <2>1, <2>3, <3>2, <3>4, <4>2 DEF Grant, InHand, Reached
      <4>3. QED
        BY <4>1, <4>2
    <3>9. ASSUME NEW v \in Parties, NEW w \in Parties, v # w
          PROVE  Alone(v, w)'
      BY <3>2, <3>5, <3>9 DEF Alone, Refreshing
    <3>10. QED
      BY <3>7, <3>8, <3>9 DEF Grant
  <2>4. QED
    BY <1>4, <2>2, <2>3 DEF PollReads
<1>5. CASE FetchQuota(p)
  <2> DEFINE entry == [work[p] EXCEPT !.op = "ask", !.again = TRUE]
  <2>1. Reached(p, "quota") /\ UNCHANGED <<account, live, memory, mishap>>
    BY <1>5 DEF FetchQuota
  <2>2. CASE Leaves(p)
    BY <1>3, <2>1, <2>2 DEF Reached
  <2>3. CASE Goes(p, entry)
    <3>1. entry.op = "ask" /\ entry.token = work[p].token /\ entry.on = work[p].on
      BY <1>1 DEF WorkRows
    <3>2. work'[p] = entry /\ \A v \in Parties \ {p} : work'[v] = work[v]
      BY <1>1, <2>3 DEF Goes
    <3> HIDE DEF entry
    <3>3. SUFFICES ASSUME account.there, ~mishap
                   PROVE  Grant'
      BY <2>1 DEF Grant
    <3>4. \A v \in Parties \ {p} : ~Refreshing(v)
      BY <1>1, <2>1, <3>3 DEF Grant, Alone, Throttled, Refreshing, Reached
    <3>5. account'.on /\ (account'.token = live' \/ \E w \in Parties : Reached(w, "save")')
      BY <2>1, <3>2, <3>3 DEF Grant, Reached
    <3>6. ASSUME NEW w \in Parties
          PROVE  InHand(w)'
      <4>1. InHand(w)
        BY <3>3 DEF Grant
      <4>2. CASE w = p
        BY <1>1, <2>1, <3>1, <3>2, <4>1, <4>2 DEF InHand, Reached
      <4>3. CASE w # p
        BY <2>1, <3>2, <4>1, <4>3 DEF InHand, Reached
      <4>4. QED
        BY <4>2, <4>3
    <3>7. ASSUME NEW v \in Parties, NEW w \in Parties, v # w
          PROVE  Alone(v, w)'
      BY <3>2, <3>4, <3>7 DEF Alone, Refreshing
    <3>8. QED
      BY <3>5, <3>6, <3>7 DEF Grant
  <2>4. QED
    BY <1>5, <2>2, <2>3 DEF FetchQuota
<1>6. QED
  BY <1>2, <1>4, <1>5 DEF Poll

LEMMA RefreshKeepsGrant ==
  ASSUME CodexTypeOK, Staffed, Grant, NEW w \in Parties, Refresh(w)
  PROVE  Grant'
<1>1. work[w] \in WorkRows /\ work \in [Parties -> WorkRows] /\ account \in AccountRows
  BY DEF CodexTypeOK
\* A worker leaves the refresh without a trace, or for a while.
<1>2. ASSUME Sends(w) \/ Denied(w, "tire") \/ Leaves(w) \/ UNCHANGED work,
             Reached(w, "ask"), UNCHANGED <<account, live, memory>>, mishap => mishap'
      PROVE  Grant'
  <2>1. CASE ~(w \in Pollers /\ Asked(w) /\ ~work[w].again)
    <3>1. \A v \in Parties : LetsGo(v)
      <4>1. /\ [work[w] EXCEPT !.op = "tire"].op = "tire"
            /\ Idle.op = "idle" /\ [Idle EXCEPT !.op = "send", !.on = work[w].on].op = "send"
            /\ {"idle", "send", "tire"} \subseteq Ops \ {"check", "ask", "save", "quota", "off"}
        BY <1>1 DEF WorkRows, Idle, Ops
      <4>2. ~Reached(w, "save") /\ (w \in Callers \/ w \in Pollers)
        BY <1>2 DEF Reached, Parties
      <4>3. Sends(w) \/ Leaves(w) \/ GoesTo(w, "tire") \/ UNCHANGED work
        BY <1>2, <2>1, <4>2 DEF Denied, Asked
      <4>4. QED
        BY <1>1, <4>1, <4>2, <4>3 DEF Sends, Leaves, GoesTo, Goes, LetsGo
    <3>2. QED
      BY <1>2, <3>1, CalmKeeps DEF Calm
  <2>2. CASE w \in Pollers /\ Asked(w) /\ ~work[w].again
    <3>1. /\ work'[w].op = "quota" /\ work'[w].token = work[w].token
          /\ \A v \in Parties \ {w} : work'[v] = work[v]
      BY <1>1, <2>2 DEF Asked, GoesTo, Goes, WorkRows
    <3>2. SUFFICES ASSUME account.there, ~mishap
                   PROVE  Grant'
      BY <1>2 DEF Grant
    <3>3. w \notin Callers
      BY <2>2, CodexAssumption
    <3>4. \A v \in Parties \ {w} : ~Refreshing(v)
      BY <1>2, <3>2, <3>3 DEF Grant, Alone, Throttled, Refreshing, Reached
    <3>5. account'.on /\ (account'.token = live' \/ \E v \in Parties : Reached(v, "save")')
      BY <1>2, <3>1, <3>2 DEF Grant, Reached
    <3>6. ASSUME NEW v \in Parties
          PROVE  InHand(v)'
      <4>1. InHand(v)
        BY <3>2 DEF Grant
      <4>2. CASE v = w
        BY <1>2, <3>1, <3>3, <4>1, <4>2 DEF InHand, Reached
      <4>3. CASE v # w
        BY <1>2, <3>1, <4>1, <4>3 DEF InHand, Reached
      <4>4. QED
        BY <4>2, <4>3
    <3>7. ASSUME NEW v \in Parties, NEW u \in Parties, v # u
          PROVE  Alone(v, u)'
      BY <3>1, <3>4, <3>7 DEF Alone, Refreshing
    <3>8. QED
      BY <3>5, <3>6, <3>7 DEF Grant
  <2>3. QED
    BY <2>1, <2>2
<1>3. CASE Refreshed(w)
  <2>1. Reached(w, "ask") /\ work[w].token = live /\ UNCHANGED <<account, memory, mishap>>
    BY <1>3 DEF Refreshed
  <2>2. /\ work'[w].op = "save" /\ work'[w].token = live' /\ work'[w].on = work[w].on
        /\ \A v \in Parties \ {w} : work'[v] = work[v]
    BY <1>1, <1>3 DEF Refreshed, Goes, WorkRows
  <2>3. SUFFICES ASSUME account.there, ~mishap
                 PROVE  Grant'
    BY <2>1 DEF Grant
  <2>4. account'.on /\ Reached(w, "save")'
    BY <2>1, <2>2, <2>3 DEF Grant, Reached
  \* Others of the instance find the throttle.
  <2>5. ASSUME NEW v \in Parties \ {w}, Refreshing(v)
        PROVE  Reached(v, "check") /\ memory[work[v].on].hold /\ Throttled(v, w) /\ Throttled(w, v)
    <3>1. Alone(v, w) /\ Refreshing(w) /\ InHand(w)
      BY <2>1, <2>3 DEF Grant, Refreshing, Reached
    <3>2. Throttled(v, w) /\ work[v].op \notin {"ask", "save"}
      BY <2>1, <2>5, <3>1 DEF Alone, Reached
    <3>3. ~Reached(v, "quota")
      BY <2>5, <3>2, CodexAssumption DEF Throttled, Staffed
    <3>4. QED
      BY <2>1, <2>5, <3>1, <3>2, <3>3 DEF Throttled, InHand, Refreshing, Reached
  <2>6. ASSUME NEW v \in Parties
        PROVE  InHand(v)'
    <3>1. InHand(v)
      BY <2>3 DEF Grant
    <3>2. CASE v = w
      BY <2>1, <2>2, <3>1, <3>2 DEF InHand, Reached
    <3>3. CASE v # w
      BY <2>1, <2>2, <2>5, <3>1, <3>3 DEF InHand, Reached, Refreshing
    <3>4. QED
      BY <3>2, <3>3
  <2>7. ASSUME NEW v \in Parties, NEW u \in Parties, v # u
        PROVE  Alone(v, u)'
    <3>1. Alone(v, u)
      BY <2>3, <2>7 DEF Grant
    <3>2. CASE v # w /\ u # w
      BY <2>2, <3>1, <3>2 DEF Alone, Refreshing, Throttled
    <3>3. ASSUME NEW x \in Parties \ {w}
          PROVE  Alone(x, w)' /\ Alone(w, x)'
      BY <2>2, <2>5, <3>3 DEF Alone, Refreshing, Throttled, Reached
    <3>4. QED
      BY <2>7, <3>2, <3>3
  <2>8. QED
    BY <2>4, <2>6, <2>7 DEF Grant
<1>4. CASE Rejected(w)
  <2>1. account.there => mishap
    BY <1>4 DEF Rejected, Grant, InHand, Reached
  <2>2. QED
    BY <1>4, <2>1 DEF Rejected, Grant
<1>5. CASE NoAnswer(w)
  <2>1. live' # live => mishap'
    BY <1>5 DEF NoAnswer
  <2>2. mishap => mishap'
    BY <1>5 DEF NoAnswer
  <2>3. CASE live' = live
    BY <1>2, <1>5, <2>2, <2>3 DEF NoAnswer
  <2>4. CASE live' # live
    BY <2>1, <2>4 DEF Grant
  <2>5. QED
    BY <2>3, <2>4
<1>6. CASE SaveTokens(w)
  <2>1. SUFFICES ASSUME account'.there, ~mishap'
                 PROVE  Grant'
    BY DEF Grant
  <2>2. Reached(w, "save") /\ UNCHANGED <<live, memory>> /\ ~mishap /\ account'.token = work[w].token
    BY <1>6, <2>1 DEF SaveTokens
  <2>3. account.there /\ account'.on = account.on
    BY <1>1, <1>6, <2>1 DEF SaveTokens, Updated, AccountRows
  <2>4. work[w].token = live
    BY <2>2, <2>3 DEF Grant, InHand, Reached
  <2>5. account'.on /\ account'.token = live'
    BY <2>2, <2>3, <2>4 DEF Grant
  <2>6. \A v \in Parties \ {w} : work'[v] = work[v]
    BY <1>1, <1>6 DEF SaveTokens, Sends, Asked, Leaves, GoesTo, Goes
  <2>7. /\ work'[w].op \in {"send", "idle", "quota"}
        /\ work'[w].op = "quota" => w \in Pollers /\ work'[w].token = work[w].token
    <3>1. CASE Sends(w) \/ Leaves(w)
      <4>1. work'[w] = Idle \/ work'[w] = [Idle EXCEPT !.op = "send", !.on = work[w].on]
        BY <1>1, <3>1 DEF Sends, Leaves, Goes
      <4>2. Idle.op = "idle" /\ [Idle EXCEPT !.op = "send", !.on = work[w].on].op = "send"
        BY DEF Idle
      <4>3. QED
        BY <4>1, <4>2
    <3>2. CASE GoesTo(w, "quota") /\ w \in Pollers
      BY <1>1, <3>2 DEF GoesTo, Goes, WorkRows
    <3>3. QED
      BY <1>6, <3>1, <3>2 DEF SaveTokens, Asked, Parties
  <2>8. ASSUME NEW v \in Parties
        PROVE  InHand(v)'
    <3>1. InHand(v)
      BY <2>2, <2>3 DEF Grant
    <3>2. CASE v = w
      BY <2>2, <2>4, <2>7, <3>2 DEF InHand, Reached
    <3>3. CASE v # w
      BY <2>2, <2>6, <3>1, <3>3 DEF InHand, Reached
    <3>4. QED
      BY <3>2, <3>3
  <2>9. ASSUME NEW v \in Parties, NEW u \in Parties, v # u
        PROVE  Alone(v, u)'
    <3>1. Alone(v, u)
      BY <2>2, <2>3, <2>9 DEF Grant
    <3>2. CASE v # w /\ u # w
      BY <2>6, <3>1, <3>2 DEF Alone, Refreshing, Throttled
    <3>3. ASSUME NEW x \in Parties \ {w}
          PROVE  Alone(x, w)' /\ Alone(w, x)'
      <4>1. CASE ~Refreshing(w)'
        BY <4>1 DEF Alone
      <4>2. CASE Refreshing(w)'
        <5>1. w \notin Callers
          BY <2>7, <4>2, CodexAssumption DEF Refreshing
        <5>2. ~Refreshing(x)
          BY <2>2, <2>3, <3>3, <5>1 DEF Grant, Alone, Throttled, Refreshing, Reached
        <5>3. QED
          BY <2>6, <5>2 DEF Alone, Refreshing
      <4>3. QED
        BY <4>1, <4>2
    <3>4. QED
      BY <2>9, <3>2, <3>3
  <2>10. QED
    BY <2>5, <2>8, <2>9 DEF Grant
<1>7. QED
  BY <1>3, <1>4, <1>5, <1>6 DEF Refresh

LEMMA ElseKeepsGrant ==
  ASSUME CodexTypeOK, Staffed, Grant,
         \/ \E i \in Instances :
              ListAccounts(i) \/ Restarted(i) \/ HoldLapses(i) \/ CooldownEnds(i)
         \/ DeleteAccount \/ Revoked \/ TokenAges \/ RestEnds \/ LimitEnds
  PROVE  Grant'
<1>1. /\ work \in [Parties -> WorkRows] /\ memory \in [Instances -> MemoryRows]
      /\ account \in AccountRows
  BY DEF CodexTypeOK
<1>2. CASE UNCHANGED work /\ UNCHANGED live /\ UNCHANGED mishap
           /\ \/ \E i \in Instances : ListAccounts(i) \/ CooldownEnds(i)
              \/ DeleteAccount \/ TokenAges \/ RestEnds
  <2>1. \A v \in Parties : LetsGo(v)
    BY <1>2 DEF LetsGo
  <2>2. \A j \in Instances : memory[j].hold => memory'[j].hold
    BY <1>1, <1>2 DEF ListAccounts, CooldownEnds, DeleteAccount, TokenAges, RestEnds, MemoryRows
  <2>3. account'.there => account.there /\ account'.on = account.on /\ account'.token = account.token
    BY <1>1, <1>2 DEF ListAccounts, CooldownEnds, DeleteAccount, TokenAges, RestEnds, AccountRows
  <2>4. QED
    BY <1>2, <2>1, <2>2, <2>3, CalmKeeps DEF Calm
<1>3. CASE LimitEnds
  <2>1. \A v \in Parties : LetsGo(v)
    BY <1>1, <1>3 DEF LimitEnds, LetsGo, WorkRows
  <2>2. \A j \in Instances : memory'[j].hold = memory[j].hold
    BY <1>1, <1>3 DEF LimitEnds, MemoryRows
  <2>3. account'.there = account.there /\ account'.on = account.on /\ account'.token = account.token
    BY <1>1, <1>3 DEF LimitEnds, AccountRows
  <2>4. QED
    BY <1>3, <2>1, <2>2, <2>3, CalmKeeps DEF LimitEnds, Calm
<1>4. CASE Revoked
  BY <1>4 DEF Revoked, Grant
<1>5. ASSUME NEW i \in Instances, HoldLapses(i)
      PROVE  Grant'
  <2>1. SUFFICES ASSUME account.there, ~mishap'
                 PROVE  Grant'
    BY <1>5 DEF HoldLapses, Grant
  <2>2. ~mishap /\ \A r \in Callers : ~(work[r].on = i /\ Refreshing(r))
    BY <1>5, <2>1 DEF HoldLapses
  <2>3. UNCHANGED <<account, live, work>> /\ \A j \in Instances \ {i} : memory'[j] = memory[j]
    BY <1>1, <1>5 DEF HoldLapses
  <2>4. ASSUME NEW w \in Parties
        PROVE  InHand(w)'
    <3>1. InHand(w) /\ (~Reached(w, "idle") => work[w].on \in Instances)
      BY <2>1, <2>2 DEF Grant, Staffed
    <3>2. w \in Callers \/ ~Reached(w, "check")
      BY DEF Staffed
    <3>3. QED
      BY <2>2, <2>3, <3>1, <3>2 DEF InHand, Reached, Refreshing
  <2>5. QED
    BY <2>1, <2>2, <2>3, <2>4 DEF Grant, Reached, Alone, Refreshing, Throttled
<1>6. ASSUME NEW i \in Instances, Restarted(i)
      PROVE  Grant'
  <2>1. SUFFICES ASSUME account.there, ~mishap'
                 PROVE  Grant'
    BY <1>6 DEF Restarted, Grant
  <2>2. ~mishap /\ \A w \in Parties : ~(work[w].on = i /\ Reached(w, "save"))
    BY <1>6, <2>1 DEF Restarted
  <2>3. /\ UNCHANGED <<account, live>> /\ \A j \in Instances \ {i} : memory'[j] = memory[j]
        /\ \A w \in Parties : IF work[w].on = i THEN work'[w] = Idle ELSE work'[w] = work[w]
    BY <1>1, <1>6 DEF Restarted
  <2>4. account'.on /\ (account'.token = live' \/ \E w \in Parties : Reached(w, "save")')
    BY <2>1, <2>2, <2>3 DEF Grant, Reached
  <2>5. ASSUME NEW w \in Parties
        PROVE  InHand(w)'
    <3>1. InHand(w) /\ (~Reached(w, "idle") => work[w].on \in Instances)
      BY <2>1, <2>2 DEF Grant, Staffed
    <3>2. QED
      BY <2>3, <3>1 DEF InHand, Reached, Idle
  <2>6. ASSUME NEW v \in Parties, NEW w \in Parties, v # w
        PROVE  Alone(v, w)'
    <3>1. Alone(v, w)
      BY <2>1, <2>2, <2>6 DEF Grant
    <3>2. QED
      BY <2>3, <3>1 DEF Alone, Refreshing, Throttled, Idle
  <2>7. QED
    BY <2>4, <2>5, <2>6 DEF Grant
<1>7. QED
  BY <1>2, <1>3, <1>4, <1>5, <1>6
  DEF ListAccounts, CooldownEnds, DeleteAccount, TokenAges, RestEnds

-----------------------------------------------------------------------------
(* The limit.                                                              *)

\* What rests for a limit is freed when the row says otherwise.
LEMMA RestedStays ==
  ASSUME Rested, account'.there => account.there,
         limits'.owed \subseteq limits.owed \/ \E w \in Parties : Reports(w),
         \A w \in Parties : Reports(w)' => Reports(w),
         account.rest = "limit" => account'.rest = "limit" \/ limits'.freed,
         limits.freed => limits'.freed
  PROVE  Rested'
BY DEF Rested

LEMMA CallKeepsRested ==
  ASSUME CodexTypeOK, Rested, NEW r \in Callers, Call(r)
  PROVE  Rested'
<1>1. r \in Parties /\ work[r] \in WorkRows /\ work \in [Parties -> WorkRows]
      /\ account \in AccountRows /\ LimitsType
  BY DEF Parties, CodexTypeOK, LimitsType
\* A request that does not come to report leaves no new report behind.
<1>2. ASSUME NEW entry, Goes(r, entry), entry.op # "report"
      PROVE  \A w \in Parties : Reports(w)' => Reports(w)
  BY <1>1, <1>2 DEF Goes, Reports, Reached
<1>3. ASSUME Sends(r) \/ Leaves(r) \/ \E op \in Ops \ {"report"} : GoesTo(r, op)
      PROVE  \A w \in Parties : Reports(w)' => Reports(w)
  <2>1. /\ \A op : [work[r] EXCEPT !.op = op].op = op
        /\ Idle.op = "idle" /\ [Idle EXCEPT !.op = "send", !.on = work[r].on].op = "send"
    BY <1>1 DEF WorkRows, Idle
  <2>2. QED
    BY <1>2, <1>3, <2>1 DEF Sends, Leaves, GoesTo
<1>4. {"read", "ask", "failed", "broken"} \subseteq Ops
  BY DEF Ops
<1>5. ASSUME NEW i \in Instances, NEW bound \in BOOLEAN, Select(r, i, bound)
      PROVE  Rested'
  BY <1>2, <1>5, RestedStays DEF Select, Enters, Idle
<1>6. CASE ReadSecret(r)
  <2>1. [work[r] EXCEPT !.op = "check", !.token = account.token, !.due = TRUE].op = "check"
    BY <1>1 DEF WorkRows
  <2>2. \A w \in Parties : Reports(w)' => Reports(w)
    BY <1>2, <1>3, <1>4, <1>6, <2>1 DEF ReadSecret
  <2>3. QED
    BY <1>6, <2>2, RestedStays DEF ReadSecret
<1>7. CASE ShouldAttemptRefresh(r)
  BY <1>3, <1>4, <1>7, RestedStays DEF ShouldAttemptRefresh
<1>8. CASE TurnOff(r)
  <2>1. account'.there = account.there /\ account'.rest = account.rest
    BY <1>1, <1>8 DEF TurnOff, Updated, AccountRows
  <2>2. QED
    BY <1>3, <1>8, <2>1, RestedStays DEF TurnOff
<1>9. CASE Tire(r)
  <2>1. account'.there = account.there
    BY <1>1, <1>9 DEF Tire, Updated, AccountRows
  <2>2. /\ limits'.owed = limits.owed /\ (limits.freed => limits'.freed)
        /\ account.rest = "limit" => account'.rest = "limit" \/ limits'.freed
    BY <1>1, <1>9 DEF Tire, RowFreed, LimitsType
  <2>3. QED
    BY <1>3, <1>9, <2>1, <2>2, RestedStays DEF Tire
<1>10. CASE Answered(r)
  <2>1. [work[r] EXCEPT !.op = "rest", !.rest = "limit"].op = "rest"
    BY <1>1 DEF WorkRows
  <2>2. \A w \in Parties : Reports(w)' => Reports(w)
    BY <1>2, <1>3, <1>4, <1>10, <2>1 DEF Answered
  <2>3. QED
    BY <1>10, <2>2, RestedStays DEF Answered
<1>11. CASE SetCooldown(r)
  BY <1>1, <1>11 DEF SetCooldown, Rested, LimitsType
<1>12. ASSUME NEW rest, Cools(work[r].on, rest), UNCHANGED account, rest = "limit" => Reports(r),
              \A w \in Parties : Reports(w)' => Reports(w)
       PROVE  Rested'
  <2>1. limits'.freed = limits.freed /\ (limits'.owed = limits.owed \/ rest = "limit")
    BY <1>1, <1>12 DEF Cools, LimitsType
  <2>2. QED
    BY <1>1, <1>12, <2>1, RestedStays
<1>13. CASE ReportExhausted(r)
  BY <1>3, <1>12, <1>13 DEF ReportExhausted, Reports
<1>14. CASE ReportFailure(r)
  BY <1>3, <1>4, <1>12, <1>14 DEF ReportFailure
<1>15. QED
  BY <1>5, <1>6, <1>7, <1>8, <1>9, <1>10, <1>11, <1>13, <1>14 DEF Call

LEMMA OthersKeepRested ==
  ASSUME CodexTypeOK, Rested, CodexNext, ~\E r \in Callers : Call(r)
  PROVE  Rested'
<1>1. work \in [Parties -> WorkRows] /\ account \in AccountRows /\ LimitsType
  BY DEF CodexTypeOK, LimitsType
<1>2. ASSUME NEW w \in Parties, NEW entry, Goes(w, entry), entry.op # "report"
      PROVE  \A v \in Parties : Reports(v)' => Reports(v)
  BY <1>1, <1>2 DEF Goes, Reports, Reached
<1>3. ASSUME NEW w \in Parties,
             Sends(w) \/ Leaves(w) \/ Asked(w) \/ Denied(w, "off") \/ Denied(w, "tire")
      PROVE  \A v \in Parties : Reports(v)' => Reports(v)
  <2>1. /\ \A op : [work[w] EXCEPT !.op = op].op = op
        /\ Idle.op = "idle" /\ [Idle EXCEPT !.op = "send", !.on = work[w].on].op = "send"
    BY <1>1 DEF WorkRows, Idle
  <2>2. QED
    BY <1>2, <1>3, <2>1 DEF Sends, Leaves, Asked, Denied, GoesTo
<1>4. ASSUME NEW p \in Pollers, Poll(p)
      PROVE  Rested'
  <2>1. p \in Parties
    BY DEF Parties
  <2>2. \A v \in Parties : Reports(v)' => Reports(v)
    <3>1. /\ [work[p] EXCEPT !.op = "ask", !.again = TRUE].op = "ask"
          /\ [work[p] EXCEPT !.op = IF account.due THEN "ask" ELSE "quota",
                             !.token = account.token, !.due = account.due].op \in {"ask", "quota"}
      BY <1>1, <2>1 DEF WorkRows
    <3>2. \A i \in Instances : [Idle EXCEPT !.op = "read", !.on = i].op = "read"
      BY DEF Idle
    <3>3. \/ Leaves(p)
          \/ \E entry : Goes(p, entry) /\ entry.op # "report"
      BY <1>4, <3>1, <3>2 DEF Poll, Enters, PollReads, FetchQuota
    <3>4. QED
      BY <1>2, <1>3, <2>1, <3>3
  <2>3. UNCHANGED <<account, limits>>
    BY <1>4 DEF Poll, Enters, PollReads, FetchQuota
  <2>4. QED
    BY <2>2, <2>3, RestedStays
<1>5. ASSUME NEW w \in Parties, Refresh(w)
      PROVE  Rested'
  <2>1. CASE Refreshed(w)
    <3>1. [work[w] EXCEPT !.op = "save", !.token = live'].op = "save"
      BY <1>1 DEF WorkRows
    <3>2. QED
      BY <1>2, <2>1, <3>1, RestedStays DEF Refreshed
  <2>2. CASE Rejected(w)
    BY <1>3, <2>2, RestedStays DEF Rejected
  <2>3. CASE NoAnswer(w)
    <3>1. \A v \in Parties : Reports(v)' => Reports(v)
      BY <1>3, <2>3 DEF NoAnswer, Reports, Reached
    <3>2. QED
      BY <2>3, <3>1, RestedStays DEF NoAnswer
  <2>4. CASE SaveTokens(w)
    <3>1. account'.there = account.there
      BY <1>1, <2>4 DEF SaveTokens, Updated, AccountRows
    <3>2. /\ limits'.owed = limits.owed /\ (limits.freed => limits'.freed)
          /\ account.rest = "limit" => account'.rest = "limit" \/ limits'.freed
      BY <1>1, <2>4 DEF SaveTokens, RowFreed, LimitsType
    <3>3. QED
      BY <1>3, <2>4, <3>1, <3>2, RestedStays DEF SaveTokens
  <2>5. QED
    BY <1>5, <2>1, <2>2, <2>3, <2>4 DEF Refresh
<1>6. ASSUME NEW i \in Instances, ListAccounts(i) \/ HoldLapses(i) \/ CooldownEnds(i)
      PROVE  Rested'
  BY <1>6 DEF ListAccounts, HoldLapses, CooldownEnds, Rested, Reports, Reached
<1>7. ASSUME NEW i \in Instances, Restarted(i)
      PROVE  Rested'
  <2>1. \A v \in Parties : Reports(v)' => Reports(v)
    BY <1>1, <1>7 DEF Restarted, Reports, Reached, Idle
  <2>2. limits'.owed = limits.owed /\ limits'.freed = limits.freed
    BY <1>1, <1>7 DEF Restarted, LimitsType
  <2>3. QED
    BY <1>7, <2>1, <2>2, RestedStays DEF Restarted
<1>8. CASE DeleteAccount \/ Revoked \/ TokenAges \/ RestEnds
  <2>1. UNCHANGED <<work, limits>>
    BY <1>8 DEF DeleteAccount, Revoked, TokenAges, RestEnds
  <2>2. account'.there => account.there /\ (account.rest = "limit" => account'.rest = "limit")
    BY <1>1, <1>8 DEF DeleteAccount, Revoked, TokenAges, RestEnds, AccountRows
  <2>3. QED
    BY <2>1, <2>2 DEF Rested, Reports, Reached
<1>9. CASE LimitEnds
  <2>1. limits'.owed = {}
    BY <1>9 DEF LimitEnds
  <2>2. ASSUME NEW w \in Parties
        PROVE  ~Reports(w)'
    <3>1. work'[w].rest = Over(work[w].rest)
      BY <1>1, <1>9 DEF LimitEnds, WorkRows
    <3>2. QED
      BY <3>1 DEF Over, Reports
  <2>3. QED
    BY <2>1, <2>2 DEF Rested
<1>10. QED
  BY <1>4, <1>5, <1>6, <1>7, <1>8, <1>9 DEF CodexNext, Elapse

\* What an instance has reported keeps the account out there, or has sunk.
LEMMA SunkStays ==
  ASSUME CodexTypeOK, Staffed, Sunk, [CodexNext]_codexVars
  PROVE  Sunk'
<1>1. memory \in [Instances -> MemoryRows] /\ LimitsType /\ limits.owed \subseteq Instances
      /\ work \in [Parties -> WorkRows]
  BY DEF CodexTypeOK, LimitsType
<1>2. CASE UNCHANGED memory /\ limits'.owed = limits.owed /\ limits'.sank = limits.sank
  BY <1>2 DEF Sunk
<1>3. ASSUME NEW i \in Instances, NEW rest, Cools(i, rest)
      PROVE  Sunk'
  <2>1. memory'[i].cool = rest /\ \A j \in Instances \ {i} : memory'[j] = memory[j]
    BY <1>1, <1>3 DEF Cools, MemoryRows
  <2>2. CASE rest = "limit"
    <3>1. limits'.owed = limits.owed \cup {i} /\ limits'.sank = limits.sank \ {i}
      BY <1>1, <1>3, <2>2 DEF Cools, LimitsType
    <3>2. QED
      BY <1>1, <2>1, <2>2, <3>1 DEF Sunk
  <2>3. CASE rest # "limit" /\ memory[i].cool = "limit"
    <3>1. limits'.owed = limits.owed /\ limits'.sank = limits.sank \cup {i}
      BY <1>1, <1>3, <2>3 DEF Cools, LimitsType
    <3>2. QED
      BY <1>1, <2>1, <2>3, <3>1 DEF Sunk
  <2>4. CASE rest # "limit" /\ memory[i].cool # "limit"
    <3>1. limits' = limits
      BY <1>3, <2>4 DEF Cools
    <3>2. QED
      BY <1>1, <2>1, <2>4, <3>1 DEF Sunk
  <2>5. QED
    BY <2>2, <2>3, <2>4
<1>4. ASSUME NEW i \in Instances, NEW h \in BOOLEAN,
             memory' = [memory EXCEPT ![i].hold = h], UNCHANGED limits
      PROVE  Sunk'
  BY <1>1, <1>4 DEF Sunk, MemoryRows
<1>5. ASSUME NEW r \in Callers, Call(r)
      PROVE  Sunk'
  <2>1. r \in Parties
    BY DEF Parties
  <2>2. CASE ReportExhausted(r) \/ ReportFailure(r)
    <3>1. work[r].on \in Instances
      BY <2>1, <2>2 DEF ReportExhausted, ReportFailure, Reached, Staffed
    <3>2. QED
      BY <1>3, <2>2, <3>1 DEF ReportExhausted, ReportFailure
  <2>3. CASE ShouldAttemptRefresh(r)
    <3>1. work[r].on \in Instances
      BY <2>1, <2>3 DEF ShouldAttemptRefresh, Reached, Staffed
    <3>2. QED
      BY <1>2, <1>4, <2>3, <3>1 DEF ShouldAttemptRefresh
  <2>4. CASE Tire(r) \/ SetCooldown(r)
    BY <1>1, <1>2, <2>4 DEF Tire, SetCooldown, RowFreed, LimitsType
  <2>5. CASE ReadSecret(r) \/ TurnOff(r) \/ Answered(r)
             \/ \E i \in Instances, bound \in BOOLEAN : Select(r, i, bound)
    BY <1>2, <2>5 DEF ReadSecret, TurnOff, Answered, Select, Enters
  <2>6. QED
    BY <1>5, <2>2, <2>3, <2>4, <2>5 DEF Call
<1>6. ASSUME NEW p \in Pollers, Poll(p)
      PROVE  Sunk'
  BY <1>2, <1>6 DEF Poll, Enters, PollReads, FetchQuota
<1>7. ASSUME NEW w \in Parties, Refresh(w)
      PROVE  Sunk'
  <2>1. limits'.owed = limits.owed /\ limits'.sank = limits.sank /\ UNCHANGED memory
    BY <1>1, <1>7 DEF Refresh, Refreshed, Rejected, NoAnswer, SaveTokens, RowFreed, LimitsType
  <2>2. QED
    BY <1>2, <2>1
<1>8. ASSUME NEW i \in Instances, ListAccounts(i) \/ HoldLapses(i) \/ CooldownEnds(i)
      PROVE  Sunk'
  <2>1. CASE ListAccounts(i)
    BY <1>1, <2>1 DEF ListAccounts, Sunk, MemoryRows
  <2>2. CASE HoldLapses(i)
    BY <1>4, <2>2 DEF HoldLapses
  <2>3. CASE CooldownEnds(i)
    BY <1>1, <2>3 DEF CooldownEnds, Sunk, MemoryRows
  <2>4. QED
    BY <1>8, <2>1, <2>2, <2>3
<1>9. ASSUME NEW i \in Instances, Restarted(i)
      PROVE  Sunk'
  <2>1. \A j \in Instances \ {i} : memory'[j] = memory[j]
    BY <1>1, <1>9 DEF Restarted
  <2>2. limits'.owed = limits.owed /\ limits'.sank = limits.sank \cup ({i} \cap limits.owed)
    BY <1>1, <1>9 DEF Restarted, LimitsType
  <2>3. QED
    BY <1>1, <2>1, <2>2 DEF Sunk
<1>10. CASE DeleteAccount \/ Revoked \/ TokenAges \/ RestEnds \/ UNCHANGED codexVars
  BY <1>2, <1>10 DEF DeleteAccount, Revoked, TokenAges, RestEnds, codexVars
<1>11. CASE LimitEnds
  BY <1>11 DEF LimitEnds, Sunk
<1>12. QED
  BY <1>5, <1>6, <1>7, <1>8, <1>9, <1>10, <1>11 DEF CodexNext, Elapse

-----------------------------------------------------------------------------
LEMMA CodexInitOK == CodexInit => KInv
<1>1. SUFFICES ASSUME CodexInit
               PROVE  KInv
  OBVIOUS
<1>2. account \in AccountRows /\ live \in Tokens /\ calls \in 0..MaxCalls /\ mishap \in BOOLEAN
  <2>1. 1 \in Tokens /\ 0 \in 0..MaxCalls
    BY CodexAssumption DEF Tokens
  <2>2. QED
    BY <1>1, <2>1 DEF CodexInit, AccountRows, Rests
<1>3. Forgotten \in MemoryRows
  BY <1>2 DEF CodexInit, Forgotten, InList, MemoryRows, ListRows, Rests, AccountRows
<1>4. CodexTypeOK
  BY <1>1, <1>2, <1>3, IdleRow DEF CodexInit, CodexTypeOK
<1>5. \A w \in Parties : work[w] = Idle
  BY <1>1 DEF CodexInit
<1>6. Staffed /\ Rested /\ Sunk
  BY <1>1, <1>5, IdleRow DEF CodexInit, Staffed, Rested, Sunk, Reached, Reports
<1>7. Grant
  BY <1>1, <1>5, IdleRow DEF CodexInit, Grant, InHand, Alone, Refreshing, Reached
<1>8. QED
  BY <1>4, <1>6, <1>7 DEF KInv

LEMMA CodexNextOK == KInv /\ [CodexNext]_codexVars => KInv'
<1>1. SUFFICES ASSUME KInv, [CodexNext]_codexVars
               PROVE  KInv'
  OBVIOUS
<1>2. CodexTypeOK /\ Staffed /\ Grant /\ Rested /\ Sunk
  BY <1>1 DEF KInv
<1>3. CASE UNCHANGED codexVars
  BY <1>2, <1>3 DEF codexVars, KInv, CodexTypeOK, Staffed, Grant, Rested, Sunk, Reached, InHand,
                    Alone, Refreshing, Throttled, Reports
<1>4. Staffed' /\ Sunk'
  BY <1>1, <1>2, StaffedStays, SunkStays
<1>5. ASSUME NEW r \in Callers, Call(r)
      PROVE  KInv'
  BY <1>2, <1>4, <1>5, CallTypes, CallKeepsGrant, CallKeepsRested DEF KInv
<1>6. CASE CodexNext /\ ~\E r \in Callers : Call(r)
  <2>1. Rested'
    BY <1>2, <1>6, OthersKeepRested
  <2>2. ASSUME NEW p \in Pollers, Poll(p)
        PROVE  KInv'
    BY <1>2, <1>4, <2>1, <2>2, PollTypes, PollKeepsGrant DEF KInv
  <2>3. ASSUME NEW w \in Parties, Refresh(w)
        PROVE  KInv'
    BY <1>2, <1>4, <2>1, <2>3, RefreshTypes, RefreshKeepsGrant DEF KInv
  <2>4. ASSUME \/ \E i \in Instances :
                    ListAccounts(i) \/ Restarted(i) \/ HoldLapses(i) \/ CooldownEnds(i)
               \/ DeleteAccount \/ Revoked \/ TokenAges \/ RestEnds \/ LimitEnds
        PROVE  KInv'
    BY <1>2, <1>4, <2>1, <2>4, ElseTypes, ElseKeepsGrant DEF KInv
  <2>5. QED
    BY <1>6, <2>2, <2>3, <2>4 DEF CodexNext, Elapse
<1>7. QED
  BY <1>1, <1>3, <1>5, <1>6

\* The account of any number of instances, requests and polls keeps a refresh token
\* its issuer takes, as long as nothing happens that no throttle prevents
\* (shouldAttemptRefresh, UpdateCodexOAuthAccountTokens).
THEOREM TokensStayGood == CodexSpec => []GrantsKept
<1>1. KInv => GrantsKept
  <2>1. SUFFICES ASSUME KInv, account.there, ~mishap
                 PROVE  /\ account.on
                        /\ \/ account.token = live
                           \/ \E w \in Parties : Reached(w, "save") /\ work[w].token = live
    BY DEF GrantsKept
  <2>2. \A w \in Parties : Reached(w, "save") => work[w].token = live
    BY <2>1 DEF KInv, Grant, InHand, Reached
  <2>3. QED
    BY <2>1, <2>2 DEF KInv, Grant
<1>2. QED
  BY <1>1, CodexInitOK, CodexNextOK, PTL DEF CodexSpec

\* A reported limit keeps the account out, by memory or by the row, for any number
\* of instances and requests, unless both copies of it fell (SetCredentialCooling).
THEOREM LimitsAreKept == CodexSpec => []LimitsHold
<1>1. KInv => LimitsHold
  <2>1. SUFFICES ASSUME KInv, NEW i \in limits.owed
                 PROVE  /\ memory[i].cool = "none" => i \in limits.sank
                        /\ Offered(i) /\ account.there =>
                             limits.freed \/ memory[i].seen.rest # account.rest
    BY DEF LimitsHold
  <2>2. QED
    BY <2>1 DEF KInv, Rested, Sunk, Offered
<1>2. QED
  BY <1>1, CodexInitOK, CodexNextOK, PTL DEF CodexSpec

=============================================================================
