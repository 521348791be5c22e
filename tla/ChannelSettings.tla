--------------------------- MODULE ChannelSettings ---------------------------
(***************************************************************************)
(* Saving the settings of one upstream channel.                            *)
(*                                                                         *)
(*   router/channels_api_routes.go                              (handlers) *)
(*   internal/store/upstreams.go, upstream_channels_newapi_settings.go     *)
(*                                                                         *)
(* A handler reads the channel, lays the fields of the request over what   *)
(* it read, and an UPDATE writes every column of the section; nothing      *)
(* locks the row in between.  Each save then drops the upstream snapshot,  *)
(* which modules Channels and Caches model.                                *)
(***************************************************************************)
EXTENDS Naturals, FiniteSets

CONSTANTS
    Editors,  \* requests of administrators
    Columns,  \* the columns at work, of those below
    Wanted,   \* values saved in them
    MaxSaves  \* saves ever begun (a bound)

MetaColumns == {"openai_organization", "test_model", "tag", "remark", "weight", "auto_ban"}
SettingColumns == {"force_format", "thinking_to_content", "proxy", "pass_through_body_enabled",
    "system_prompt", "system_prompt_override", "cache_ttl_preference"}
BasicColumns == {"name", "status", "priority", "promotion",
    "allow_service_tier", "disable_store", "allow_safety_identifier"}
LoneColumns == {"param_override", "header_override", "status_code_mapping",
    "model_suffix_preserve", "request_body_blacklist", "request_body_whitelist"}
ASSUME ColumnsAssumption ==
    Columns \subseteq MetaColumns \cup SettingColumns \cup BasicColumns \cup LoneColumns

Empty == "empty"     \* NULL, or the zero value
Malformed == "malformed"
Unsure == "unsure"
ASSUME WantedAssumption == Wanted \cap {Empty, Malformed, Unsure} = {}
ASSUME SavesAssumption == MaxSaves \in Nat
Stored == Wanted \cup {Empty}

VARIABLES
    exists, \* the row is there
    saved,  \* its columns
    edits,  \* what each request is about to write
    saves,  \* saves begun so far
    last    \* history: the value each column was last given, Unsure if others may undo it
settingVars == <<exists, saved, edits, saves, last>>

NoEdit == [column \in {} |-> Empty]
Quiet == [section |-> {}, asks |-> NoEdit, writes |-> NoEdit]

Maps(fs, vs) == UNION {[gs -> vs] : gs \in SUBSET fs}
SettingsTypeOK ==
    /\ exists \in BOOLEAN /\ saves \in 0..MaxSaves
    /\ saved \in [Columns -> Stored] /\ last \in [Columns -> Stored \cup {Unsure}]
    /\ \A e \in Editors :
        /\ edits[e].section \subseteq Columns /\ edits[e].asks \in Maps(Columns, Stored)
        /\ edits[e].writes \in [edits[e].section -> Stored]

SettingsInit ==
    /\ exists = TRUE /\ saves = 0 /\ edits = [e \in Editors |-> Quiet]
    /\ saved = [f \in Columns |-> Empty] /\ last = saved

-----------------------------------------------------------------------------
\* Mutant: a field the request leaves out goes back to its zero value.
OverlayZero(row, asks) == [f \in DOMAIN row |-> IF f \in DOMAIN asks THEN asks[f] ELSE Empty]
\* What is not in the request stays as it was read.
Overlay(row, asks) == [f \in DOMAIN row |-> IF f \in DOMAIN asks THEN asks[f] ELSE row[f]]

\* The channel is found, the fields are decoded, and one bad field refuses them all.
ReadRow(e, section, asks) ==
    /\ saves < MaxSaves /\ saves' = saves + 1
    /\ edits[e] = Quiet /\ exists /\ section \cap Columns # {}
    /\ DOMAIN asks \subseteq section \cap Columns
    /\ edits' = IF \E f \in DOMAIN asks : asks[f] = Malformed THEN edits
                ELSE [edits EXCEPT ![e] =
                    [section |-> section \cap Columns, asks |-> asks,
                     writes |-> Overlay([f \in section \cap Columns |-> saved[f]], asks)]]
    /\ UNCHANGED <<exists, saved, last>>

\* UPDATE upstream_channels SET ... WHERE id=?: a channel gone meanwhile is no error.
\* Another request that read before this and has the column from that reading
\* may put the old value back.
WriteSection(e) ==
    LET mine == edits[e]
        others == {o \in Editors \ {e} : edits[o].section = mine.section}
        undoes(f) == \E o \in others : f \notin DOMAIN edits[o].asks
    IN  /\ edits' = [edits EXCEPT ![e] = Quiet] /\ UNCHANGED <<exists, saves>>
        /\ IF ~exists THEN UNCHANGED <<saved, last>>
           ELSE /\ saved' = [f \in Columns |->
                       IF f \in mine.section THEN mine.writes[f] ELSE saved[f]]
                /\ last' = [f \in Columns |->
                       IF f \notin DOMAIN mine.asks THEN last[f]
                       ELSE IF undoes(f) THEN Unsure ELSE mine.asks[f]]

-----------------------------------------------------------------------------
(* Which handler saves which columns.  Malformed is what a handler or the  *)
(* store refuses.                                                          *)

Asks(fs, refused) ==
    {a \in Maps(fs \cap Columns, Stored \cup {Malformed}) :
        \A f \in DOMAIN a : a[f] = Malformed => f \in refused}

\* updateChannelMetaHandler: the weight may not be negative.
SaveMeta(e) == \E a \in Asks(MetaColumns, {"weight"}) : ReadRow(e, MetaColumns, a)
UpdateMeta(e) == edits[e].section = MetaColumns \cap Columns /\ WriteSection(e)

\* updateChannelSettingHandler: one JSON column; the preference is one of four.
SaveSetting(e) ==
    \E a \in Asks(SettingColumns, {"cache_ttl_preference"}) : ReadRow(e, SettingColumns, a)
UpdateSetting(e) == edits[e].section = SettingColumns \cap Columns /\ WriteSection(e)

\* updateChannelHandler, its own columns: a name may not be empty.  What it does
\* about groups, endpoint and key is in module Channels.
SaveBasics(e) == \E a \in Asks(BasicColumns, {"name"}) : ReadRow(e, BasicColumns, a)
UpdateBasics(e) == edits[e].section = BasicColumns \cap Columns /\ WriteSection(e)

\* The handlers of one column: the request always brings it.
SaveLone(e, f) ==
    \E v \in Stored \cup {Malformed} : ReadRow(e, {f}, [x \in {f} |-> v])
SaveParamOverride(e) == SaveLone(e, "param_override")
SaveHeaderOverride(e) == SaveLone(e, "header_override")
SaveStatusCodeMapping(e) == SaveLone(e, "status_code_mapping")
SaveSuffixPreserve(e) == SaveLone(e, "model_suffix_preserve")
SaveBlacklist(e) == SaveLone(e, "request_body_blacklist")
SaveWhitelist(e) == SaveLone(e, "request_body_whitelist")
UpdateLone(e, f) == edits[e].section = {f} /\ f \in Columns /\ WriteSection(e)
UpdateParamOverride(e) == UpdateLone(e, "param_override")
UpdateHeaderOverride(e) == UpdateLone(e, "header_override")
UpdateStatusCodeMapping(e) == UpdateLone(e, "status_code_mapping")
UpdateSuffixPreserve(e) == UpdateLone(e, "model_suffix_preserve")
UpdateBlacklist(e) == UpdateLone(e, "request_body_blacklist")
UpdateWhitelist(e) == UpdateLone(e, "request_body_whitelist")

\* deleteChannelHandler, which module Channels models.
ChannelGoes == exists /\ exists' = FALSE /\ UNCHANGED <<saved, edits, saves, last>>

SettingsNext ==
    \/ \E e \in Editors :
        \/ SaveMeta(e) \/ UpdateMeta(e) \/ SaveSetting(e) \/ UpdateSetting(e)
        \/ SaveBasics(e) \/ UpdateBasics(e)
        \/ SaveParamOverride(e) \/ UpdateParamOverride(e)
        \/ SaveHeaderOverride(e) \/ UpdateHeaderOverride(e)
        \/ SaveStatusCodeMapping(e) \/ UpdateStatusCodeMapping(e)
        \/ SaveSuffixPreserve(e) \/ UpdateSuffixPreserve(e)
        \/ SaveBlacklist(e) \/ UpdateBlacklist(e) \/ SaveWhitelist(e) \/ UpdateWhitelist(e)
    \/ ChannelGoes

-----------------------------------------------------------------------------
\* A column holds what was last saved in it, whatever other columns have been
\* saved since, by the same handler or another, accepted or refused.  The one
\* exception is a save that overlapped another of the same section which did not
\* name the column: the second writes back what it had read
\* (updateChannelMetaHandler, updateChannelSettingHandler).
SavesStand == \A f \in Columns : last[f] # Unsure => saved[f] = last[f]

=============================================================================
