------------------------------ MODULE MCRecords ------------------------------
\* Parts of the system that share no table and no memory: one at a time.
EXTENDS OAuth, Tickets, ObjectRefs, ChannelSettings, Shaping, Pointers, TLC

CONSTANT MaxMessages

VARIABLES
    scene,  \* which part is at work
    left    \* messages still to come

-----------------------------------------------------------------------------
\* Bodies of three families of models, with and without an effort in the name, a
\* prompt, and limits under several names.
Given(fs) == [f \in Fields |->
    CASE f \notin fs -> Absent
      [] f = "max_tokens" -> Num(1) [] f = "max_output_tokens" -> Num(2)
      [] f = "max_completion_tokens" -> Num(3) [] OTHER -> Text(1)]
Model(family, effort) == [family |-> family, effort |-> effort]
MCBodies ==
    {[ok |-> TRUE, dev |-> FALSE, stream |-> "other" \notin fs, model |-> model,
      prompts |-> prompts, fields |-> Given(fs)] :
        model \in {Model("o", 0), Model("o", 1), Model("any", 1)},
        prompts \in {<<>>, <<"client">>},
        fs \in {{"max_tokens", "max_output_tokens", "temperature", "service_tier", "store",
                 "safety_identifier", "generationConfig", "other"},
                {"max_output_tokens", "max_completion_tokens", "reasoning_effort", "store"},
               {"stream_options"}}}

NoSets == [f \in {} |-> Absent]
Plain == [model |-> Model("", 0), prompt |-> "", over |-> FALSE, preserve |-> {},
    tier |-> FALSE, nostore |-> FALSE, safety |-> FALSE, white |-> {}, black |-> {},
    through |-> FALSE, param |-> [sets |-> NoSets, ops |-> <<>>]]
Op(mode, from, path) == [mode |-> mode, from |-> from, path |-> path, value |-> Num(7),
    keep |-> FALSE, all |-> FALSE, conds |-> <<>>]
When(path, mode, value, invert) ==
    [path |-> path, mode |-> mode, value |-> value, invert |-> invert, pass |-> FALSE]
Ops(ops) == [Plain EXCEPT !.param.ops = ops]
MCSettings == {
    [Plain EXCEPT !.prompt = "p", !.over = TRUE], [Plain EXCEPT !.prompt = "q", !.tier = TRUE],
    [Plain EXCEPT !.through = TRUE, !.over = TRUE, !.prompt = "p"],
    [Plain EXCEPT !.nostore = TRUE, !.safety = TRUE, !.model = Model("gpt-5", 1),
        !.black = {"reasoning_effort", "max_completion_tokens"}],
    [Plain EXCEPT !.model = Model("o", 1), !.white = {"max_tokens", "temperature"}],
    [Plain EXCEPT !.preserve = {Model("any", 1)}, !.black = {"max_tokens"}],
    [Plain EXCEPT !.param.sets = [f \in {"store", "max_output_tokens"} |-> Num(9)],
        !.black = {"store", "temperature"}],
    Ops(<<[Op("move", "max_tokens", "max_completion_tokens") EXCEPT
                !.conds = <<When("max_tokens", "lt", Num(2), FALSE)>>],
          [Op("set", "", "temperature") EXCEPT !.keep = TRUE,
                !.conds = <<When("is_channel_test", "full", Text(0), FALSE),
                            [When("store", "full", Text(1), TRUE) EXCEPT !.pass = TRUE]>>]>>),
    Ops(<<[Op("delete", "", "store") EXCEPT !.all = TRUE,
                !.conds = <<When("store", "full", Text(1), FALSE),
                            When("max_tokens", "gt", Num(4), FALSE)>>],
          Op("edit", "", "safety_identifier")>>),
    Ops(<<Op("copy", "max_tokens", "max_output_tokens")>>),
    Ops(<<[Op("delete", "", "temperature") EXCEPT
                !.conds = <<When("max_tokens", "full", Text(1), FALSE)>>]>>),
    Ops(<<Op("", "", "store")>>)}

-----------------------------------------------------------------------------
NoRequest ==
    /\ request = <<>> /\ payload = <<>> /\ tried = <<>> /\ sent = [to |-> "", ended |-> TRUE]
Init ==
    /\ scene \in {"oauth", "tickets", "refs", "settings", "shaping", "pointers"}
    /\ left = MaxMessages
    /\ OAuthInit /\ TicketsInit /\ RefsInit /\ SettingsInit /\ PointersInit
    /\ IF scene = "shaping" THEN ShapeInit ELSE NoRequest

Post ==
    \/ \E r \in Uploads : left > 0 /\ left' = left - 1 /\ TicketsBegin(r)
    \/ left' = left /\ TicketsGoOn
Next ==
    /\ UNCHANGED scene
    /\ \/ /\ scene = "oauth" /\ OAuthNext
          /\ UNCHANGED <<ticketVars, refVars, settingVars, shapeVars, pointerVars, left>>
       \/ /\ scene = "tickets" /\ Post
          /\ UNCHANGED <<oauthVars, refVars, settingVars, shapeVars, pointerVars>>
       \/ /\ scene = "refs" /\ RefsNext
          /\ UNCHANGED <<oauthVars, ticketVars, settingVars, shapeVars, pointerVars, left>>
       \/ /\ scene = "settings" /\ SettingsNext
          /\ UNCHANGED <<oauthVars, ticketVars, refVars, shapeVars, pointerVars, left>>
       \/ /\ scene = "shaping" /\ ShapeNext
          /\ UNCHANGED <<oauthVars, ticketVars, refVars, settingVars, pointerVars, left>>
       \/ /\ scene = "pointers" /\ PointersNext
          /\ UNCHANGED <<oauthVars, ticketVars, refVars, settingVars, shapeVars, left>>

\* Users are the same in every part, and so are requests.
Symmetry == Permutations(Uploads) \cup Permutations(Askers)

Spec ==
    Init /\ [][Next]_<<oauthVars, ticketVars, refVars, settingVars, shapeVars, pointerVars,
                       scene, left>>

=============================================================================
