------------------------------- MODULE Shaping -------------------------------
(***************************************************************************)
(* The body each upstream is sent for one relayed request: what the client *)
(* wrote, read once, then shaped again for every channel tried.            *)
(*                                                                         *)
(*   internal/api/openai: request_sanitize.go, request_sanitize_gemini.go, *)
(*   request_policy.go, channel_filters.go, channel_system_prompt.go,      *)
(*   chat_transforms.go, param_override_*.go, token_alias.go, and the      *)
(*   rewriteBody functions of handler.go, chat_completions.go, messages.go *)
(*   and gemini.go; internal/upstream/executor.go                          *)
(*                                                                         *)
(* A body is its model, its system prompt and its other top-level fields.  *)
(* Lists and overrides of a channel name fields, not the model, not the    *)
(* prompt, no paths into objects.  Text edited is as the edit says, and no *)
(* text is a numeral.                                                      *)
(***************************************************************************)
EXTENDS Naturals, Sequences, SequencesExt

CONSTANTS
    APIs,        \* the endpoints at work, of those below
    Bodies,      \* what clients write
    Settings,    \* what a channel may be set to
    Routes,      \* channels
    MaxTries     \* channels tried for one request (a bound)

AllAPIs == {"responses", "chat", "messages", "gemini", "gemini_embed"}
ASSUME APIsAssumption == APIs \subseteq AllAPIs

Limits == {"max_tokens", "max_output_tokens", "max_completion_tokens"}
Fields == Limits \cup {"service_tier", "store", "safety_identifier", "temperature",
    "reasoning_effort", "generationConfig", "operations", "stream_options", "other"}

\* Values are numbered; a number's v is the number.
Absent == [type |-> "absent", v |-> 0]
Text(v) == [type |-> "text", v |-> v]
Num(v) == [type |-> "number", v |-> v]

Values == [type: {"absent", "text", "number"}, v: Nat]
Models == [family: STRING, effort: Nat]

\* ok: no step has failed.  prompts: the pieces of the system prompt, the client's
\* being "client"; dev: the first message has become the developer's; stream: an answer in
\* pieces is asked for.
BodyRows == [ok: BOOLEAN, dev: BOOLEAN, stream: BOOLEAN, model: Models, prompts: Seq(STRING), fields: [Fields -> Values]]
Conditions == [path: STRING, mode: STRING, value: Values, invert: BOOLEAN, pass: BOOLEAN]
Overrides == [mode: STRING, from: STRING, path: Fields, value: Values, keep: BOOLEAN,
              all: BOOLEAN, conds: Seq(Conditions)]
ASSUME BodiesAssumption == Bodies \subseteq BodyRows
ASSUME SettingsAssumption == \A s \in Settings :
    /\ s.model \in Models /\ s.prompt \in STRING /\ s.preserve \subseteq Models
    /\ {s.over, s.through, s.tier, s.nostore, s.safety} \subseteq BOOLEAN
    /\ s.white \subseteq Fields /\ s.black \subseteq Fields /\ DOMAIN s.param.sets \subseteq Fields
    /\ \A f \in DOMAIN s.param.sets : s.param.sets[f] \in Values
    /\ s.param.ops \in Seq(Overrides)
    /\ \A i \in DOMAIN s.param.ops :
        s.param.ops[i].mode \in {"move", "copy"} => s.param.ops[i].from \in Fields
ASSUME TriesAssumption == MaxTries \in Nat

Has(b, f) == b.fields[f] # Absent
Put(b, f, x) == [b EXCEPT !.fields[f] = x]
Without(b, fs) == [b EXCEPT !.fields = [f \in Fields |-> IF f \in fs THEN Absent ELSE @[f]]]
Only(b, fs) == Without(b, Fields \ fs)
Moved(b, from, to) == Without(Put(b, to, b.fields[from]), {from})
Fails(b) == [b EXCEPT !.ok = FALSE]

-----------------------------------------------------------------------------
(* Reading the request.                                                    *)

\* The fields a request type declares; only responses keeps the rest.
Keeps(api) ==
    CASE api = "responses" -> Fields
      [] api = "chat" -> Limits \cup {"store", "safety_identifier", "temperature",
                                     "reasoning_effort", "stream_options"}
      [] api = "messages" ->
            Limits \cup {"service_tier", "store", "safety_identifier", "temperature"}
      [] api = "gemini" -> {"generationConfig"}
      [] api = "gemini_embed" -> {}

\* The first of these that is there is the limit, and takes its name in the request.
FirstLimit(b, order) ==
    LET is == {i \in DOMAIN order : Has(b, order[i].from)}
    IN  IF is = {} THEN b
        ELSE LET o == order[CHOOSE i \in is : \A j \in is : i <= j]
             IN  Put(Without(b, Limits), o.to, b.fields[o.from])
As(from, to) == [from |-> from, to |-> to]
LimitOrder(api) ==
    CASE api = "chat" -> <<As("max_completion_tokens", "max_completion_tokens"),
            As("max_tokens", "max_tokens"), As("max_output_tokens", "max_tokens")>>
      [] api = "messages" -> <<As("max_tokens", "max_tokens"),
            As("max_output_tokens", "max_tokens"), As("max_completion_tokens", "max_tokens")>>
      [] OTHER -> <<>>

\* Handlers give no default limit: only messages must bring one.
SanitizeResponses(b) == b
SanitizeMessages(b) ==
    LET c == FirstLimit(Only(b, Keeps("messages")), LimitOrder("messages"))
    IN  IF Has(c, "max_tokens") THEN c ELSE Fails(c)
StreamOptions(b) ==
    IF b.stream THEN Put(b, "stream_options", Text(1)) ELSE Without(b, {"stream_options"})
SanitizeChat(b) == StreamOptions(FirstLimit(Only(b, Keeps("chat")), LimitOrder("chat")))
SanitizeGemini(api, b) == Only(b, Keeps(api))
Sanitize(api, b) ==
    CASE api = "responses" -> SanitizeResponses(b)
      [] api = "messages" -> SanitizeMessages(b)
      [] api = "chat" -> SanitizeChat(b)
      [] OTHER -> SanitizeGemini(api, b)

-----------------------------------------------------------------------------
(* A channel's own rules, in the order the handlers apply them.            *)

\* The channel's prompt stands alone, comes first, or gives way to the client's.
WithPrompt(b, s) ==
    IF s.prompt = "" THEN b
    ELSE IF b.prompts = <<>> THEN [b EXCEPT !.prompts = <<s.prompt>>]
    ELSE IF s.over THEN [b EXCEPT !.prompts = <<s.prompt>> \o @] ELSE b

\* gpt-x-high stands for gpt-x and an effort, unless the channel lists either name
\* of the model.
Preserved(s, original, model) == s.preserve \cap {original, model} # {}
SplitSuffix(b, s, original) ==
    IF b.model.effort = 0 \/ Preserved(s, original, b.model) THEN b
    ELSE Put([b EXCEPT !.model.effort = 0], "reasoning_effort", Text(b.model.effort))

\* What models of the o and gpt-5 families want otherwise (o1-mini and o1-preview,
\* whose system message stays one, are left out).
ModelRules(b) ==
    LET c == IF b.model.family \in {"o", "gpt-5"} /\ Has(b, "max_tokens")
                  /\ ~Has(b, "max_completion_tokens")
             THEN Moved(b, "max_tokens", "max_completion_tokens") ELSE b
        d == IF b.model.family \in {"o", "gpt-5"} THEN Without(c, {"temperature"}) ELSE c
    IN  IF b.model.family = "o" /\ b.prompts # <<>> THEN [d EXCEPT !.dev = TRUE] ELSE d

PolicyDenies(s) ==
    (IF s.tier THEN {} ELSE {"service_tier"}) \cup (IF s.nostore THEN {"store"} ELSE {})
        \cup (IF s.safety THEN {} ELSE {"safety_identifier"})
RequestPolicy(b, s) == Without(b, PolicyDenies(s))

\* A whitelist builds the body anew from what it names (here it always names the
\* model and the prompt), then the blacklist takes out what it names.
BodyFilters(b, s) ==
    Without(IF s.white = {} THEN b ELSE Only(b, s.white), s.black)

-----------------------------------------------------------------------------
(* Parameter overrides.                                                    *)

Met == "met"
Unmet == "unmet"
Failed == "failed"
Verdict(p) == IF p THEN Met ELSE Unmet
CompareEqual(x, y) == IF x.type # y.type THEN Failed ELSE Verdict(x.v = y.v)
\* Comparing the parts of texts, which cannot fail, is left out.
CompareNumeric(x, y, less) ==
    IF x.type # "number" \/ y.type # "number" THEN Failed
    ELSE Verdict(IF less THEN x.v < y.v ELSE x.v > y.v)
Compare(x, c) ==
    CASE c.mode = "full" -> CompareEqual(x, c.value)
      [] c.mode = "lt" -> CompareNumeric(x, c.value, TRUE)
      [] c.mode = "gt" -> CompareNumeric(x, c.value, FALSE)
      [] OTHER -> Failed
Inverted(c, verdict) == IF ~c.invert \/ verdict = Failed THEN verdict ELSE Verdict(verdict = Unmet)

\* What the body lacks may be known of the request: models, path, channel, and that
\* it is no test, which stands for them here.
Known == [is_channel_test |-> Text(0)]
CheckOne(b, c) ==
    LET x == IF c.path \in Fields /\ Has(b, c.path) THEN b.fields[c.path]
             ELSE IF c.path \in DOMAIN Known THEN Known[c.path] ELSE Absent
    IN  IF x = Absent THEN Verdict(c.pass) ELSE Inverted(c, Compare(x, c))
CheckAll(b, o) ==
    LET verdicts == {CheckOne(b, o.conds[i]) : i \in DOMAIN o.conds}
    IN  IF Failed \in verdicts THEN Failed
        ELSE Verdict(\/ verdicts = {}
                     \/ IF o.all THEN Unmet \notin verdicts ELSE Met \in verdicts)

Edit(b, o) ==
    CASE o.mode = "delete" -> Without(b, {o.path})
      [] o.mode = "set" -> IF o.keep /\ Has(b, o.path) THEN b ELSE Put(b, o.path, o.value)
      [] o.mode = "move" -> IF Has(b, o.from) THEN Moved(b, o.from, o.path) ELSE Fails(b)
      [] o.mode = "copy" -> IF Has(b, o.from) THEN Put(b, o.path, b.fields[o.from]) ELSE Fails(b)
      [] o.mode = "edit" ->
            IF b.fields[o.path].type = "text" THEN Put(b, o.path, o.value) ELSE Fails(b)
      [] OTHER -> Fails(b)
Operation(b, o) ==
    LET verdict == CheckAll(b, o)
    IN  IF ~b.ok THEN b
        ELSE IF verdict = Failed THEN Fails(b)
        ELSE IF verdict = Met THEN Edit(b, o) ELSE b
\* The body after each operation, a function so that PassageProofs can reason about it.
Steps(b, ops) ==
    LET body[i \in 0..Len(ops)] == IF i = 0 THEN b ELSE Operation(body[i - 1], ops[i])
    IN  body
Operations(b, ops) == Steps(b, ops)[Len(ops)]

\* One operation without a mode, and the object is taken for plain fields to set.
Parses(ops) == ops # <<>> /\ \A i \in DOMAIN ops : ops[i].mode # ""
SetFields(b, p) ==
    [b EXCEPT !.fields = [f \in Fields |->
        IF f \in DOMAIN p.sets THEN p.sets[f]
        ELSE IF f = "operations" /\ p.ops # <<>> THEN Text(0) ELSE @[f]]]
ParamOverride(b, s) ==
    IF Parses(s.param.ops) THEN Operations(b, s.param.ops) ELSE SetFields(b, s.param)

\* For messages, what an override has done to the limits is put right again.
NormalizeMaxTokens(b) ==
    FirstLimit(b, <<As("max_output_tokens", "max_tokens"),
                    As("max_completion_tokens", "max_tokens"), As("max_tokens", "max_tokens")>>)

-----------------------------------------------------------------------------
(* rewriteBody, and the Gemini loop.                                       *)

\* With models switched off the client's model stays.
Bound(b, s) == IF s.model.family = "" THEN b ELSE [b EXCEPT !.model = s.model]
Passes(api, s) == s.through /\ api \notin {"gemini", "gemini_embed"}

ShapeResponses(b, s, original) ==
    BodyFilters(RequestPolicy(SplitSuffix(WithPrompt(Bound(b, s), s), s, original), s), s)
ShapeChat(b, s, original) ==
    BodyFilters(RequestPolicy(
        ModelRules(SplitSuffix(WithPrompt(Bound(b, s), s), s, original)), s), s)
ShapeMessages(b, s) == BodyFilters(RequestPolicy(WithPrompt(Bound(b, s), s), s), s)
ShapeGemini(b, s) == BodyFilters(RequestPolicy(Bound(b, s), s), s)
\* Mutant: the suffix and the model rules come after the lists.
ShapeLast(api, b, s, original) ==
    CASE api = "responses" ->
            SplitSuffix(BodyFilters(RequestPolicy(WithPrompt(Bound(b, s), s), s), s), s, original)
      [] api = "chat" -> ModelRules(
            SplitSuffix(BodyFilters(RequestPolicy(WithPrompt(Bound(b, s), s), s), s), s, original))
      [] OTHER -> ShapeMessages(b, s)
Shape(api, b, s, original) ==
    CASE api = "responses" -> ShapeResponses(b, s, original)
      [] api = "chat" -> ShapeChat(b, s, original)
      [] api = "messages" -> ShapeMessages(b, s)
      [] OTHER -> ShapeGemini(b, s)
Rewrite(api, b, raw, s) ==
    IF Passes(api, s) THEN raw
    ELSE LET c == ParamOverride(Shape(api, b, s, raw.model), s)
         IN  IF api = "messages" /\ c.ok THEN NormalizeMaxTokens(c) ELSE c

\* clonePayload copies the top level.  The messages of a chat stay shared, and an
\* overriding prompt is written into the client's system message.
SharedAfter(api, b, s) ==
    IF api = "chat" /\ ~Passes(api, s) /\ s.over /\ b.prompts # <<>> THEN WithPrompt(b, s) ELSE b

-----------------------------------------------------------------------------
(* An upstream that speaks OpenAI's language may refuse one of these fields *)
(* by name ("unsupported parameter"); the executor then posts the body     *)
(* again, with the limit under another name and no look at the channel.    *)

Refusable == Limits \cup {"stream_options"}
OtherName(f) == IF f = "max_tokens" THEN "max_output_tokens" ELSE "max_tokens"
\* max_tokens overwrites the other limit, which else keeps its value.
Compatible(b, f) ==
    LET c == Without(b, {f})
    IN  IF f \in Limits /\ b.fields[f].type = "number"
             /\ (f = "max_tokens" \/ ~Has(b, OtherName(f)))
        THEN Put(c, OtherName(f), b.fields[f]) ELSE c
Posted(b, f) == IF f = "" THEN b ELSE Compatible(b, f)

-----------------------------------------------------------------------------
VARIABLES
    request, \* endpoint, body as it came, settings of the channels
    payload, \* the body as it was read, shared by the attempts
    tried,   \* channels tried so far
    sent     \* what the last of them was sent, and of that the field it refused at
             \* first; ended: no further attempt
shapeVars == <<request, payload, tried, sent>>

ShapeInit ==
    /\ \E api \in APIs, b \in Bodies, set \in [Routes -> Settings] :
        /\ request = [api |-> api, raw |-> b, set |-> set]
        /\ payload = Sanitize(api, b)
        /\ sent = [body |-> b, to |-> "", refused |-> "", ended |-> ~Sanitize(api, b).ok]
    /\ tried = <<>>

\* The router's next channel.  A body that cannot be made ends the request with
\* 500, but for Gemini, where the channel is passed over.
Attempt(c) ==
    LET api == request.api
        s == request.set[c]
        body == Rewrite(api, payload, request.raw, s)
    IN  /\ ~sent.ended /\ Len(tried) < MaxTries
        /\ tried' = Append(tried, c) /\ payload' = SharedAfter(api, payload, s)
        /\ IF body.ok THEN sent' = [body |-> body, to |-> c, refused |-> "", ended |-> FALSE]
           ELSE sent' = [sent EXCEPT !.ended = api \notin {"gemini", "gemini_embed"}]
        /\ UNCHANGED request

\* The upstream of the attempt at work refuses f.  messages goes to Anthropic's
\* channels only, which are not asked again; one of responses is one of OpenAI's here.
Refuse(f) ==
    /\ request.api # "messages" /\ tried # <<>> /\ sent.to = Last(tried)
    /\ ~sent.ended /\ sent.refused = "" /\ Has(sent.body, f)
    /\ sent' = [sent EXCEPT !.body = Compatible(@, f), !.refused = f]
    /\ UNCHANGED <<request, payload, tried>>
ShapeNext == (\E c \in Routes : Attempt(c)) \/ (\E f \in Refusable : Refuse(f))

-----------------------------------------------------------------------------
ShapeTypeOK ==
    /\ request.api \in APIs /\ request.raw \in Bodies /\ request.set \in [Routes -> Settings]
    /\ payload \in BodyRows
    /\ sent \in [body: BodyRows, to: Routes \cup {""}, refused: Refusable \cup {""},
                 ended: BOOLEAN]
    /\ tried \in Seq(Routes) /\ Len(tried) <= MaxTries

Sent == sent.to # ""
SettingsOf(c) == request.set[c]
Spoils(c) ==
    /\ request.api = "chat" /\ request.raw.prompts # <<>>
    /\ SettingsOf(c).over /\ ~SettingsOf(c).through /\ SettingsOf(c).prompt # ""

\* Every upstream is sent the client's request as its own channel shapes it: what
\* earlier channels added is not in it, nor what an earlier upstream made the executor
\* rename.  But a chat in which an earlier channel put its prompt before the client's
\* carries that prompt on to the others (clonePayload copies the top level only,
\* applyChannelSystemPromptToChatCompletionsPayload writes below it).
ShapedFresh ==
    LET spoilt == \E i \in DOMAIN tried : i < Len(tried) /\ Spoils(tried[i])
    IN  sent.to = Last(tried) /\ ~spoilt =>
            sent.body = Posted(Rewrite(request.api, Sanitize(request.api, request.raw),
                                       request.raw, SettingsOf(sent.to)), sent.refused)

\* Fields an override may bring, and for messages the limit they are renamed to.
Brings(api, p) ==
    LET named == IF Parses(p.ops) THEN {p.ops[i].path : i \in DOMAIN p.ops}
                 ELSE DOMAIN p.sets \cup {"operations"}
    IN  IF api = "messages" /\ named \cap Limits # {} THEN named \cup Limits ELSE named
Denied(s) == PolicyDenies(s) \cup s.black \cup (IF s.white = {} THEN {} ELSE Fields \ s.white)

\* No upstream is sent a field its channel's policy or lists deny, whichever name
\* the model suffix, the model rules or the limits give it on the way; what brings it
\* back is the channel's own override, pass-through, which asks for none of this, and
\* one more thing the lists are not asked about: the other name the executor gives to
\* a limit its upstream refused (applyChannelRequestPolicy, applyChannelBodyFilters,
\* normalizeMaxTokensInBody, Executor.Do).
DeniedStaysOut ==
    LET s == SettingsOf(sent.to)
    IN  \/ Passes(request.api, s)
        \/ \A f \in Denied(s) \ Brings(request.api, s.param) :
                Has(sent.body, f) => sent.refused \in Limits /\ f = OtherName(sent.refused)

\* Once something was sent: both, and the types (rewriteBody).
BodiesShaped == Sent => ShapeTypeOK /\ ShapedFresh /\ DeniedStaysOut

=============================================================================
