---------------------------- MODULE AnswerPipeline ----------------------------
(****************************************************************************)
(* What call_tool makes of an upstream's answer: the filters run on its     *)
(* text, the text that is left is parsed, and the value is tested for       *)
(* rate-limit signals and shaped.                                           *)
(*                                                                          *)
(* Of a text it is kept what the patterns of the filters find in it (an API *)
(* key, PII, instructions), what of that only the value shows, because an   *)
(* escape such as \u0040 hides it in the text, and what json.loads makes of *)
(* it: JSON, no JSON, or too much (an integer too long, lists nested too    *)
(* deep), which raises.  It is fragile if a label put in place of PII leaves*)
(* invalid JSON: where a number has 16 digits or an address follows an      *)
(* escape such as \n.  `answer` is the value the text stands for.           *)
(****************************************************************************)
EXTENDS ResponseShaper

CONSTANTS Inputs, Configs,  \* the values and the response_shape sections tried
          Replies,          \* the kinds of answers
          Texts, Options,   \* the texts and the filter options tried
          FilteredInputs, FilteredConfigs  \* bounds: the values and shapes they are tried with

VARIABLES
  answer,   \* the value the text stands for
  config,   \* the server's response_shape section
  result,   \* what the tool returns
  shaped,   \* shape() has returned
  reply,    \* what kind of answer the upstream sent
  text,     \* the text it sent, or the language model in its place
  options,  \* the filter options of the server
  raw,      \* the local `raw`: the text as the filters leave it
  outcome,  \* where the call is, or how it ended
  byModel   \* history: the text is the language model's

serverVars == <<config, reply, options>>
answerVars == <<answer, text>>
apVars == <<answer, config, result, shaped, reply, text, options, raw, outcome, byModel>>

Patterns == {"key", "pii", "flagged"}
TextType == [found : SUBSET Patterns, hidden : SUBSET Patterns,
             json : {"yes", "no", "too much"}, fragile : BOOLEAN]

\* `unhashable`: the options with an element that is a list or a mapping, which
\* validation lets pass.
ASSUME TextsAssumption ==
  /\ Texts \subseteq TextType
  /\ \A o \in Options :
       o.shaping \in BOOLEAN /\ o.unhashable \subseteq {"strip_fields", "signals"}

\* The sections are validated at startup.
ASSUME InputsAssumption ==
  /\ Inputs \cup FilteredInputs \subseteq Json[Depth]
  /\ \A cfg \in Configs \cup FilteredConfigs : Valid(cfg)

Plain == [found |-> {}, hidden |-> {}, json |-> "yes", fragile |-> FALSE]
Unfiltered == [sanitize_output |-> FALSE, redact_pii |-> FALSE, pii_scan |-> FALSE,
               injection_detection |-> FALSE, signals |-> {}, unhashable |-> {},
               shaping |-> TRUE]

APInit ==
  /\ \/ /\ answer \in Inputs /\ config \in Configs
        /\ reply = "text" /\ text = Plain /\ options = Unfiltered
     \/ /\ answer \in FilteredInputs /\ config \in FilteredConfigs
        /\ reply \in Replies /\ text \in Texts /\ options \in Options
  /\ result = Null /\ shaped = FALSE
  /\ raw = text
  /\ outcome = "received"
  /\ byModel = FALSE

-----------------------------------------------------------------------------
(* The filters. *)

RedactKeys(t) == [t EXCEPT !.found = @ \ {"key"}]

RedactPII(t) ==
  [t EXCEPT !.found = @ \ {"pii"}, !.json = IF t.fragile THEN "no" ELSE @,
            !.fragile = FALSE]

\* The regular expressions that are enabled, in their order.
RedactEnabled(t) ==
  LET bare == IF options.sanitize_output THEN RedactKeys(t) ELSE t
  IN  IF options.redact_pii THEN RedactPII(bare) ELSE bare

\* Mutant of Fallback: without the model the text is passed on.
FallbackUnredacted(t) == t

\* llm_redact without an answer of the model, for whatever reason.
Fallback(t) == RedactPII(t)

\* What the model may answer: any text, which stands for any value.
ModelAnswers == Texts \X FilteredInputs

\* Mutant of Blocked: the text is tested as it was before the scan.
BlockedAsSent(t) == options.injection_detection /\ "flagged" \in text.found

\* prompt_injection.check raises.
Blocked(t) == options.injection_detection /\ "flagged" \in t.found

\* Mutant of Signalled: the value is tested as shaping leaves it.
SignalledShaped(v) ==
  \E w \in IF options.shaping THEN Shape(config, v) ELSE {v} :
    w.type = "dict" /\ options.signals \cap KeysOf(w) # {}

\* rate_limiter.check_response raises.
Signalled(v) == v.type = "dict" /\ options.signals \cap KeysOf(v) # {}

\* check_response or shape raises a TypeError, an element being unhashable.  (It
\* may be among the signal keys before or behind one that the value has.)
Unhashable(v) ==
  \/ "signals" \in options.unhashable /\ v.type = "dict"
  \/ "strip_fields" \in options.unhashable /\ options.shaping /\ ~Signalled(v)

-----------------------------------------------------------------------------
(* The exits of call_tool. *)

End(how) == outcome' = how /\ UNCHANGED serverVars

\* The text that is no JSON, cut where it is too long.
TruncateText(cfg) == {Text("raw")} \cup IF cfg.max_chars THEN {Text("cut")} ELSE {}

\* From the injection check on: the text t, which stands for v, is blocked, is
\* too much for the parser (or for the shaper), holds a signal, is returned as a
\* value or, when it is no JSON or on a TypeError, as a text.
Process(t, v) ==
  /\ raw' = t /\ answer' = v
  /\ \/ /\ Blocked(t)
        /\ End("blocked") /\ UNCHANGED <<result, shaped>>
     \/ /\ ~Blocked(t) /\ t.json = "too much"
        /\ End("raised") /\ UNCHANGED <<result, shaped>>
     \/ /\ ~Blocked(t) /\ t.json # "no" /\ Signalled(v)
        /\ End("signal") /\ UNCHANGED <<result, shaped>>
     \/ /\ ~Blocked(t) /\ t.json = "yes" /\ ~Signalled(v) /\ ~Unhashable(v)
        /\ shaped' = options.shaping
        /\ result' \in IF options.shaping THEN Shape(config, v) ELSE {v}
        /\ End("value")
     \/ /\ ~Blocked(t) /\ (t.json = "no" \/ (t.json = "yes" /\ Unhashable(v)))
        /\ result' \in IF options.shaping THEN TruncateText(config) ELSE {Text("raw")}
        /\ End("text") /\ UNCHANGED shaped

\* isError: of the filters only the key redaction applies, enabled or not.
ErrorAnswer ==
  /\ outcome = "received" /\ reply = "error"
  /\ raw' = RedactKeys(raw)
  /\ End("error") /\ UNCHANGED <<answerVars, result, shaped, byModel>>

\* No content, or data that is no text.
OtherAnswer ==
  /\ outcome = "received" /\ reply = "other"
  /\ End("other") /\ UNCHANGED <<answerVars, result, shaped, raw, byModel>>

TextAnswer ==
  /\ outcome = "received" /\ reply = "text" /\ ~options.pii_scan
  /\ Process(RedactEnabled(raw), answer)
  /\ UNCHANGED <<text, byModel>>

\* The text is sent to the language model.
Scan ==
  /\ outcome = "received" /\ reply = "text" /\ options.pii_scan
  /\ raw' = RedactEnabled(raw)
  /\ End("scanning") /\ UNCHANGED <<answerVars, result, shaped, byModel>>

Scanned ==
  /\ outcome = "scanning"
  /\ \/ /\ byModel' = TRUE
        /\ \E r \in ModelAnswers : text' = r[1] /\ Process(r[1], r[2])
     \/ byModel' = FALSE /\ Process(Fallback(raw), answer) /\ UNCHANGED text

Returned == outcome \notin {"received", "scanning"} /\ UNCHANGED apVars

APNext == ErrorAnswer \/ OtherAnswer \/ TextAnswer \/ Scan \/ Scanned \/ Returned

APSpec == APInit /\ [][APNext]_apVars

-----------------------------------------------------------------------------

\* What the patterns would find in what the client gets, a value having no
\* escapes left, and what of that was hidden from the filters.
Shown == raw.found \cup (IF outcome = "value" THEN raw.hidden ELSE {})
EscapesHid(kind) == outcome = "value" /\ kind \in raw.hidden \ raw.found

\* README.md:453-470, with two exceptions README does not make.  However the
\* filters are combined, what is returned holds no key, PII or instructions that
\* an enabled filter looks for, except what escapes hid from it in a text that
\* is then parsed; the injection check holds for a text of the model too, but
\* what keys and PII that text has, which nobody looks at again, the model
\* answers for.  The model itself is shown nothing that was to be redacted
\* before it, and an error text holds no key in any case.
FiltersHold ==
  /\ outcome \in {"value", "text"} =>
       /\ options.injection_detection /\ "flagged" \in Shown => EscapesHid("flagged")
       /\ options.sanitize_output /\ "key" \in Shown => EscapesHid("key") \/ byModel
       /\ (options.redact_pii \/ options.pii_scan) /\ "pii" \in Shown =>
            EscapesHid("pii") \/ byModel
  /\ outcome = "scanning" =>
       /\ options.sanitize_output => "key" \notin raw.found
       /\ options.redact_pii => "pii" \notin raw.found
  /\ outcome = "error" => "key" \notin raw.found

\* A rate-limit signal ends the call although shaping would strip its key, and
\* JSON, the upstream's or the model's, is returned as the value it stands for,
\* shaped if the server has a response_shape: only where redaction left invalid
\* JSON, or an option cannot be hashed, does a signal go unnoticed and is the
\* answer returned as a text.
SignalEndsCall ==
  /\ outcome = "value" =>
       /\ answer.type = "dict" => options.signals \cap KeysOf(answer) = {}
       /\ shaped <=> options.shaping
  /\ outcome = "text" /\ text.json = "yes" =>
       \/ options.unhashable # {}
       \/ text.fragile /\ ~byModel /\ (options.redact_pii \/ options.pii_scan)

\* response_shaper.py:125, "Recursively remove None / "" / [] / {} values":
\* with strip_nulls no empty value is left anywhere inside a result, not even
\* one that became empty when the fields inside it were stripped.
NoEmptiesLeft ==
  shaped /\ config.strip_nulls => \A v \in Inside(result) : ~IsEmpty(v)

\* response_shaper.py:4-7: the shaper removes noise only.  Where nothing is
\* capped or formatted, every value that is not empty survives under its own
\* keys, 0 and False among them, unless one of the keys is to be stripped; a
\* reference survives as its descriptor; and nothing that is to be stripped does.
OnlyNoiseRemoved ==
  shaped /\ config.max_rows = 0 /\ config.max_items = 0
         /\ ~config.format /\ ~config.max_chars =>
    Content(result, FALSE) =
      {c \in Content(answer, config.flatten_refs) :
         c[1] \cap Stripped(config) = {}}
=============================================================================
