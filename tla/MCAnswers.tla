------------------------------- MODULE MCAnswers -------------------------------
EXTENDS AnswerPipeline, FiniteSets

\* The dict with the keys and values of a function.
DictOf(fcn) == Dict({<<k, fcn[k]>> : k \in DOMAIN fcn})

MCScalars == {Null, Number, Text(""), Text("x")}

\* One key of each kind: of a reference, of a reference and of the system, and
\* of neither.
Keys == {"descriptor", "id", "_links", "note"}

DictsOf(ks, vs) == UNION {{DictOf(f) : f \in [d -> vs]} : d \in ks}

SmallDicts == DictsOf({{}, {"note"}, {"_links"}, {"descriptor"}}, {Null, Text("x")})

\* What a field or an item of an answer can be.
Values ==
  MCScalars
    \cup DictsOf({d \in SUBSET Keys : Cardinality(d) \in 1..2},
               {Null, Number, Text("x"), List(<<Null>>)})
    \cup {List(<< >>), List(<<Null>>), List(<<Number>>)}
    \cup {List(<<d, e>>) : d \in SmallDicts, e \in SmallDicts \cup {Number}}

Others == {Null, Number, DictOf([k \in {"note"} |-> Null]),
           List(<<DictOf([k \in {"id"} |-> Number]), DictOf([k \in {"note"} |-> Null])>>)}

MCInputs ==
  Values
    \cup {List(<<v, w>>) : v \in Values, w \in Others}
    \cup {DictOf([x \in {k, l} |-> IF x = k THEN v ELSE w]) :
            k \in {"descriptor", "note"}, l \in {"id", "_links"},
            v \in Values, w \in Others}

MCConfigs ==
  [flatten_refs : BOOLEAN, strip_fields : {{}, {"note"}},
   strip_system_fields : BOOLEAN, strip_nulls : BOOLEAN,
   max_rows : {0, 1}, max_items : {0, 1}, format : BOOLEAN, max_chars : {FALSE}]
    \cup
  [flatten_refs : {TRUE}, strip_fields : {{"note"}},
   strip_system_fields : {TRUE}, strip_nulls : {TRUE},
   max_rows : {0, 1}, max_items : {0, 1}, format : BOOLEAN, max_chars : {TRUE}]

\* Texts with and without each kind of match, hidden or not, and every
\* combination of the filters, with a few answers and shapes: with and without a
\* signal key, one that is stripped.
MCTexts ==
  {t \in TextType : /\ t.fragile => "pii" \in t.found /\ t.json = "yes"
                    /\ t.hidden \in {{}, Patterns} /\ (t.json # "yes" => t.hidden = {})
                    /\ t.json = "too much" => t.found = {}}

MCOptions ==
  {o \in [sanitize_output : BOOLEAN, redact_pii : BOOLEAN, pii_scan : BOOLEAN,
          injection_detection : BOOLEAN, signals : {{}, {"note"}},
          unhashable : {{}, {"strip_fields"}, {"signals"}}, shaping : BOOLEAN] :
     o.unhashable = {"strip_fields"} => o.signals = {}}

MCFilteredInputs ==
  {Number, DictOf([k \in {"note"} |-> Text("x")])}

MCFilteredConfigs ==
  {c \in MCConfigs : c.strip_fields = {"note"} /\ c.strip_nulls /\ c.flatten_refs
                      /\ c.strip_system_fields /\ c.max_rows = 0
                      /\ c.max_items = 0 /\ ~c.format}
=============================================================================
