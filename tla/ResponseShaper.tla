---------------------------- MODULE ResponseShaper ----------------------------
(****************************************************************************)
(* response_shaper.shape: the transformations of an upstream's JSON answer, *)
(* in their order, over nested values.                                      *)
(*                                                                          *)
(* A JSON value is a record with its type.  Of a text only whether it is    *)
(* empty matters (one that is no JSON and one that is cut are told apart),  *)
(* of a number (or a boolean) nothing.  A dict is the set of its fields,    *)
(* pairs of a key and a value: their order is left open, so where the code  *)
(* takes the first one any may be first.  A CSV or Markdown table is kept as*)
(* its number of rows, and whether a serialisation exceeds max_chars is left*)
(* open too.  A shape is a response_shape section; a limit of 0 in it is not*)
(* set.                                                                     *)
(*                                                                          *)
(* Where a function of the code calls itself for the parts of a value, there*)
(* is a recursive function here over how deep a value is nested: f[n][w] is *)
(* what the code's function makes of w, which is nested n deep at most.     *)
(****************************************************************************)
EXTENDS SequencesExt

CONSTANTS Depth,        \* bound: how deep an answer is nested
          SystemFields, \* _SYSTEM_FIELDS
          RefExtraKeys  \* _REF_EXTRA_KEYS

ASSUME DepthAssumption == Depth \in Nat

Null == [type |-> "null"]
Number == [type |-> "number"]
Text(t) == [type |-> "text", text |-> t]
List(items) == [type |-> "list", items |-> items]
Dict(fields) == [type |-> "dict", fields |-> fields]
Table(rows) == [type |-> "table", rows |-> rows]

\* The empty text, one that is not, one that is no JSON and one that is cut.
Words == {"", "x", "raw", "cut"}

Scalars == [type : {"null", "number"}] \cup [type : {"text"}, text : Words]
             \cup [type : {"table"}, rows : Nat]
Lists(S) == [type : {"list"}, items : Seq(S)]
Dicts(S) == {d \in [type : {"dict"}, fields : SUBSET (STRING \X S)] :
               \A f, g \in d.fields : f[1] = g[1] => f = g}

\* The values that are nested n deep at most.
Json[n \in Nat] ==
  Scalars \cup IF n = 0 THEN {} ELSE Lists(Json[n - 1]) \cup Dicts(Json[n - 1])

KeysOf(v) == {f[1] : f \in v.fields}
At(v, key) == (CHOOSE f \in v.fields : f[1] = key)[2]

Parts(v) == CASE v.type = "dict" -> {f[2] : f \in v.fields}
              [] v.type = "list" -> Range(v.items)
              [] OTHER -> {}

\* v with g[p] in the place of each of its parts p.
MapParts(g, v) ==
  CASE v.type = "dict" -> Dict({<<f[1], g[f[2]]>> : f \in v.fields})
    [] v.type = "list" -> List([i \in DOMAIN v.items |-> g[v.items[i]]])
    [] OTHER -> v

\* validate_response_shape: a limit is a positive integer, where it is set.  Of
\* the other options only whether they are set matters.
Valid(cfg) ==
  /\ cfg.max_rows \in Nat /\ cfg.max_items \in Nat
  /\ cfg.flatten_refs \in BOOLEAN /\ cfg.strip_nulls \in BOOLEAN
  /\ cfg.max_chars \in BOOLEAN /\ cfg.format \in BOOLEAN

-----------------------------------------------------------------------------
(* The transformations. *)

\* A Workday reference: a descriptor and nothing but the keys of a reference.
\* An id that is a plain text marks an entity.
IsRef(v) ==
  /\ v.type = "dict"
  /\ "descriptor" \in KeysOf(v) /\ At(v, "descriptor").type = "text"
  /\ KeysOf(v) \ {"descriptor"} \subseteq RefExtraKeys
  /\ "id" \in KeysOf(v) => At(v, "id").type # "text"

FlattenRefs(v) ==
  LET flat[n \in Nat] ==
        [w \in Json[n] |-> IF IsRef(w) THEN At(w, "descriptor")
                                      ELSE MapParts(flat[n - 1], w)]
  IN  flat[Depth][v]

WithoutFields(v, names) ==
  IF v.type = "dict" THEN Dict({f \in v.fields : f[1] \notin names}) ELSE v

StripFields(v, names) ==
  LET strip[n \in Nat] ==
        [w \in Json[n] |-> MapParts(strip[n - 1], WithoutFields(w, names))]
  IN  strip[Depth][v]

\* Mutant of IsEmpty: 0 and False are empty too.
IsEmptyFalsy(v) ==
  \/ v \in {Null, Text(""), Number}
  \/ v.type \in {"list", "dict"} /\ Parts(v) = {}

IsEmpty(v) ==
  \/ v \in {Null, Text("")}
  \/ v.type \in {"list", "dict"} /\ Parts(v) = {}

WithoutEmpties(v) ==
  LET kept == [i \in DOMAIN v.items |-> IF IsEmpty(v.items[i]) THEN << >>
                                                             ELSE <<v.items[i]>>]
  IN  CASE v.type = "dict" -> Dict({f \in v.fields : ~IsEmpty(f[2])})
        [] v.type = "list" -> List(FlattenSeq(kept))
        [] OTHER -> v

\* The parts are cleaned before they are judged.
StripNulls(v) ==
  LET strip[n \in Nat] ==
        [w \in Json[n] |-> WithoutEmpties(MapParts(strip[n - 1], w))]
  IN  strip[Depth][v]

Cap(v, n) == IF Len(v.items) > n THEN List(SubSeq(v.items, 1, n)) ELSE v

\* For max_rows a list counts by its first item.
HasRows(v) == v.type = "list" /\ v.items # << >> /\ v.items[1].type = "dict"

LimitRows(v, n) ==
  LET capped(w) == IF HasRows(w) THEN Cap(w, n) ELSE w IN
  IF n = 0 THEN v
  ELSE IF v.type = "dict"
       THEN Dict({<<f[1], capped(f[2])>> : f \in v.fields})
       ELSE capped(v)

LimitItems(v, n) == IF n # 0 /\ v.type = "list" THEN Cap(v, n) ELSE v

ApplyLimits(cfg, v) == LimitItems(LimitRows(v, cfg.max_rows), cfg.max_items)

IsListOfDicts(v) == HasRows(v) /\ \A p \in Parts(v) : p.type = "dict"

\* The rows of the answer, or of one of its fields, become a table.
FormatRows(v) ==
  LET rows == IF v.type = "dict" THEN {f \in v.fields : IsListOfDicts(f[2])} ELSE {}
      TableAt(f) == Dict((v.fields \ {f}) \cup {<<f[1], Table(Len(f[2].items))>>})
  IN  IF IsListOfDicts(v) THEN {Table(Len(v.items))}
      ELSE IF rows # {} THEN {TableAt(f) : f \in rows}
      ELSE {v}

Format(cfg, v) == IF cfg.format THEN FormatRows(v) ELSE {v}

\* A serialisation that is too long is cut, and the answer is then a text.
Truncate(cfg, v) == IF cfg.max_chars THEN {v, Text("cut")} ELSE {v}

Stripped(cfg) ==
  cfg.strip_fields \cup (IF cfg.strip_system_fields THEN SystemFields ELSE {})

\* Mutant of Clean: the empty values go before the fields.
CleanNullsFirst(cfg, v) ==
  LET flat == IF cfg.flatten_refs THEN FlattenRefs(v) ELSE v
      full == IF cfg.strip_nulls THEN StripNulls(flat) ELSE flat
  IN  StripFields(full, Stripped(cfg))

\* The first four steps.  (Two passes of StripFields, one for each option, are
\* one pass for the union.)
Clean(cfg, v) ==
  LET flat == IF cfg.flatten_refs THEN FlattenRefs(v) ELSE v
      bare == StripFields(flat, Stripped(cfg))
  IN  IF cfg.strip_nulls THEN StripNulls(bare) ELSE bare

\* The last three steps.
Arrange(cfg, v) ==
  UNION {Truncate(cfg, w) : w \in Format(cfg, ApplyLimits(cfg, v))}

\* What shape() may return.
Shape(cfg, v) == Arrange(cfg, Clean(cfg, v))

-----------------------------------------------------------------------------
(* To state what shaping does.                                              *)

\* What is nested inside a value.
Inside(v) ==
  LET inside[n \in Nat] ==
        [w \in Json[n] |-> Parts(w) \cup UNION {inside[n - 1][p] : p \in Parts(w)}]
  IN  inside[Depth][v]

Below(keys, content) == {<<keys \cup c[1], c[2]>> : c \in content}

\* The scalars of a value that are not empty, each with the keys on the way to
\* it; with `flatten` a reference is a scalar.
Content(v, flatten) ==
  LET content[n \in Nat] ==
        [w \in Json[n] |->
           LET u == IF flatten /\ IsRef(w) THEN At(w, "descriptor") ELSE w IN
           CASE u.type = "dict" ->
                  UNION {Below({f[1]}, content[n - 1][f[2]]) : f \in u.fields}
             [] u.type = "list" -> UNION {content[n - 1][p] : p \in Parts(u)}
             [] OTHER -> {<<{}, s>> : s \in {u} \ {Null, Text("")}}]
  IN  content[Depth][v]
=============================================================================
