----------------------------- MODULE TextFonts -----------------------------
(***************************************************************************)
(* Text: the buffered paragraph builder (wasi_canvas_002_impl.rs) and the  *)
(* faces its styles get from the renderer, which keeps a cache, the fonts   *)
(* the app bundles and a collection for fallback (canvas_impl.rs).  A warm *)
(* resume replaces the renderer and inherits only part of that.            *)
(***************************************************************************)
EXTENDS Naturals, FiniteSets, Sequences, SequencesExt

CONSTANTS
    Families,     \* what a style names: a name, a path, or "" for none
    Bundled,      \* those the app's assets/fonts holds
    Installed,    \* those the system's font manager matches
    Readable,     \* paths, and aliases' files, that read as a font
    Assets,       \* whether the app has an assets directory: values of it
    MaxOps,       \* bound: operations on one builder
    MaxResumes    \* bound: warm resumes

ConstantsOK ==
    /\ "" \in Families /\ Bundled \union Installed \union Readable \subseteq Families \ {""}
    /\ Assets \subseteq BOOLEAN /\ {MaxOps, MaxResumes} \subseteq Nat

VARIABLES
    fonts,     \* the renderer's: cache, asset_font_mgr, font_collection's own
    assets,    \* this app's
    builder,   \* the guest's ParagraphBuilder002Res
    text,      \* the paragraph built last: its runs, each with style and face
    resumes    \* warm resumes so far

vars == <<fonts, assets, builder, text, resumes>>
-----------------------------------------------------------------------------
Faces == {"app", "system", "file", "default"}
NoBuilder == [open |-> FALSE, default |-> "", limit |-> 0, ops |-> <<>>]
NoText == [built |-> FALSE, limit |-> 0, width |-> 0, runs |-> <<>>]

\* make_font_collection: the system's manager only.
NewFonts == [cache |-> [f \in Families |-> "none"], app |-> FALSE, fallback |-> FALSE]

\* load_asset_fonts: fonts found become the renderer's and the collection's.
Loaded(r) == IF Bundled = {} THEN r ELSE [r EXCEPT !.app = TRUE, !.fallback = TRUE]

\* The cold start loads the app's fonts before the guest runs.
Init ==
    /\ assets \in Assets
    /\ fonts = IF assets THEN Loaded(NewFonts) ELSE NewFonts
    /\ builder = NoBuilder /\ text = NoText /\ resumes = 0

Path(f) == f \notin Bundled \union Installed

\* Mutant: the system is asked first.
MutantLookup(f) ==
    IF ~Path(f) /\ f \in Installed THEN "system"
    ELSE IF ~Path(f) /\ fonts.app /\ f \in Bundled THEN "app"
    ELSE IF f \in Readable THEN "file" ELSE "default"

(* get_typeface past its cache: the app's, the system's, a file's, any font. *)
Lookup(f) ==
    IF ~Path(f) /\ fonts.app /\ f \in Bundled THEN "app"
    ELSE IF ~Path(f) /\ f \in Installed THEN "system"
    ELSE IF f \in Readable THEN "file" ELSE "default"

Typeface(f) == IF fonts.cache[f] = "none" THEN Lookup(f) ELSE fonts.cache[f]

\* layout_text_style: a style that names a family gets its face outright.
Styled(f) == [style |-> f, face |-> IF f = "" THEN "none" ELSE Typeface(f)]

\* Every style resolved at build leaves its face in the cache.
Cached(fs) == [f \in Families |-> IF f \in fs \ {""} THEN Typeface(f) ELSE fonts.cache[f]]
-----------------------------------------------------------------------------
\* constructor; bound: one paragraph at a time.
NewBuilder(style) ==
    /\ ~builder.open /\ ~text.built
    /\ builder' = [NoBuilder EXCEPT !.open = TRUE, !.default = style]
    /\ UNCHANGED <<fonts, assets, text, resumes>>

\* set_align, set_direction, set_max_lines, set_ellipsis: the last call wins.
Set(limit) ==
    /\ builder.open
    /\ builder' = [builder EXCEPT !.limit = limit]
    /\ UNCHANGED <<fonts, assets, text, resumes>>

\* push_style, pop_style, add_text.
Buffer(op) ==
    /\ builder.open /\ Len(builder.ops) < MaxOps
    /\ builder' = [builder EXCEPT !.ops = Append(@, op)]
    /\ UNCHANGED <<fonts, assets, text, resumes>>

Push(f) == [do |-> "push", style |-> f]
Pop == [do |-> "pop", style |-> ""]
AddText == [do |-> "text", style |-> ""]

(* One buffered operation on skia's builder; no style left to pop is none.   *)
Replayed(st, op) ==
    CASE op.do = "push" -> [st EXCEPT !.open = Append(@, op.style)]
      [] op.do = "pop"  -> [st EXCEPT !.open = IF @ = <<>> THEN @ ELSE Front(@)]
      [] op.do = "text" -> [st EXCEPT !.runs =
            Append(@, Styled(IF st.open = <<>> THEN builder.default ELSE Last(st.open)))]

\* build: the styles get their faces now, the builder leaves the table.
Build ==
    /\ builder.open
    /\ text' = [built |-> TRUE, limit |-> builder.limit, width |-> 0,
                runs |-> FoldLeft(Replayed, [open |-> <<>>, runs |-> <<>>], builder.ops).runs]
    /\ fonts' = [fonts EXCEPT !.cache =
            Cached({builder.default} \union {op.style : op \in ToSet(builder.ops)})]
    /\ builder' = NoBuilder
    /\ UNCHANGED <<assets, resumes>>

\* layout, whose width every metric, line, box and painting is read with.
Layout(width) ==
    /\ text.built
    /\ text' = [text EXCEPT !.width = width]
    /\ UNCHANGED <<fonts, assets, builder, resumes>>

DropText == text.built /\ text' = NoText /\ UNCHANGED <<fonts, assets, builder, resumes>>
DropBuilder == builder.open /\ builder' = NoBuilder /\ UNCHANGED <<fonts, assets, text, resumes>>

(* inherit_caches_from: the cache and the app's fonts, not the collection.    *)
Inherited(old) == [NewFonts EXCEPT !.cache = old.cache, !.app = old.app]

\* resumed, warm: a new renderer in the old store.
WarmResume ==
    /\ resumes < MaxResumes /\ resumes' = resumes + 1
    /\ fonts' = Inherited(fonts)
    /\ UNCHANGED <<assets, builder, text>>

Next ==
    \/ \E f \in Families : NewBuilder(f) \/ Buffer(Push(f))
    \/ \E n \in 0..1 : Set(n)
    \/ Buffer(Pop) \/ Buffer(AddText)
    \/ \E w \in 1..2 : Layout(w)
    \/ Build \/ DropText \/ DropBuilder \/ WarmResume

Spec == Init /\ [][Next]_vars
-----------------------------------------------------------------------------
\* The fonts, the builder and the paragraph have their types.
TypeOK ==
    /\ fonts.cache \in [Families -> Faces \union {"none"}]
    /\ {fonts.app, fonts.fallback, assets} \subseteq BOOLEAN
    /\ builder.default \in Families /\ Len(builder.ops) <= MaxOps
    /\ \A i \in DOMAIN text.runs : text.runs[i].style \in Families

\* The style in force before operation i, by counting: the last push that no
\* later pop undoes.  A pop without a push undoes nothing.
Depth(ops) ==
    LET After[i \in 0..Len(ops)] ==
            IF i = 0 THEN 0
            ELSE CASE ops[i].do = "push" -> After[i - 1] + 1
                   [] ops[i].do = "pop"  -> IF After[i - 1] = 0 THEN 0 ELSE After[i - 1] - 1
                   [] OTHER              -> After[i - 1]
    IN  After
InForce(b, i) ==
    LET Holds(j) == /\ b.ops[j].do = "push"
                    /\ \A k \in j..i - 1 : Depth(b.ops)[k] >= Depth(b.ops)[j]
        Pushes == {j \in 1..i - 1 : Holds(j)}
    IN  IF Pushes = {} THEN b.default
        ELSE b.ops[CHOOSE j \in Pushes : \A k \in Pushes : k <= j].style

\* How many of the first i operations add text.
Texts(ops, i) == Cardinality({j \in 1..i : ops[j].do = "text"})

\* A built paragraph has each text in the style that was in force where it was
\* added, the limit set last wherever it was set; and a family the app
\* bundles is drawn in the app's own face, before and after a resume.
BuiltAsWritten ==
    [][text'.built /\ ~text.built =>
        /\ text'.limit = builder.limit
        /\ Len(text'.runs) = Texts(builder.ops, Len(builder.ops))
        /\ \A i \in DOMAIN builder.ops : builder.ops[i].do = "text" =>
             LET run == text'.runs[Texts(builder.ops, i)]
             IN  /\ run.style = InForce(builder, i)
                 /\ assets /\ run.style \in Bundled => run.face = "app"
      ]_<<builder, text>>

\* canvas_impl.rs:732-735, the app's fonts also serve the layout's fallback.
FallbackKeepsAppFonts == assets /\ Bundled # {} => fonts.fallback

=============================================================================
