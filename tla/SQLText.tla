------------------------------- MODULE SQLText -------------------------------
(***************************************************************************)
(* How SQL text reaches Spark: splitStatements and runSQL (db.go),         *)
(* sanitizeSQL (livy.go), and the values that seeds, checks and the table  *)
(* sensor write into it (seed.go, checks.go, sensor.go), against the way   *)
(* Spark reads it.                                                         *)
(*                                                                         *)
(* A text is a sequence of the tokens that matter to either side; the      *)
(* quotes and the backslash go by name, "wildcard" is % or _, and "x" any  *)
(* other character but the letters and digits that Spark reads as another  *)
(* character after a backslash (\n, \t, \0, \101, ...).  Nested comments,  *)
(* hints and CR are left out, and so are casts of values and the NULL for  *)
(* an empty cell: columns are strings.                                     *)
(***************************************************************************)
EXTENDS Integers, SequencesExt

CONSTANTS
    MaxScript,  \* bound: tokens of a script
    MaxCells,   \* bound: values of a statement
    MaxCell     \* bound: tokens of a value

ASSUME BoundAssumption == {MaxScript, MaxCells, MaxCell} \subseteq Nat

Quotes == {"single", "double", "backtick"}
Tokens == Quotes \cup {"backslash", ";", "--", "newline", "/*", "*/", "wildcard", "x"}

VARIABLES
    script,  \* a text given to RunQueryWithoutResult, as far as it was read
    go,      \* the scanner of splitStatements after it
    spark,   \* Spark's lexer after it
    cells    \* the values of another statement

textVars == <<script, go, spark, cells>>

Blank(text) == \A i \in DOMAIN text : text[i] = "newline"
Keep(texts, t) == IF Blank(t) THEN texts ELSE Append(texts, t)
NonBlank(texts) == FoldLeft(Keep, <<>>, texts)

\* strings.TrimSpace
Trim(text) ==
    LET said == {i \in DOMAIN text : text[i] # "newline"}
    IN  IF said = {} THEN <<>> ELSE SubSeq(text, Min(said), Max(said))

-----------------------------------------------------------------------------
(* splitStatements.  A mode is named after the token that opens it.        *)

NoStatement == [mode |-> "", current |-> <<>>, statements |-> <<>>]

GoModeCommentless(mode, c) ==
    IF mode \in Quotes THEN IF c = mode THEN "" ELSE mode
    ELSE IF c \in Quotes THEN c ELSE ""

GoMode(mode, c) ==
    IF mode = "--" THEN IF c = "newline" THEN "" ELSE mode
    ELSE IF mode \in Quotes THEN IF c = mode THEN "" ELSE mode
    ELSE IF c \in Quotes \cup {"--"} THEN c ELSE ""

\* One iteration of the loop.
Scan(s, c) ==
    IF s.mode = "" /\ c = ";"
    THEN [s EXCEPT !.statements = Append(@, s.current), !.current = <<>>]
    ELSE [s EXCEPT !.mode = GoMode(@, c), !.current = Append(@, c)]

SplitStatements(text) ==
    LET s == FoldLeft(Scan, NoStatement, text)
    IN  NonBlank(Append(s.statements, s.current))

-----------------------------------------------------------------------------
(* sanitizeSQL and runSQL *)

\* Without a closing bracket an opening one stays.
SanitizeGreedy(text) ==
    IF \E i, j \in DOMAIN text : i < j /\ text[i] = "/*" /\ text[j] = "*/"
    THEN LET first == SelectInSeq(text, LAMBDA c : c = "/*")
             last == SelectLastInSeq(text, LAMBDA c : c = "*/")
         IN  SubSeq(text, 1, first - 1) \o <<"newline">> \o SubSeq(text, last + 1, Len(text))
    ELSE text

NothingDropped == [text |-> <<>>, comment |-> <<>>]

Drop(s, c) ==
    IF s.comment = <<>>
    THEN IF c = "/*" THEN [s EXCEPT !.comment = <<c>>] ELSE [s EXCEPT !.text = Append(@, c)]
    ELSE IF c = "*/" THEN [text |-> Append(s.text, "newline"), comment |-> <<>>]
    ELSE [s EXCEPT !.comment = Append(@, c)]

SanitizeSQL(text) ==
    LET end == FoldLeft(Drop, NothingDropped, text)
    IN  end.text \o end.comment

\* The code that runSQL submits; <<>> stands for none.
RunSQL(text) ==
    LET code == Trim(SanitizeSQL(text))
    IN  IF code # <<>> /\ Last(code) = ";" THEN Front(code) ELSE code

RunQueryWithoutResult(text) ==
    LET pieces == SplitStatements(text)
    IN  NonBlank([i \in DOMAIN pieces |-> RunSQL(pieces[i])])

-----------------------------------------------------------------------------
(* Spark's lexer *)

\* plain: the text so far holds none of the constructs listed in Misread.
\* kept: the tokens outside comments; values: what the '...' literals say.
NothingRead ==
    [mode |-> "", escaped |-> FALSE, current |-> <<>>, statements |-> <<>>,
     plain |-> TRUE, kept |-> <<>>, value |-> <<>>, values |-> <<>>]

\* What splitStatements or sanitizeSQL takes for something else: an escape, a
\* comment bracket in a literal or line comment, and in a block comment anything
\* but text.
Misread(mode, c) ==
    \/ mode \in Quotes \cup {"--"} /\ c \in {"backslash", "/*", "*/"}
    \/ mode = "/*" /\ c \in Quotes \cup {";", "--", "/*"}

SparkMode(mode, c) ==
    IF mode = "--" THEN IF c = "newline" THEN "" ELSE mode
    ELSE IF mode = "/*" THEN IF c = "*/" THEN "" ELSE mode
    ELSE IF mode \in Quotes THEN IF c = mode THEN "" ELSE mode
    ELSE IF c \in Quotes \cup {"--", "/*"} THEN c ELSE ""

\* A backslash hides the next token, except in `...` and in a block comment; a
\* literal drops it, but not before a wildcard.
Lex(s, c) ==
    LET escapes == s.mode \in {"single", "double", "--"} /\ c = "backslash" /\ ~s.escaped
        mode == IF s.escaped \/ escapes THEN s.mode ELSE SparkMode(s.mode, c)
        ends == s.mode = "" /\ c = ";"
        silent == {s.mode, mode} \cap {"--", "/*"} # {} \/ (s.mode = "" /\ c = "newline")
    IN  [mode       |-> mode,
         escaped    |-> escapes,
         current    |-> IF ends THEN <<>> ELSE Append(s.current, c),
         statements |-> IF ends THEN Append(s.statements, s.current) ELSE s.statements,
         plain      |-> s.plain /\ ~Misread(s.mode, c),
         kept       |-> IF silent THEN s.kept ELSE Append(s.kept, c),
         value      |-> IF s.mode # "single" \/ mode # "single" THEN <<>>
                        ELSE IF escapes THEN s.value
                        ELSE Append(IF s.escaped /\ c = "wildcard" THEN Append(s.value, "backslash")
                                    ELSE s.value, c),
         values     |-> IF s.mode = "single" /\ mode = "" THEN Append(s.values, s.value) ELSE s.values]

SparkReads(text) == FoldLeft(Lex, NothingRead, text)

-----------------------------------------------------------------------------
(* Values in a statement.  "x" stands for the words between them.          *)

\* strings.ReplaceAll with the token escaped by a backslash.
Escape(text, c) ==
    FlattenSeq([i \in DOMAIN text |-> IF text[i] = c THEN <<"backslash", c>> ELSE <<text[i]>>])

Quoted(text) == <<"single">> \o text \o <<"single">>

SeedValueLiteralSwapped(value) == Quoted(Escape(Escape(value, "single"), "backslash"))

SeedValueLiteral(value) == Quoted(Escape(Escape(value, "backslash"), "single"))

SeedInsert(values) ==
    <<"x">> \o FlattenSeq([i \in DOMAIN values |-> SeedValueLiteral(values[i]) \o <<"x">>])

TableExistsShowQuery(value) == <<"x">> \o Quoted(Escape(value, "single"))

\* AcceptedValuesCheck, and PatternCheck with a single value.
CheckQuery(values) ==
    <<"x">> \o FlattenSeq([i \in DOMAIN values |-> Quoted(values[i]) \o <<"x">>])

-----------------------------------------------------------------------------
TextInit ==
    /\ script = <<>>
    /\ go = NoStatement
    /\ spark = NothingRead
    /\ cells = <<>>

\* The loop of splitStatements reads the next token.
Read(c) ==
    /\ cells = <<>> /\ Len(script) < MaxScript
    /\ script' = Append(script, c)
    /\ go' = Scan(go, c)
    /\ spark' = Lex(spark, c)
    /\ UNCHANGED cells

\* The statement gets one more value, or its last value one more token.
NewCell ==
    /\ script = <<>> /\ Len(cells) < MaxCells
    /\ cells' = Append(cells, <<>>)
    /\ UNCHANGED <<script, go, spark>>

Extend(c) ==
    /\ cells # <<>> /\ Len(Last(cells)) < MaxCell
    /\ cells' = [cells EXCEPT ![Len(cells)] = Append(@, c)]
    /\ UNCHANGED <<script, go, spark>>

TextNext == NewCell \/ \E c \in Tokens : Read(c) \/ Extend(c)

TextSpec == TextInit /\ [][TextNext]_textVars
-----------------------------------------------------------------------------
\* Every variable stays in its range; outside comments and literals nothing is
\* hidden by a backslash.
TextTypeOK ==
    /\ script \in Seq(Tokens)
    /\ cells \in Seq(Seq(Tokens))
    /\ go.mode \in Quotes \cup {"", "--"}
    /\ spark.mode \in Quotes \cup {"", "--", "/*"}
    /\ spark.mode \in {"", "/*", "backtick"} => ~spark.escaped

\* "splits a SQL string on semicolons at statement boundaries" (db.go:488): the
\* pieces of a plain script are the statements Spark would find in it.
SplitsWhereStatementsEnd ==
    spark.plain => go.statements = spark.statements /\ go.current = spark.current

\* Of a plain script whose literals and comments are closed, what is submitted is
\* what was written: each piece loses its block comments (README.md:267) and
\* nothing else, and none that says something is left out.  A piece with nothing
\* but a line comment says nothing: it may be submitted, and counts on neither side.
SubmittedAsWritten ==
    spark.plain /\ spark.mode \in {"", "--"} =>
        LET Says(texts) == NonBlank([i \in DOMAIN texts |-> SparkReads(texts[i]).kept])
            codes == RunQueryWithoutResult(script)
        IN  /\ Says(codes) = Says(Append(spark.statements, spark.current))
            /\ \A i \in DOMAIN codes : "/*" \notin Range(codes[i])

\* A literal written without escapes keeps the backslashes of this value.
KeepsBackslashes(value) ==
    \A i \in DOMAIN value : value[i] = "backslash" => i < Len(value) /\ value[i + 1] = "wildcard"

\* Values come back from Spark as they went in: from seeds ("semicolons inside
\* literals survive", db.go:489) unless one has an apostrophe and one a semicolon;
\* from the sensor's LIKE exactly when each of its backslashes precedes a wildcard;
\* from checks exactly when, besides, there is no apostrophe.  A comment in
\* brackets is lost.
ValuesArrive ==
    LET all == FlattenSeq(cells)
        commented == SanitizeSQL(all) # all
        kept == \A i \in DOMAIN cells : KeepsBackslashes(cells[i])
        Arrive(codes) == Len(codes) = 1 /\ SparkReads(codes[1]).values = cells
        Selected(text) == Arrive(<<RunSQL(text)>>)
    IN  /\ ~commented /\ ~({"single", ";"} \subseteq Range(all))
               => Arrive(RunQueryWithoutResult(SeedInsert(cells)))
        /\ Len(cells) = 1 => (Selected(TableExistsShowQuery(cells[1])) <=> ~commented /\ kept)
        /\ Selected(CheckQuery(cells)) <=> ~commented /\ kept /\ "single" \notin Range(all)
=============================================================================
