------------------------------ MODULE SqlText -------------------------------
(***************************************************************************)
(* Texts that internal/rdb exchanges with PostgreSQL: arrays (array.go)    *)
(* and connection strings (sqltooling/conn.go, driver/dsn.go).  A text is  *)
(* a sequence of characters; a letter, a digit or a word without special   *)
(* characters is one symbol, and "NULL" is the word NULL.  The parsers     *)
(* read one character after the other: the state holds what their loops    *)
(* keep, and run[i] is the state after i characters.                       *)
(***************************************************************************)
EXTENDS Integers, Sequences, FiniteSets, SequencesExt

CONSTANTS
  Nil,     \* the nil slice, a nil element
  Failed,  \* an error
  Panic    \* a division by zero

-----------------------------------------------------------------------------
(* Writing arrays.                                                         *)

\* Mutant: only the quotes are escaped.
MutEscapeQuotes(elem) ==
  FlattenSeq([i \in DOMAIN elem |->
                IF elem[i] = "\"" THEN <<"\\", elem[i]>> ELSE <<elem[i]>>])

Escape(elem) ==
  FlattenSeq([i \in DOMAIN elem |->
                IF elem[i] \in {"\"", "\\"} THEN <<"\\", elem[i]>> ELSE <<elem[i]>>])

appendArrayQuotedBytes(elem) == <<"\"">> \o Escape(elem) \o <<"\"">>

Joined(texts) ==
  <<"{">> \o FlattenSeq([i \in DOMAIN texts |->
                           IF i = 1 THEN texts[i] ELSE <<",">> \o texts[i]]) \o <<"}">>

\* StringArray.Value and Float32Array.Value; a float is written as one symbol.
StringArrayValue(a) ==
  IF a = Nil THEN Nil ELSE Joined([i \in DOMAIN a |-> appendArrayQuotedBytes(a[i])])

Float32ArrayValue(a) ==
  IF a = Nil THEN Nil ELSE Joined([i \in DOMAIN a |-> <<a[i]>>])

-----------------------------------------------------------------------------
(* parseArray: Open, then elements and what follows them, then Close.      *)

Parser == [mode |-> "open", depth |-> 0, dims |-> <<>>, elems |-> <<>>,
           elem |-> <<>>]

Fail(s) == [s EXCEPT !.mode = "failed"]

\* Only closing brackets may follow.
Close(s, ch) ==
  IF ch = "}" /\ s.depth > 0
  THEN [s EXCEPT !.mode = "close", !.depth = @ - 1]
  ELSE Fail(s)

\* After an element: a delimiter, or the end of a dimension.
AfterElement(s, ch) ==
  CASE ch = "," /\ s.depth > 0 ->
         [s EXCEPT !.mode = "element", !.dims[s.depth] = @ + 1]
    [] ch = "}" /\ s.depth > 0 ->
         [s EXCEPT !.mode = "after", !.dims[s.depth] = @ + 1, !.depth = @ - 1]
    [] OTHER -> Fail(s)

\* The quote that ends an element: it is taken as it is.
EndOfQuoted(s) ==
  [s EXCEPT !.mode = "after", !.elem = <<>>, !.elems = Append(@, s.elem)]

\* An element without quotes, up to a delimiter or a closing bracket.
Plain(s, ch) ==
  CASE ch \notin {",", "}"} -> [s EXCEPT !.mode = "plain", !.elem = Append(@, ch)]
    [] ch \in {",", "}"} /\ s.elem = <<>> -> Fail(s)
    [] OTHER -> AfterElement([s EXCEPT !.elem = <<>>,
                  !.elems = Append(@, IF s.elem = <<"NULL">> THEN Nil ELSE s.elem)],
                ch)

Element(s, ch) ==
  CASE ch = "{" /\ s.depth = Len(s.dims) -> Fail(s)
    [] ch = "{" /\ s.depth # Len(s.dims) ->
         [s EXCEPT !.mode = "element", !.depth = @ + 1, !.dims[s.depth + 1] = 0]
    [] ch = "\"" -> [s EXCEPT !.mode = "quoted"]
    [] OTHER -> Plain(s, ch)

Quoted(s, ch) ==
  CASE ch = "\\" -> [s EXCEPT !.mode = "escaped"]
    [] ch = "\"" -> EndOfQuoted(s)
    [] OTHER -> [s EXCEPT !.elem = Append(@, ch)]

Open(s, ch) ==
  CASE ch = "{" -> [s EXCEPT !.depth = @ + 1]
    [] ch = "}" -> Close(s, ch)
    [] ch \notin {"{", "}"} /\ s.depth = 0 -> Fail(s)
    [] OTHER -> Element([s EXCEPT !.dims = [i \in 1 .. s.depth |-> 0]], ch)

ArrayStep(s, ch) ==
  CASE s.mode = "open" -> Open(s, ch)
    [] s.mode = "element" -> Element(s, ch)
    [] s.mode = "plain" -> Plain(s, ch)
    [] s.mode = "quoted" -> Quoted(s, ch)
    [] s.mode = "escaped" -> [s EXCEPT !.mode = "quoted", !.elem = Append(@, ch)]
    [] s.mode = "after" -> AfterElement(s, ch)
    [] s.mode = "close" -> Close(s, ch)
    [] OTHER -> s

ArrayRun(src) ==
  LET run[i \in 0 .. Len(src)] ==
        IF i = 0 THEN Parser ELSE ArrayStep(run[i - 1], src[i])
  IN run[Len(src)]

\* The dimensions and the elements, or an error.  A dimension of zero would
\* make the program panic: len(elems) % d.
parseArray(src) ==
  LET s == ArrayRun(src)
  IN IF s.mode = "failed" \/ s.depth > 0 \/ src = <<>> THEN Failed
     ELSE IF \E i \in DOMAIN s.dims : s.dims[i] = 0 THEN Panic
     ELSE IF \E i \in DOMAIN s.dims : Len(s.elems) % s.dims[i] # 0 THEN Failed
     ELSE [dims |-> s.dims, elems |-> s.elems]

scanLinearArray(src) ==
  LET r == parseArray(src)
  IN IF r \in {Failed, Panic} THEN r
     ELSE IF Len(r.dims) > 1 THEN Failed ELSE r.elems

\* Scan of a SQL NULL or of a text; the elements of a StringArray must not be
\* nil, those of a Float32Array must be numbers.
StringArrayScan(src) ==
  IF src = Nil THEN Nil
  ELSE LET elems == scanLinearArray(src)
       IN IF elems \notin {Failed, Panic} /\ \E i \in DOMAIN elems : elems[i] = Nil
          THEN Failed ELSE elems

Float32ArrayScan(src, floats) ==
  IF src = Nil THEN Nil
  ELSE LET elems == scanLinearArray(src)
       IN IF elems \in {Failed, Panic} THEN elems
          ELSE IF \E i \in DOMAIN elems : \A x \in floats : elems[i] # <<x>> THEN Failed
          ELSE [i \in DOMAIN elems |-> elems[i][1]]

\* External: PostgreSQL writes an element without quotes when it is not empty,
\* is not NULL and has no special character.
Unquotable == {"{", "}", ",", "\"", "\\", " "}
BackendElement(elem) ==
  IF elem \in {<<>>, <<"NULL">>} \/ \E i \in DOMAIN elem : elem[i] \in Unquotable
  THEN appendArrayQuotedBytes(elem)
  ELSE elem
BackendArray(a) == Joined([i \in DOMAIN a |-> BackendElement(a[i])])

-----------------------------------------------------------------------------
(* Connection strings.                                                     *)

\* Where ch is in a text.
Places(v, ch) == {j \in 1 .. Len(v) : v[j] = ch}

\* strings.Replace(v, ch, `\` + ch, limit): the first limit occurrences.
ReplaceFirst(v, ch, limit) ==
  FlattenSeq([i \in DOMAIN v |->
                IF v[i] = ch /\ Cardinality({j \in 1 .. (i - 1) : v[j] = ch}) < limit
                THEN <<"\\", v[i]>> ELSE <<v[i]>>])

\* Mutant: the quotes are escaped first, and their backslashes once more.
MutEscapeQuotesFirst(v, limit) == ReplaceFirst(ReplaceFirst(v, "'", limit), "\\", limit)

escapeForPostgres(v, limit) == ReplaceFirst(ReplaceFirst(v, "\\", limit), "'", limit)

\* The keys and the values of ConnStringKV; a key or a number is one symbol.
kvPairs(cs) ==
  << <<"host", cs.host>>, <<"database", cs.database>>, <<"user", cs.user>>,
     <<"password", cs.password>>, <<"port", <<cs.port>> >>,
     <<"sslmode", IF cs.sslMode = <<>> THEN <<"disable">> ELSE cs.sslMode>>,
     <<"client_encoding", <<"UTF8">> >> >>

\* k='v' k='v' ...
KVText(pairs, limit) ==
  FlattenSeq([i \in DOMAIN pairs |->
                (IF i = 1 THEN <<>> ELSE <<" ">>)
                \o <<pairs[i][1], "=", "'">> \o escapeForPostgres(pairs[i][2], limit)
                \o <<"'">>])

KVConnectionString(cs, limit) == KVText(kvPairs(cs), limit)

Options == [mode |-> "start", key |-> <<>>, val |-> <<>>, found |-> <<>>]

\* The value is complete: later ones of the same key replace it.
Store(s) ==
  [s EXCEPT !.mode = "start", !.key = <<>>, !.val = <<>>,
            !.found = Append(@, <<s.key, s.val>>)]

Value(s, ch) ==
  CASE ch \in {" ", ";"} -> Store(s)
    [] ch = "\\" -> [s EXCEPT !.mode = "valueEscape"]
    [] OTHER -> [s EXCEPT !.mode = "value", !.val = Append(@, ch)]

InQuotes(s, ch) ==
  CASE ch = "'" -> Store(s)
    [] ch = "\\" -> [s EXCEPT !.mode = "quoteEscape"]
    [] OTHER -> [s EXCEPT !.val = Append(@, ch)]

Key(s, ch) ==
  CASE ch = "=" -> [s EXCEPT !.mode = "equals"]
    [] ch = " " -> [s EXCEPT !.mode = "keyEnd"]
    [] OTHER -> [s EXCEPT !.mode = "key", !.key = Append(@, ch)]

OptionStep(s, ch) ==
  CASE s.mode = "start" -> IF ch = " " THEN s ELSE Key(s, ch)
    [] s.mode = "key" -> Key(s, ch)
    [] s.mode = "keyEnd" /\ ch = "=" -> [s EXCEPT !.mode = "equals"]
    [] s.mode = "keyEnd" /\ ch # "=" -> IF ch = " " THEN s ELSE Fail(s)
    [] s.mode = "equals" /\ ch = "'" -> [s EXCEPT !.mode = "quote"]
    [] s.mode = "equals" /\ ch # "'" -> IF ch = " " THEN s ELSE Value(s, ch)
    [] s.mode = "value" -> Value(s, ch)
    [] s.mode = "valueEscape" -> [s EXCEPT !.mode = "value", !.val = Append(@, ch)]
    [] s.mode = "quote" -> InQuotes(s, ch)
    [] s.mode = "quoteEscape" -> [s EXCEPT !.mode = "quote", !.val = Append(@, ch)]
    [] OTHER -> s

OptionRun(text) ==
  LET run[i \in 0 .. Len(text)] ==
        IF i = 0 THEN Options ELSE OptionStep(run[i - 1], text[i])
  IN run[Len(text)]

\* The options in the order of the text, or an error.
parseOpts(text) ==
  LET s == OptionRun(text)
  IN CASE s.mode = "start" -> s.found
       [] s.mode \in {"equals", "value"} -> Store(s).found
       [] OTHER -> Failed

\* v[key]: the last option of that key, <<>> without one.
Get(found, key) ==
  LET at == {i \in DOMAIN found : found[i][1] = <<key>>}
  IN IF at = {} THEN <<>> ELSE found[Max(at)][2]

\* Host with port, and database, that the log shows for a key-value string;
\* such a text has no scheme and is no URL.  After an error the code tries
\* url.ParseQuery, which is left out: the result is Failed.
parseDSN(text) ==
  LET found == parseOpts(text)
      host == IF Get(found, "host") # <<>> THEN Get(found, "host") ELSE Get(found, "server")
      port == Get(found, "port")
  IN IF found = Failed THEN Failed
     ELSE [host |-> host \o IF port = <<>> THEN <<>> ELSE <<":">> \o port,
           db |-> Get(found, "database"),
           user |-> IF Get(found, "user") # <<>> THEN Get(found, "user")
                    ELSE Get(found, "user id")]
=============================================================================
