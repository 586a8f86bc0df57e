----------------------------- MODULE SqlValues ------------------------------
(***************************************************************************)
(* Values that calls of internal/rdb exchange with the database: arrays,   *)
(* as parameters and as results, and the string a connection is made with. *)
(***************************************************************************)
EXTENDS SqlStatement, SqlText

CONSTANTS
  Characters,     \* that occur in texts
  StringArrays,   \* arrays of strings that are sent or are in the database
  Floats,         \* numbers, each the one symbol it is written as
  Float32Arrays,  \* arrays of them
  ArrayTexts,     \* texts that are scanned, by whomever they were written
  ConnStrings,    \* values of ConnStringKV
  EscapeLimit     \* how many characters escapeForPostgres replaces at most

\* Characters and words that the program or the database writes itself.
Written ==
  Unquotable \cup {"'", "=", ":", "host", "database", "user", "password", "port",
                   "sslmode", "disable", "client_encoding", "UTF8"}

\* The values of a connection string have no more backslashes and no more
\* quotes than are escaped.
AllEscaped(cs) ==
  \A i \in 1 .. 7 : \A ch \in {"\\", "'"} :
    Cardinality(Places(kvPairs(cs)[i][2], ch)) <= EscapeLimit

\* A number has no character that array.go treats specially and is not NULL.
ASSUME ValuesAssumption ==
  /\ Written \subseteq Characters
  /\ StringArrays \subseteq Seq(Seq(Characters))
  /\ Floats \subseteq Characters \ (Unquotable \cup {"NULL"})
  /\ Float32Arrays \subseteq Seq(Floats)
  /\ ArrayTexts \subseteq Seq(Characters)
  /\ EscapeLimit \in Nat
  /\ ConnStrings \subseteq
       [host : Seq(Characters), database : Seq(Characters), user : Seq(Characters),
        password : Seq(Characters), port : Characters, sslMode : Seq(Characters)]
  /\ \A cs \in ConnStrings : AllEscaped(cs)

\* Nil, an error and a panic are none of the values.
ASSUME ResultsAssumption ==
  /\ Failed # Panic
  /\ Nil \notin Seq(Characters)
  /\ \A x \in {Nil, Failed, Panic} : x \notin Seq(Seq(Characters) \cup {Nil})
  /\ \A x \in {Nil, Failed, Panic} : x \notin Seq(Floats)
  /\ \A x \in {Failed, Panic} :
       x \notin [dims : Seq(Nat), elems : Seq(Seq(Characters) \cup {Nil})]
  /\ Failed \notin Seq(Seq(Seq(Characters)))

NothingYet == db.session = "nil" /\ db.drivers = 0

\* What array.go writes and what PostgreSQL writes is read back as it was,
\* nil and the empty array apart; no text makes the parser divide by a
\* dimension of zero.
ArraysSurvive ==
  NothingYet =>
    /\ \A a \in StringArrays \cup {Nil} : StringArrayScan(StringArrayValue(a)) = a
    /\ \A a \in StringArrays : StringArrayScan(BackendArray(a)) = a
    /\ \A a \in Float32Arrays \cup {Nil} : Float32ArrayScan(Float32ArrayValue(a), Floats) = a
    /\ \A t \in ArrayTexts : parseArray(t) # Panic

\* parseOpts reads the options of a KVConnectionString back, whatever
\* characters the values have, and parseDSN finds the host, the port, the
\* database and the user.
ConnStringSurvives ==
  NothingYet =>
    \A cs \in ConnStrings :
      LET text == KVConnectionString(cs, EscapeLimit)
      IN /\ parseOpts(text) = [i \in DOMAIN kvPairs(cs) |->
                                 << <<kvPairs(cs)[i][1]>>, kvPairs(cs)[i][2]>>]
         /\ parseDSN(text) = [host |-> cs.host \o <<":", cs.port>>, db |-> cs.database,
                              user |-> cs.user]
=============================================================================
