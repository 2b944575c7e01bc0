-------------------------------- MODULE Json --------------------------------
(***************************************************************************)
(* The JSON of operations (src/json_util.hpp), on sequences of tokens.  A  *)
(* token is a punctuation character, a character that escaping treats, or  *)
(* a word; a number is the word that names it.  `json_string' and          *)
(* `json_size' do not parse: they look for "key" in quotes anywhere, and   *)
(* take what follows the next colon.                                       *)
(***************************************************************************)
EXTENDS Naturals, Sequences, SequencesExt

Number == {"#position", "#count", "#revision", "#baseRevision"}

(* Mutant: quotes are written as they are. *)
EscapeButQuotes(text) ==
  FlattenSeq([i \in DOMAIN text |->
    IF text[i] = "\\" THEN <<"\\", "\\">> ELSE <<text[i]>>])

(* A control character other than \n, \r and \t becomes \u00XX. *)
JsonEscape(text) ==
  FlattenSeq([i \in DOMAIN text |->
    CASE text[i] \in {"\\", "\""} -> <<"\\", text[i]>>
      [] text[i] = "newline"      -> <<"\\", "n">>
      [] text[i] = "control"      -> <<"\\", "u00XX">>
      [] OTHER                    -> <<text[i]>>])

-----------------------------------------------------------------------------
(* The index of the first token t from index i on, or 0; 0 from 0 on. *)
Find(json, t, i) ==
  IF i = 0 THEN 0 ELSE SelectInSubSeq(json, i, Len(json), LAMBDA u : u = t)

AfterColon(json, key) ==
  LET needles == { i \in 1 .. Len(json) - 2 : SubSeq(json, i, i + 2) = <<"\"", key, "\"">> }
  IN  IF needles = {} THEN 0
      ELSE Find(json, ":", CHOOSE i \in needles : \A j \in needles : i <= j)

(* Reads up to the closing quote; an escaped character stands for itself,  *)
(* but for n, r and t.                                                     *)
Unescape(tokens) ==
  LET read(s, t) ==
        CASE s.closed        -> s
          [] ~s.closed /\ s.escaped ->
               [s EXCEPT !.escaped = FALSE,
                         !.value = Append(@, IF t = "n" THEN "newline" ELSE t)]
          [] ~s.closed /\ ~s.escaped /\ t = "\\" -> [s EXCEPT !.escaped = TRUE]
          [] ~s.closed /\ ~s.escaped /\ t = "\"" -> [s EXCEPT !.closed = TRUE]
          [] OTHER -> [s EXCEPT !.value = Append(@, t)]
  IN  FoldLeft(read, [value |-> <<>>, escaped |-> FALSE, closed |-> FALSE], tokens).value

JsonString(json, key) ==
  LET quote == Find(json, "\"", AfterColon(json, key))
  IN  IF quote = 0 THEN <<>> ELSE Unescape(SubSeq(json, quote + 1, Len(json)))

JsonSize(json, key) ==
  LET colon == AfterColon(json, key)
  IN  IF colon # 0 /\ colon < Len(json) /\ json[colon + 1] \in Number
      THEN json[colon + 1] ELSE "0"

-----------------------------------------------------------------------------
Key(key)           == <<"\"", key, "\"", ":">>
TextField(key, value)   == Key(key) \o <<"\"">> \o JsonEscape(value) \o <<"\"">>
SizeField(key, value)   == Key(key) \o <<value>>
Object(fields)     == <<"{">> \o FlattenSeq([i \in DOMAIN fields |-> Append(fields[i], ",")])

OpToJson(op) ==
  Object(<< TextField("kind", <<"op">>), TextField("type", <<op.type>>),
            SizeField("position", op.position), TextField("text", op.text),
            SizeField("count", op.count), SizeField("revision", op.revision),
            SizeField("baseRevision", op.baseRevision),
            TextField("clientId", op.clientId), TextField("opId", op.opId) >>)

OpFromJson(json) ==
  [type         |-> IF JsonString(json, "type") = <<"delete">> THEN "delete" ELSE "insert",
   position     |-> JsonSize(json, "position"),
   text         |-> JsonString(json, "text"),
   count        |-> JsonSize(json, "count"),
   baseRevision |-> JsonSize(json, "baseRevision"),
   revision     |-> JsonSize(json, "revision"),
   clientId     |-> JsonString(json, "clientId"),
   opId         |-> JsonString(json, "opId")]

(* What JSON.stringify makes of the object of sendOp (public/app.js). *)
Stringify(op) ==
  Object(<< TextField("kind", <<"op">>), TextField("type", <<op.type>>),
            SizeField("position", op.position), SizeField("count", op.count),
            TextField("text", op.text), SizeField("baseRevision", op.baseRevision),
            TextField("opId", op.opId), TextField("clientId", op.clientId) >>)

=============================================================================
