-------------------------- MODULE MigrationScript --------------------------
(***************************************************************************)
(* The lexical check every migration file passes before it is executed     *)
(* (modules/db/migration-script.ts).  The runner executes the body inside  *)
(* a transaction of its own, so the parser must recognise and remove the   *)
(* transaction envelope of the file, and must not be misled by the BEGIN   *)
(* and END of a trigger or the END of a CASE.                              *)
(*                                                                         *)
(* A script is a sequence of phrases, each a few words of SQL; it grows    *)
(* by one phrase a step and the scanner, which reads the words from left   *)
(* to right, advances with it.  In every state the parser's verdict on the *)
(* script read so far is compared with a definition of well-formedness     *)
(* that looks at the script as a whole.                                    *)
(***************************************************************************)
EXTENDS Naturals, Sequences, SequencesExt

CONSTANTS
    Openings,    \* scripts the enumeration starts from
    MaxPhrases   \* bound: phrases appended to an opening

OpeningsAssumption == MaxPhrases \in Nat

(***************************************************************************)
(* The phrases and their words.  A comment has no words: masking removes   *)
(* it before the words are read.                                           *)
(***************************************************************************)
Words(ph) ==
    CASE ph = "comment"   -> << >>
      [] ph = "off"       -> <<"PRAGMA", ";">>
      [] ph = "on"        -> <<"PRAGMA", ";">>
      [] ph = "immediate" -> <<"BEGIN", "IMMEDIATE", ";">>
      [] ph = "begin"     -> <<"BEGIN", ";">>
      [] ph = "commit"    -> <<"COMMIT", ";">>
      [] ph = "sql"       -> <<"SQL", ";">>
      [] ph = "trigger"   -> <<"CREATE", "TRIGGER", "SQL", "BEGIN">>
      [] ph = "temp"      -> <<"CREATE", "TEMP", "TRIGGER", "SQL", "BEGIN">>
      [] ph = "case"      -> <<"SQL", "CASE">>
      [] ph = "end"       -> <<"END", ";">>

Phrases == {"comment", "off", "on", "immediate", "begin", "commit", "sql",
            "trigger", "temp", "case", "end"}

Control == {"BEGIN", "COMMIT", "ROLLBACK", "END", "SAVEPOINT", "RELEASE"}

VARIABLES
    script,   \* the phrases read
    scan      \* the scanner's local variables

vars == <<script, scan>>

Fresh == [start |-> TRUE, current |-> << >>, from |-> 0, prefix |-> << >>,
          trigger |-> FALSE, body |-> FALSE, cases |-> 0, closing |-> FALSE,
          found |-> << >>, bad |-> FALSE]

(* A word of a trigger's body: a CASE hides one END, the next END closes.  *)
BodyWord(s, w) ==
    CASE w = "CASE" -> [s EXCEPT !.cases = @ + 1]
      [] w = "END" /\ s.cases > 0 -> [s EXCEPT !.cases = @ - 1]
      [] OTHER -> [s EXCEPT !.closing = (w = "END")]

(* One word inside CREATE TRIGGER: everything up to the closing END and    *)
(* its semicolon is skipped; a word between the two is malformed.          *)
InTrigger(s, w) ==
    IF w = ";"
    THEN IF s.closing
         THEN [s EXCEPT !.trigger = FALSE, !.body = FALSE, !.cases = 0,
                        !.closing = FALSE, !.start = TRUE]
         ELSE s
    ELSE IF ~s.body THEN [s EXCEPT !.body = (w = "BEGIN")]
    ELSE IF s.closing THEN [s EXCEPT !.bad = TRUE]
    ELSE BodyWord(s, w)

(* One word outside: a control word that starts a statement starts a       *)
(* directive, which ends at the semicolon.                                 *)
Outside(s, w, pos) ==
    IF w = ";"
    THEN [s EXCEPT !.start = TRUE, !.current = << >>, !.prefix = << >>,
                   !.found = IF s.current = << >> THEN @
                             ELSE Append(@, [from |-> s.from, to |-> pos,
                                             value |-> s.current])]
    ELSE IF s.start
    THEN [s EXCEPT !.start = FALSE,
                   !.prefix = IF w = "CREATE" THEN <<w>> ELSE << >>,
                   !.current = IF w \in Control THEN <<w>> ELSE << >>,
                   !.from = pos]
    ELSE IF s.prefix # << >> /\ w = "TRIGGER"
    THEN [s EXCEPT !.prefix = << >>, !.trigger = TRUE]
    ELSE IF Len(s.prefix) = 1 /\ w = "TEMP"
    THEN [s EXCEPT !.prefix = Append(@, w)]
    ELSE [s EXCEPT !.prefix = << >>,
                   !.current = IF @ = << >> THEN @ ELSE Append(@, w)]

Word(s, w, pos) == IF s.trigger THEN InTrigger(s, w) ELSE Outside(s, w, pos)

Init == script \in Openings
        /\ scan = FoldLeft(LAMBDA s, i : FoldLeft(LAMBDA r, w : Word(r, w, i), s, Words(script[i])),
                           Fresh, [i \in 1..Len(script) |-> i])

Read(ph) ==
    /\ ~scan.bad
    /\ \E o \in Openings : IsPrefix(o, script) /\ Len(script) < MaxPhrases + Len(o)
    /\ script' = Append(script, ph)
    /\ scan' = FoldLeft(LAMBDA s, w : Word(s, w, Len(script) + 1), scan, Words(ph))

Next == \E ph \in Phrases : Read(ph)

Spec == Init /\ [][Next]_vars

(***************************************************************************)
(* parseMigrationScript: the verdict on the script read so far.            *)
(***************************************************************************)
NoSql(i, j) == \A k \in i..j : script[k] = "comment"

(* The scan of an unterminated trigger fails; a directive the script ends  *)
(* in is one all the same.                                                 *)
Malformed == scan.bad \/ scan.trigger

Directives == IF scan.current = << >> THEN scan.found
              ELSE Append(scan.found, [from |-> scan.from, to |-> Len(script),
                                       value |-> scan.current])

(* PRAGMA foreign_keys directives are searched for in the whole text,      *)
(* whatever statement they stand in.                                       *)
ForeignKeys == SelectSeq([i \in 1..Len(script) |-> i],
                         LAMBDA i : script[i] \in {"off", "on"})

Rejected == [ok |-> FALSE, from |-> 1, to |-> 0, fkOff |-> FALSE]

Body(i, j, off) == IF i > j THEN Rejected
                   ELSE [ok |-> TRUE, from |-> i, to |-> j, fkOff |-> off]

Plain(i) == Body(i, Len(script), FALSE)

OffOn(fk) == Len(fk) = 2 /\ script[fk[1]] = "off" /\ script[fk[2]] = "on"

(* validateForeignKeyEnvelope throws unless the pragmas, if there are any, *)
(* enclose the transaction.  Without pragmas it never throws: whether the  *)
(* transaction is the whole script only decides what it returns.           *)
EnvelopeAccepted(fk, b, c) ==
    fk # << >> => /\ OffOn(fk) /\ fk[1] < b /\ fk[2] > c
                  /\ NoSql(1, fk[1] - 1) /\ NoSql(fk[1] + 1, b - 1)
                  /\ NoSql(c + 1, fk[2] - 1) /\ NoSql(fk[2] + 1, Len(script))

EnvelopeOff(fk, b, c) ==
    fk = << >> => NoSql(1, b - 1) /\ NoSql(c + 1, Len(script))

(* The outcome: the phrases of the body, or malformed.                     *)
Parsed ==
    LET tx == Directives  fk == ForeignKeys IN
    IF Malformed THEN Rejected
    ELSE IF tx # << >>
    THEN IF /\ Len(tx) = 2
            /\ tx[1].value = <<"BEGIN", "IMMEDIATE">>
            /\ tx[2].value = <<"COMMIT">>
            /\ EnvelopeAccepted(fk, tx[1].from, tx[2].to)
         THEN Body(tx[1].to + 1, tx[2].from - 1,
                   EnvelopeOff(fk, tx[1].from, tx[2].to))
         ELSE Rejected
    ELSE IF fk = << >> THEN Plain(1)
    ELSE IF Len(fk) = 1 /\ script[fk[1]] = "on" /\ NoSql(1, fk[1] - 1)
    THEN Plain(fk[1] + 1)
    ELSE IF OffOn(fk) /\ NoSql(1, fk[1] - 1) /\ NoSql(fk[2] + 1, Len(script))
    THEN Body(fk[1] + 1, fk[2] - 1, TRUE)
    ELSE Rejected

(***************************************************************************)
(* The reference: statements, found by looking ahead for their end.  The   *)
(* body of a trigger ends at the END with as many CASEs as ENDs before it. *)
(***************************************************************************)
Opens == {"trigger", "temp"}
Unfinished == Opens \cup {"case", "comment"}

Count(ph, i, j) == Cardinality({k \in i..j : script[k] = ph})

Balanced(i, k) == script[k] = "end" /\ Count("end", i, k - 1) = Count("case", i, k)

StatementEnd(i) ==
    IF script[i] = "comment" THEN {i}
    ELSE IF script[i] \in Opens
    THEN {k \in i..Len(script) : Balanced(i, k) /\ \A m \in i..(k - 1) : ~Balanced(i, m)}
    ELSE {k \in i..Len(script) : script[k] \notin Unfinished
                                 /\ \A m \in i..(k - 1) : script[m] \in Unfinished}

Starts ==
    LET start[i \in 1..(Len(script) + 1)] ==
            i = 1 \/ \E j \in 1..(i - 1) : start[j] /\ StatementEnd(j) = {i - 1}
    IN  {i \in 1..Len(script) : start[i] /\ script[i] # "comment"}

ControlPhrases == {"immediate", "begin", "commit", "end"}
Pragmas == {"off", "on"}

FirstOf == CHOOSE i \in Starts : \A j \in Starts : i <= j
LastOf  == CHOOSE i \in Starts : \A j \in Starts : i >= j

(* The statements that remain when the layout's own are taken away.        *)
Layouts ==
    {<<Starts, FALSE>>} \cup
    (IF Starts = {} THEN {}
     ELSE (IF script[FirstOf] = "on" THEN {<<Starts \ {FirstOf}, FALSE>>} ELSE {}) \cup
          (IF script[FirstOf] = "off" /\ script[LastOf] = "on"
           THEN LET inner == Starts \ {FirstOf, LastOf}
                IN  {<<inner, TRUE>>} \cup
                    {<<inner \ {b, c}, TRUE>> :
                        <<b, c>> \in {<<b, c>> \in inner \X inner :
                            /\ script[b] = "immediate" /\ script[c] = "commit"
                            /\ \A j \in inner : b <= j /\ j <= c}}
           ELSE {}))

(* A body is made of complete statements, none of which is control.        *)
ProperBody(body) ==
    /\ body # {}
    /\ \A i \in body : /\ script[i] \notin ControlPhrases
                       /\ StatementEnd(i) # {}
                       /\ \A e \in StatementEnd(i) : \A k \in i..e : script[k] \notin Pragmas

InBody == Starts \cap (Parsed.from)..(Parsed.to)

(***************************************************************************)
(* Properties                                                              *)
(***************************************************************************)

TypeOK ==
    /\ script \in Seq(Phrases)
    /\ scan.start \in BOOLEAN /\ scan.trigger \in BOOLEAN
    /\ scan.cases \in 0..Len(script)
    /\ scan.trigger => scan.current = << >> /\ scan.prefix = << >>
    /\ ~scan.trigger => scan.cases = 0 /\ ~scan.body /\ ~scan.closing

(* The body the runner executes inside its own transaction never holds a   *)
(* statement that opens or ends a transaction: the schema change and its   *)
(* ledger row would no longer be atomic.  A BEGIN or END of a trigger is   *)
(* not such a statement (findTransactionDirectives).                       *)
NoNestedControl ==
    Parsed.ok => \A i \in InBody : script[i] \notin ControlPhrases

(* Unwrapping never cuts a trigger in two: a trigger that starts in the    *)
(* body ends in it, whatever CASE expressions it holds.                    *)
TriggersWhole ==
    Parsed.ok => \A i \in InBody : script[i] \in Opens =>
                     \E e \in StatementEnd(i) : e <= Parsed.to

(* Every script of a recognised layout is accepted, its body is exactly    *)
(* what the layout encloses, and foreign keys are switched off when the    *)
(* layout says so.                                                         *)
WellFormedAccepted ==
    \A l \in Layouts : ProperBody(l[1]) =>
        Parsed.ok /\ InBody = l[1] /\ Parsed.fkOff = l[2]

(* When the script carries foreign-key pragmas nothing is lost: what is    *)
(* not in the body is the envelope itself.                                 *)
PragmaScriptsWhole ==
    Parsed.ok /\ ForeignKeys # << >> =>
        \A i \in Starts \ InBody : script[i] \in Pragmas \cup {"immediate", "commit"}

=============================================================================
