------------------------------- MODULE Plugins -------------------------------
(***************************************************************************)
(* The last phase of check_page: core._run_plugins and Value.upsert on the *)
(* table value of one page, statement by statement, with several checks of *)
(* the page at a time, deaths in between and the deletion of the page,     *)
(* which whoever still holds it may save again.                            *)
(*                                                                         *)
(* What the plug-ins return together is an input: a function from names to *)
(* texts. A plug-in that raises or returns {} adds nothing to it.          *)
(***************************************************************************)
EXTENDS Integers, FiniteSets, Functions

CONSTANTS Procs, Names, Texts,
          Blank,     \* the default of Value.value: '', as no plug-in returned
          MaxPk,     \* bound: keys of value ever handed out
          MaxRuns    \* bound: runs of the phase ever started

ASSUME PluginsAssumption ==
    /\ Names # {}
    /\ Blank \notin Texts
    /\ MaxPk \in Nat
    /\ MaxRuns \in Nat

VARIABLES alive,    \* the page has its row in table page
          value,    \* table value: id_value -> [name, text]
          nextPk,   \* sequence behind id_value
          runs,     \* number of runs started
          pc,       \* next statement of each process
          want,     \* want[w]: values, what the plug-ins returned to w
          todo,     \* todo[w]: the names the loop has not reached, or the
                    \* names to delete
          cur,      \* cur[w]: _value, the instance upsert holds
          quiet,    \* (history) nobody else has written since w read antes
          cut       \* (history) keys whose upsert was cut short

vars == <<alive, value, nextPk, runs, pc, want, todo, cur, quiet, cut>>

Returned == UNION {[N -> Texts] : N \in SUBSET Names}
NoValue == [pk |-> 0, name |-> CHOOSE n \in Names : TRUE]
Nothing == [n \in {} |-> n]

Init ==
    /\ alive = TRUE
    /\ value = Nothing
    /\ nextPk = 1
    /\ runs = 0
    /\ pc = [w \in Procs |-> "idle"]
    /\ want = [w \in Procs |-> Nothing]
    /\ todo = [w \in Procs |-> {}]
    /\ cur = [w \in Procs |-> NoValue]
    /\ quiet = [w \in Procs |-> FALSE]
    /\ cut = {}

-----------------------------------------------------------------------------
(* Statements on table value *)

Rows(n) == {k \in DOMAIN value : value[k].name = n}
Stored == {value[k].name : k \in DOMAIN value}

Put(k, n, t) == [j \in DOMAIN value \cup {k} |->
                    IF j = k THEN [name |-> n, text |-> t] ELSE value[j]]

\* An INSERT needs the page to exist and the name to be free in it
\* (unique_value_for_page).
InsertFails(n) == ~ alive \/ Rows(n) # {}

\* Wrong variant: only INSERTs of new instances are constrained.
SaveFails_Never(k, n) == FALSE

\* _value.save(): an UPDATE by key, or an INSERT with the old key.
SaveFails(k, n) == k \notin DOMAIN value /\ InsertFails(n)

-----------------------------------------------------------------------------
(* A process goes on, or ends *)

Go(w, l) == pc' = [pc EXCEPT ![w] = l]

\* The run of w ends, by itself or not.
Leave(w) ==
    /\ Go(w, "idle")
    /\ want' = [want EXCEPT ![w] = Nothing]
    /\ todo' = [todo EXCEPT ![w] = {}]
    /\ cur' = [cur EXCEPT ![w] = NoValue]

\* What a step of w does to the history variables.
Observe(w) ==
    /\ quiet' = [v \in Procs |-> IF v = w
                                 THEN pc'[w] # "idle" /\ (pc[w] = "names" \/ quiet[w])
                                 ELSE quiet[v] /\ value' = value]
    /\ cut' = IF pc[w] = "save" /\ pc'[w] = "idle"
              THEN cut \cup {cur[w].pk} ELSE cut

-----------------------------------------------------------------------------
(* _run_plugins *)

\* The plug-ins have run.
RunPlugins(w, values) ==
    /\ pc[w] = "idle"
    /\ runs < MaxRuns
    /\ runs' = runs + 1
    /\ want' = [want EXCEPT ![w] = values]
    /\ Go(w, "names")
    /\ UNCHANGED <<alive, value, nextPk, todo, cur>>

\* antes and a_borrar.
ReadNames(w) ==
    LET gone == Stored \ DOMAIN want[w] IN
    /\ pc[w] = "names"
    /\ IF gone = {}
       THEN Go(w, "upsert") /\ todo' = [todo EXCEPT ![w] = DOMAIN want[w]]
       ELSE Go(w, "delete") /\ todo' = [todo EXCEPT ![w] = gone]
    /\ UNCHANGED <<alive, value, nextPk, runs, want, cur>>

\* Wrong variant: what is not returned any more stays.
DeleteGone_Nothing(w) ==
    /\ pc[w] = "delete"
    /\ todo' = [todo EXCEPT ![w] = DOMAIN want[w]]
    /\ Go(w, "upsert")
    /\ UNCHANGED <<alive, value, nextPk, runs, want, cur>>

\* page.values.filter(name__in=a_borrar).delete()
DeleteGone(w) ==
    /\ pc[w] = "delete"
    /\ value' = Restrict(value, {k \in DOMAIN value : value[k].name \notin todo[w]})
    /\ todo' = [todo EXCEPT ![w] = DOMAIN want[w]]
    /\ Go(w, "upsert")
    /\ UNCHANGED <<alive, nextPk, runs, want, cur>>

\* Wrong variant: a new value keeps its default.
FindValue_KeepsDefault(w, n) ==
    /\ pc[w] = "upsert"
    /\ n \in todo[w]
    /\ todo' = [todo EXCEPT ![w] = @ \ {n}]
    /\ IF Rows(n) = {}
       THEN /\ nextPk <= MaxPk
            /\ value' = IF alive THEN Put(nextPk, n, Blank) ELSE value
            /\ nextPk' = nextPk + 1
            /\ UNCHANGED <<pc, cur>>
       ELSE /\ \E k \in Rows(n) : cur' = [cur EXCEPT ![w] = [pk |-> k, name |-> n]]
            /\ Go(w, "save")
            /\ UNCHANGED <<value, nextPk>>
    /\ UNCHANGED <<alive, runs, want>>

\* One turn of the loop: the SELECT of get_or_create.
FindValue(w, n) ==
    /\ pc[w] = "upsert"
    /\ n \in todo[w]
    /\ todo' = [todo EXCEPT ![w] = @ \ {n}]
    /\ \/ /\ Rows(n) = {}
          /\ cur' = [cur EXCEPT ![w] = [pk |-> 0, name |-> n]]
          /\ Go(w, "insert")
       \/ \E k \in Rows(n) :
          /\ cur' = [cur EXCEPT ![w] = [pk |-> k, name |-> n]]
          /\ Go(w, "save")
    /\ UNCHANGED <<alive, value, nextPk, runs, want>>

\* Wrong variant: the sequence does not advance.
InsertValue_SameKey(w) ==
    LET n == cur[w].name IN
    /\ pc[w] = "insert"
    /\ ~ InsertFails(n)
    /\ value' = Put(nextPk, n, Blank)
    /\ cur' = [cur EXCEPT ![w].pk = nextPk]
    /\ Go(w, "save")
    /\ UNCHANGED <<alive, nextPk, runs, want, todo>>

\* Its INSERT, of a blank value. When another process was first, or the page is
\* gone, get_or_create looks again.
InsertValue(w) ==
    LET n == cur[w].name IN
    /\ pc[w] = "insert"
    /\ nextPk <= MaxPk
    /\ nextPk' = nextPk + 1
    /\ IF InsertFails(n)
       THEN Go(w, "again") /\ UNCHANGED <<value, cur>>
       ELSE /\ value' = Put(nextPk, n, Blank)
            /\ cur' = [cur EXCEPT ![w].pk = nextPk]
            /\ Go(w, "save")
    /\ UNCHANGED <<alive, runs, want, todo>>

\* The second SELECT: the IntegrityError is raised if there is nothing.
FindAgain(w) ==
    LET n == cur[w].name IN
    /\ pc[w] = "again"
    /\ \/ Rows(n) = {} /\ Leave(w)
       \/ \E k \in Rows(n) :
          /\ cur' = [cur EXCEPT ![w].pk = k]
          /\ Go(w, "save")
          /\ UNCHANGED <<want, todo>>
    /\ UNCHANGED <<alive, value, nextPk, runs>>

\* _value.value = str(value); _value.save()
SaveValue(w) ==
    LET k == cur[w].pk
        n == cur[w].name
    IN
    /\ pc[w] = "save"
    /\ IF SaveFails(k, n)
       THEN Leave(w) /\ UNCHANGED value
       ELSE /\ value' = Put(k, n, want[w][n])
            /\ Go(w, "upsert")
            /\ UNCHANGED <<want, todo, cur>>
    /\ UNCHANGED <<alive, nextPk, runs>>

\* The loop is over.
EndRun(w) ==
    /\ pc[w] = "upsert"
    /\ todo[w] = {}
    /\ Leave(w)
    /\ UNCHANGED <<alive, value, nextPk, runs>>

\* The process is killed.
Abort(w) ==
    /\ pc[w] # "idle"
    /\ Leave(w)
    /\ UNCHANGED <<alive, value, nextPk, runs>>

\* page.delete(), by a process that is not in this module: CASCADE.
DeletePage ==
    /\ alive
    /\ alive' = FALSE
    /\ value' = Nothing
    /\ quiet' = [w \in Procs |-> FALSE]
    /\ UNCHANGED <<nextPk, runs, pc, want, todo, cur, cut>>

\* page.save() by a check that has loaded it before: the row is inserted again,
\* with its old key.
SavePage ==
    /\ ~ alive
    /\ alive' = TRUE
    /\ UNCHANGED <<value, nextPk, runs, pc, want, todo, cur, quiet, cut>>

Step(w) ==
    \/ \E values \in Returned : RunPlugins(w, values)
    \/ ReadNames(w)
    \/ DeleteGone(w)
    \/ \E n \in Names : FindValue(w, n)
    \/ InsertValue(w)
    \/ FindAgain(w)
    \/ SaveValue(w)
    \/ EndRun(w)
    \/ Abort(w)

Next == (\E w \in Procs : Step(w) /\ Observe(w)) \/ DeletePage \/ SavePage

Spec == Init /\ [][Next]_vars

-----------------------------------------------------------------------------
(* Properties *)

\* Types.
TypeOK ==
    /\ alive \in BOOLEAN
    /\ DOMAIN value \subseteq 1 .. (nextPk - 1)
    /\ \A k \in DOMAIN value : value[k] \in [name : Names, text : Texts \cup {Blank}]
    /\ nextPk \in 1 .. (MaxPk + 1)
    /\ runs \in 0 .. MaxRuns
    /\ pc \in [Procs -> {"idle", "names", "delete", "upsert", "insert", "again", "save"}]
    /\ want \in [Procs -> Returned]
    /\ todo \in [Procs -> SUBSET Names]
    /\ cur \in [Procs -> [pk : Nat, name : Names]]
    /\ quiet \in [Procs -> BOOLEAN]
    /\ cut \subseteq Nat

\* A page has one value of a name, and none while it is deleted, whichever
\* instances of values that other runs have deleted are saved (models.Value:
\* "para una pagina dada, solo puede tener un valor para un nombre dado").
OneValue ==
    /\ \A j, k \in DOMAIN value : value[j].name = value[k].name => j = k
    /\ ~ alive => value = Nothing

\* A run that nobody disturbed leaves exactly what its plug-ins returned, over
\* whatever earlier runs, finished or not, had left (_run_plugins).
ValuesMatchRun ==
    [][\A w \in Procs : EndRun(w) /\ quiet[w] =>
         /\ Stored = DOMAIN want[w]
         /\ \A k \in DOMAIN value : value[k].text = want[w][value[k].name]]_vars

\* A blank value is one that an upsert is about to fill, or that one left blank
\* when it was cut short (Value.upsert).
BlankExplained ==
    \A k \in DOMAIN value : value[k].text = Blank =>
        k \in cut \/ \E w \in Procs : pc[w] = "save" /\ cur[w].pk = k
=============================================================================
