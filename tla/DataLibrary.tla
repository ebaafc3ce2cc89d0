---------------------------- MODULE DataLibrary ----------------------------
(***************************************************************************)
(* The data library of the mutator: which tables, views and columns a      *)
(* generated statement may name.  For each statement validate saves the    *)
(* library and fix_dependency goes over the marked names of the statement  *)
(* in passes: tables defined, undefined and used, views defined and        *)
(* undefined, columns defined and used.  A pass puts a name into the       *)
(* statement and changes the library as if the statement had succeeded;    *)
(* fuzz_one rolls the library back when the result has an error.           *)
(*                                                                         *)
(* The generator calls every identifier v0, so a name that no pass fixes   *)
(* stays v0, which is also the first name the mutator gives to a table.    *)
(***************************************************************************)
EXTENDS Naturals, Sequences, Functions

CONSTANT MaxId     \* bound on the names generated for one input

ASSUME MaxIdAssumption == MaxId \in 1..1097    \* v1099 is taken

Ids == 0..MaxId + 1                 \* a statement takes up to two
TableName(n) == <<"v", n>>
ViewName(n) == <<"view", n>>
Raw == TableName(0)
Default == TableName(1099)          \* create table v1099(c1100 INT)
Blank == <<"", 0>>                  \* a string that was moved from

TableNames == {TableName(n) : n \in Ids \cup {1099}}
ViewNames == {ViewName(n) : n \in Ids}
Names == TableNames \cup ViewNames \cup {Blank}
Columns == Ids \cup {1100}

VARIABLES
    pc,          \* "fix": fuzz_one has a new statement; "run": it is sent
    library,     \* v_table_names, v_view_name, m_tables
    backup,      \* the same, saved by validate; kept here until the result
    idCounter,   \* g_id_counter
    stmt,        \* the statement that is sent
    db,          \* what the database holds: tables, views, columns of each
    strayed,     \* history: a statement that names v0 unfixed took effect
    muddled      \* history: the tables and views whose columns went wrong

vars == <<pc, library, backup, idCounter, stmt, db, strayed, muddled>>

DefaultColumns == [n \in Names |-> IF n = Default THEN {1100} ELSE {}]

\* pre_validate: the library of a new input.
StartLibrary == [names |-> <<Default>>, views |-> <<>>, cols |-> DefaultColumns]
\* ... and the database after the fixed first statement.
StartDb == [tables |-> {Default}, views |-> {}, cols |-> DefaultColumns]

\* What a statement says: the names it creates, those it needs, the columns it
\* mentions.  Of a SELECT, also the columns it shows, where SELECT * shows all
\* there are, and whether its second table is that of a subquery.
Text(kind, new, old, columns) ==
    [kind |-> kind, new |-> new, old |-> old, cols |-> columns, raw |-> FALSE,
     shown |-> Columns, nested |-> FALSE]
Selecting(text, shown, nested) == [text EXCEPT !.shown = shown, !.nested = nested]
Unfixed(text) == [text EXCEPT !.raw = TRUE]       \* it names v0 regardless
NoStmt == Text("none", <<>>, <<>>, {})

Init ==
    /\ pc = "fix"
    /\ library = StartLibrary
    /\ backup = StartLibrary
    /\ idCounter = 0
    /\ stmt = NoStmt
    /\ db = StartDb
    /\ strayed = FALSE
    /\ muddled = {}

(***************************************************************************)
(* The passes of fix_dependency.  w is the library under repair, with made *)
(* for v_create_table_names_single and next for the id counter.            *)
(***************************************************************************)
Work == [names |-> library.names, views |-> library.views, cols |-> library.cols,
         made |-> <<>>, next |-> idCounter]

Without(s, x) ==
    LET kept[i \in 0..Len(s)] ==
            IF i = 0 THEN <<>>
            ELSE IF s[i] = x THEN kept[i - 1] ELSE Append(kept[i - 1], s[i])
    IN  kept[Len(s)]

\* std::remove without erase: what is kept moves to the front, and behind it
\* a string is still x, or empty if it was moved.
Removed(s, x) ==
    LET kept == Without(s, x) IN
    [i \in 1..Len(s) |-> IF i <= Len(kept) THEN kept[i]
                         ELSE IF s[i] = x THEN x ELSE Blank]

DefineTable(w) ==
    [w EXCEPT !.made = Append(@, TableName(w.next)), !.next = @ + 1]

TableNamed(w) == TableName(w.next)                                \* mutant
NewView(w) == ViewName(w.next)
DefineView(w) ==
    [w EXCEPT !.made = Append(@, NewView(w)), !.next = @ + 1,
              !.views = Append(@, NewView(w))]

\* The names a table undefine, a table use and a view undefine choose from;
\* without any the text stays as it is.
Known(s) == IF s = <<>> THEN {Raw} ELSE Range(s)
Usable(w) == IF w.names = <<>> THEN Known(w.made) ELSE Range(w.names)

RemovedOnly(w, x) == Removed(w.names, x)                          \* mutant
Erased(w, x) == Without(w.names, x)

\* A table defined before in the statement is the new name of x (RENAME).
UndefineTable(w, x) ==
    IF w.names = <<>> THEN w
    ELSE [w EXCEPT !.names = Erased(w, x),
                   !.cols = IF w.made = <<>> THEN @
                            ELSE [@ EXCEPT ![Head(w.made)] = w.cols[x]]]

UndefineView(w, x) ==
    IF w.views = <<>> THEN w
    ELSE [w EXCEPT !.views = Removed(@, x), !.names = Removed(@, x)]

Attach(w, x, columns) == [w EXCEPT !.cols[x] = @ \cup columns]

\* The column goes to the first table or view that the statement defines.
DefineColumn(w) == [Attach(w, Head(w.made), {w.next}) EXCEPT !.next = @ + 1]

Stored(w) == [names |-> w.names \o w.made, views |-> w.views, cols |-> w.cols]

(***************************************************************************)
(* validate: the library is saved, the statement fixed.                    *)
(***************************************************************************)
Send(w, text) ==
    /\ w.next <= MaxId
    /\ backup' = library
    /\ library' = Stored(w)
    /\ idCounter' = w.next
    /\ stmt' = text
    /\ pc' = "run"
    /\ UNCHANGED <<db, strayed, muddled>>

FixCreateTable ==
    LET w == DefineColumn(DefineTable(Work)) IN
    Send(w, Text("create", w.made, <<>>, {idCounter + 1}))

\* The columns of t are not put down to the new table (a TODO of the code).
FixCreateLike ==
    LET w == DefineTable(Work) IN
    \E t \in Usable(w) : Send(w, Text("like", w.made, <<t>>, {}))

\* A SELECT takes one table or two; the second may be that of a subquery.
From(w) == {<<t>> : t \in Usable(w)} \cup (Usable(w) \X Usable(w))
Outer(from, nested) == IF nested THEN {Head(from)} ELSE Range(from)
ColumnsOf(w, tables) == UNION {w.cols[t] : t \in tables}

\* What is put down for it: all the columns that the statement mentions, those
\* of WHERE, of expressions and of subqueries too; those of all its tables if
\* it mentions none.  (No name is ever marked kDataAliasName: an alias is
\* a kDataAliasTableName, and not put down.)
Mentioned(w, from, columns) ==
    IF columns = {} THEN ColumnsOf(w, Range(from)) ELSE columns

\* It is put down to x, the first IR that names a table, and again to the first
\* one of a subquery.
PutDown(w, x, from, nested, columns) ==
    LET first == Attach(w, x, Mentioned(w, from, columns))
    IN  IF nested THEN Attach(first, from[2], Mentioned(w, from, columns)) ELSE first

\* SELECT *, or some of the mentioned columns of the outer tables: the others
\* are in expressions, in WHERE or in the subquery.
Shown(w, from, nested, columns) ==
    {Columns} \cup SUBSET (columns \cap ColumnsOf(w, Outer(from, nested)))

\* The first IR of the statement that names a table is the new table.
FixCreateAs ==
    LET w == DefineTable(Work) IN
    \E from \in From(w), nested \in BOOLEAN :
    \E columns \in SUBSET ColumnsOf(w, Range(from)) :
    \E shown \in Shown(w, from, nested, columns) :
        /\ nested => Len(from) = 2
        /\ Send(PutDown(w, Head(w.made), from, nested, columns),
                Selecting(Text("as", w.made, from, columns), shown, nested))

\* The first one inside kViewTail is a table of the SELECT, for the view is
\* named outside it.  So that table gets the columns, and the view only those
\* of its list, which are mentioned too.
FixCreateView ==
    LET v == DefineView(Work) IN
    \E from \in From(Work), nested \in BOOLEAN :
    \E columns \in SUBSET ColumnsOf(v, Range(from)) :
        /\ nested => Len(from) = 2
        /\ \/ \E shown \in Shown(v, from, nested, columns) :
                 Send(PutDown(v, Head(from), from, nested, columns),
                      Selecting(Text("view", v.made, from, columns), shown, nested))
           \/ Send(PutDown(DefineColumn(v), Head(from), from, nested,
                           columns \cup {v.next}),
                   Selecting(Text("listed_view", v.made, from, {v.next}),
                             Columns, nested))

\* Only the first name of a DROP TABLE is marked; a second one stays v0.
FixDropTable ==
    \E x \in Known(library.names), kind \in {"drop_table", "drop_table_if_exists"} :
        LET w == UndefineTable(Work, x) IN
        \/ Send(w, Text(kind, <<>>, <<x>>, {}))
        \/ Send(w, Unfixed(Text(kind, <<>>, <<x, Raw>>, {})))

FixDropView ==
    \E x \in Known(library.views) : LET w == UndefineView(Work, x) IN
        \/ Send(w, Text("drop_view", <<>>, <<x>>, {}))
        \/ \E y \in Known(w.views) :
               Send(UndefineView(w, y), Text("drop_view", <<>>, <<x, y>>, {}))

\* All new names are defined before the first old one is undefined.
FixRename ==
    LET one == DefineTable(Work)
        two == DefineTable(one)
    IN \E x \in Known(library.names) :
        \/ Send(UndefineTable(one, x), Text("rename", one.made, <<x>>, {}))
        \/ LET w == UndefineTable(two, x) IN
           \E y \in Known(w.names) :
               Send(UndefineTable(w, y), Text("rename", w.made, <<x, y>>, {}))

\* The table of an ALTER TABLE is not marked.  Its new column is put down to
\* any table, or to none.
FixAddColumn ==
    LET w == [Work EXCEPT !.next = @ + 1]
        text == Unfixed(Text("add_column", <<>>, <<Raw>>, {idCounter}))
    IN \/ Send(w, text)
       \/ \E t \in Range(library.names) \ {Blank} :
              Send(Attach(w, t, {idCounter}), text)

\* A query with a derived table, CTE or JSON_TABLE that lists its columns: a
\* column that is listed counts as defined, and is put down to any table.
FixListedQuery ==
    LET w == [Work EXCEPT !.next = @ + 1] IN
    \E t \in Range(library.names) \ {Blank} :
        Send(Attach(w, t, {idCounter}), Text("query", <<>>, <<>>, {idCounter}))

FixAlterRename ==
    LET w == DefineTable(Work) IN
    Send(w, Unfixed(Text("rename", w.made, <<Raw>>, {})))

\* CREATE TABLE AS with more than ten subqueries: fix_one_stmt gives up, and
\* the statement is sent all the same.
GiveUp == Send(Work, Unfixed(Text("create", <<Raw>>, <<>>, {})))

Validate ==
    /\ pc = "fix"
    /\ \/ FixCreateTable \/ FixCreateLike \/ FixCreateAs \/ FixCreateView
       \/ FixDropTable \/ FixDropView \/ FixRename
       \/ FixAddColumn \/ FixListedQuery \/ FixAlterRename \/ GiveUp

(***************************************************************************)
(* MySQL: what a statement that succeeds does.                             *)
(***************************************************************************)
Objects == db.tables \cup db.views
Olds == Range(stmt.old)
News == Range(stmt.new)
Creates == stmt.kind \in {"create", "like", "as", "view", "listed_view"}

\* Statements are atomic; a name may be wrong in other ways than these.
CanSucceed ==
    /\ News \cap Objects = {} /\ Blank \notin Olds
    /\ Len(stmt.old) = 2 => stmt.old[1] # stmt.old[2]
    /\ stmt.kind \in {"like", "add_column", "drop_table"} => Olds \subseteq db.tables
    /\ stmt.kind \in {"as", "view", "listed_view", "rename"} => Olds \subseteq Objects
    /\ stmt.kind \in {"as", "view"} => stmt.cols \subseteq ColumnsOf(db, Olds)
    /\ stmt.kind = "drop_view" => Olds \subseteq db.views

\* The columns a new table or view has.
CreatedColumns ==
    IF stmt.kind \in {"like", "as", "view"}
    THEN stmt.shown \cap ColumnsOf(db, Outer(stmt.old, stmt.nested))
    ELSE stmt.cols

Created ==
    [tables |-> IF stmt.kind \in {"create", "like", "as"}
                THEN db.tables \cup News ELSE db.tables,
     views |-> IF stmt.kind \in {"view", "listed_view"}
               THEN db.views \cup News ELSE db.views,
     cols |-> [n \in Names |-> IF n \in News THEN CreatedColumns ELSE db.cols[n]]]

\* DROP TABLE does not drop views, and with IF EXISTS it does not mind.
Dropped ==
    LET gone == Olds \cap (IF stmt.kind = "drop_view" THEN db.views ELSE db.tables) IN
    [tables |-> db.tables \ gone, views |-> db.views \ gone,
     cols |-> [n \in Names |-> IF n \in gone THEN {} ELSE db.cols[n]]]

OldNameOf(n) == stmt.old[CHOOSE i \in DOMAIN stmt.new : stmt.new[i] = n]
Renamed(objects) ==
    (objects \ Olds) \cup {n \in News : OldNameOf(n) \in objects}
RenamedDb ==
    [tables |-> Renamed(db.tables), views |-> Renamed(db.views),
     cols |-> [n \in Names |-> IF n \in News THEN db.cols[OldNameOf(n)]
                               ELSE IF n \in Olds THEN {} ELSE db.cols[n]]]

AddedDb == [db EXCEPT !.cols[Raw] = @ \cup stmt.cols]

\* A query has no old name, and so drops nothing.
NewDb ==
    IF Creates THEN Created
    ELSE IF stmt.kind = "rename" THEN RenamedDb
    ELSE IF stmt.kind = "add_column" THEN AddedDb
    ELSE Dropped

(***************************************************************************)
(* fuzz_one: the result.                                                   *)
(***************************************************************************)
\* A SELECT that does not show all the columns that are put down for it.
Hides ==
    \/ stmt.nested
    \/ ~(stmt.cols \subseteq stmt.shown)
    \/ stmt.cols = {} /\ (stmt.shown # Columns \/ Olds \cap muddled # {})

\* The names to which fix_dependency has put down columns of something else:
\* a created v0 that no pass has fixed; a table created as a SELECT that hides
\* columns; the first table of a view, if there is a second one or a list, and
\* that of a subquery; the first new name of a RENAME, which gets the columns
\* of the last old one; the table that ALTER TABLE v0 is guessed to alter, and
\* that to which a column listed in a query goes.
Muddles(n) ==
    \/ stmt.kind = "create" /\ stmt.raw /\ n \in News
    \/ stmt.kind = "as" /\ Hides /\ n \in News
    \/ stmt.kind = "view" /\ Len(stmt.old) = 2 /\ n = Head(stmt.old)
    \/ stmt.kind = "listed_view" /\ n = Head(stmt.old)
    \/ stmt.nested /\ n = stmt.old[2]
    \/ /\ stmt.kind = "rename" /\ n = Head(stmt.new)
       /\ Len(stmt.new) = 2 \/ Olds \cap muddled # {}
    \/ /\ stmt.kind \in {"add_column", "query"} /\ n \notin Olds
       /\ library.cols[n] # backup.cols[n]
Muddled == muddled \cup {n \in Names : Muddles(n)}

Succeed ==
    /\ pc = "run"
    /\ CanSucceed
    /\ db' = NewDb
    /\ strayed' = (strayed \/ stmt.raw)
    /\ muddled' = Muddled
    /\ pc' = "fix"
    /\ backup' = StartLibrary
    /\ stmt' = NoStmt
    /\ UNCHANGED <<library, idCounter>>

NamesOnly == [backup EXCEPT !.cols = library.cols]                \* mutant
Rollback == backup

\* rollback_data_library; the ids are not taken back.
Fail ==
    /\ pc = "run"
    /\ library' = Rollback
    /\ pc' = "fix"
    /\ backup' = StartLibrary
    /\ stmt' = NoStmt
    /\ UNCHANGED <<idCounter, db, strayed, muddled>>

\* The next input: pre_validate, and reset_database.
PreValidate ==
    /\ pc = "fix"
    /\ library' = StartLibrary
    /\ idCounter' = 0
    /\ db' = StartDb
    /\ strayed' = FALSE /\ muddled' = {}
    /\ UNCHANGED <<pc, backup, stmt>>

Next == Validate \/ Succeed \/ Fail \/ PreValidate

Spec == Init /\ [][Next]_vars

-----------------------------------------------------------------------------
(***************************************************************************)
(* Properties.                                                             *)
(***************************************************************************)
LibraryType ==
    [names : Seq(Names), views : Seq(ViewNames \cup {Blank}),
     cols : [Names -> SUBSET Columns]]

\* The type of the state.
TypeOK ==
    /\ pc \in {"fix", "run"}
    /\ library \in LibraryType
    /\ backup \in LibraryType
    /\ idCounter \in 0..MaxId
    /\ stmt.new \in Seq(Names) /\ stmt.old \in Seq(Names)
    /\ stmt.cols \subseteq Columns
    /\ db \in [tables : SUBSET TableNames, views : SUBSET Names,
               cols : [Names -> SUBSET Columns]]
    /\ strayed \in BOOLEAN /\ muddled \subseteq Names

\* The mutator's own choice, as long as no raw v0 has hit a table of this name.
Chosen(n) == n # Raw \/ ~strayed

\* Between two statements the library has every table and view, and no name
\* of a table that is gone: the guesses of the passes, the rollback and the
\* result of the statement agree.  (Names of views that were dropped stay.)
LibraryMatches ==
    pc = "fix" =>
        /\ \A n \in Range(library.names) \cap TableNames :
               Chosen(n) => n \in db.tables \cup db.views
        /\ \A n \in db.tables : Chosen(n) => n \in Range(library.names)
        /\ db.views \cap ViewNames \subseteq Range(library.views)

\* A table or view has the columns that the library puts down to it, but for
\* those names to which a statement that took effect has put down others.
ColumnsAreOwn ==
    pc = "fix" =>
        \A n \in (db.tables \cup db.views) \ muddled :
            library.cols[n] \subseteq db.cols[n]
=============================================================================
