------------------------------- MODULE MCRsg -------------------------------
(***************************************************************************)
(* Small grammars for RsgGenerator.  MCProductions has an expression that  *)
(* nests and is cut, an option that is cut and, as table_factor, not       *)
(* composite, a token that is also a production, a refused symbol, and a   *)
(* production that is repeated.  MCPlain is the same without repetition:   *)
(* mysql_sql.y has none.                                                   *)
(***************************************************************************)
EXTENDS RsgGenerator

MCProductions ==
    << [name |-> "stmt",  rules |-> << <<"expr">> >>],
       [name |-> "expr",  rules |-> << <<"expr", "opt">>, <<"ident">> >>],
       [name |-> "ident", rules |-> << <<"lit">> >>],
       [name |-> "opt",   rules |-> << <<>> >>],
       [name |-> "set",   rules |-> << <<"lit">> >>],
       [name |-> "stmt",  rules |-> << <<"set", "opt">> >>] >>
MCPlain ==
    << [name |-> "stmt",  rules |-> << <<"expr">>, <<"set", "opt">> >>],
       [name |-> "expr",  rules |-> << <<"expr", "opt">>, <<"ident">> >>],
       [name |-> "ident", rules |-> << <<"lit">> >>],
       [name |-> "opt",   rules |-> << <<>> >>],
       [name |-> "set",   rules |-> << <<"lit">> >>] >>
MCCompNames == {"expr"}
MCCutNames == {"expr", "opt"}
MCTokens == {"ident"}
MCForbidden == {"set"}
MCRoots == {"stmt", "expr"}
=============================================================================
