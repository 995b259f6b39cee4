------------------------------ MODULE MCTopics ------------------------------
(***************************************************************************)
(* Topics for TLC.  The four trees are independent of each other, so a     *)
(* behaviour works on one of them: plain filters with every kind of        *)
(* wildcard, or with empty levels, ill-formed ones among both; shared      *)
(* ones; system ones; and retained messages on topics of which one is a    *)
(* prefix of another.                                                      *)
(***************************************************************************)
EXTENDS Topics

MCLevels == {"", "+", "#", "a", "b", "g", "h", "a#", "$share", "$sys", "$x"}
DollarLevels == {"$share", "$sys", "$x"}
BadLevels == {"a#"}

Work(filters, topics) == [filters |-> filters, topics |-> topics]
WildcardFilters == {<<"a">>, <<"a", "b">>, <<"a", "#">>, <<"+", "b">>, <<"a", "+">>, <<"#">>, <<"a", "b", "a#">>}
EmptyFilters == {<<"a">>, <<"a", "">>, <<"", "b">>, <<"+", "b">>, <<"a", "+">>, <<"a", "+", "#">>, <<"a", "b", "a#">>}
ShareFilters == {<<"$share", "g", "a">>, <<"$share", "g", "+", "b">>, <<"$share", "h", "a">>,
                 <<"$share", "g", "a", "b", "#", "a">>, <<"$share", "+", "a">>, <<"$share", "h", "">>}
SysFilters == {<<"$sys", "a">>, <<"$sys", "a", "#">>, <<"$sys", "a", "b">>, <<"$sys", "+">>, <<"$sys", "b", "$x">>}
RetainTopics == {<<"a">>, <<"a", "b">>, <<"a", "b", "a">>, <<"a", "">>, <<"b", "$x">>, <<"b">>}

MCWorkloads == {Work(WildcardFilters, {}), Work(EmptyFilters, {}), Work(ShareFilters, {}), Work(SysFilters, {}), Work({}, RetainTopics)}
Symmetry == Permutations(Subs) \cup Permutations(Payloads)
MCSearches == {<<"a">>, <<"b">>, <<"a", "b">>, <<"a", "b", "a">>, <<"+", "b">>, <<"a", "#">>, <<"+">>, <<"#">>,
               <<"", "b">>, <<"a", "">>, <<"">>, <<"$sys", "a">>}
MCTopicsLooked == {<<"a">>, <<"b">>, <<"a", "b">>, <<"", "b">>, <<"a", "">>, <<"a", "b", "a">>, <<"b", "$x">>}
=============================================================================
