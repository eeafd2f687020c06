---------------------------- MODULE MCTableLayout ----------------------------
(* Events and metrics of PMUs whose names end one another, or differ in a    *)
(* comma alone; strings that are the end of another one, a string that ends  *)
(* like the name of a PMU, escapes and backslashes.                          *)
EXTENDS TableLayout

MCChars == <<",", "0", "1", Backslash, "_", "a", "b", "n">>

MCEventAttributes == <<"name", "desc", "perpkg", "long_desc">>
MCMetricAttributes == <<"metric_name", "metric_expr", "desc", "event_grouping">>

AllAttributes == ToSet(MCEventAttributes) \cup ToSet(MCMetricAttributes) \cup {"pmu"}
Entry(fields) == [a \in AllAttributes |-> IF a \in DOMAIN fields THEN fields[a] ELSE <<>>]

\* The second string ends like the name of the PMU "ba", the third is the end
\* of the second.
MCEntries ==
    {Entry([pmu |-> <<"b", "a">>, name |-> <<"a">>, long_desc |-> <<"a">>]),
     Entry([pmu |-> <<"a">>, name |-> <<"b", "a">>, long_desc |-> <<"b", "a">>]),
     Entry([pmu |-> <<"a">>, name |-> <<"a">>, long_desc |-> <<"b", "a">>]),
     Entry([pmu |-> <<"a", ",", "b">>, name |-> <<"a">>, perpkg |-> <<"1">>, desc |-> <<"a", Backslash, "n">>]),
     Entry([pmu |-> <<"a", "_", "b">>, name |-> <<"b">>, metric_name |-> <<"b">>,
            desc |-> <<"n">>, metric_expr |-> <<"a", Backslash, "a">>]),
     Entry([pmu |-> <<"a">>, metric_name |-> <<"a">>, metric_expr |-> <<"b">>]),
     Entry([pmu |-> <<"a">>, metric_name |-> <<"b">>, desc |-> <<"b">>, event_grouping |-> <<"1">>]),
     Entry([pmu |-> <<"b", "a">>, metric_name |-> <<"b", "a">>, metric_expr |-> <<"b">>])}
=============================================================================
