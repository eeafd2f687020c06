----------------------------- MODULE MCEventTables ----------------------------
EXTENDS EventTables

\* "cache.json" comes before "sys" and "uncore.json" behind it; "arm" is a
\* vendor directory, and "README" is not a json file.
MCArchs == <<"arm64", "test">>
MCNames == <<"README", "arm", "arm64", "cache.json", "cortex", "soc", "sys", "test", "test_soc", "uncore.json">>
MCWords == [n \in Range(MCNames) |-> IF n = "test_soc" THEN <<"test", "soc">> ELSE <<n>>]

MCDirs ==
    {<<"arm64", "cortex">>, <<"arm64", "cortex", "sys">>,
     <<"arm64", "arm">>, <<"arm64", "arm", "soc">>,
     <<"test", "test_soc">>}

MCFiles ==
    {<<"arm64", "cache.json">>, <<"arm64", "cortex", "README">>,
     <<"arm64", "cortex", "cache.json">>, <<"arm64", "cortex", "uncore.json">>,
     <<"arm64", "cortex", "sys", "cache.json">>, <<"arm64", "cortex", "sys", "uncore.json">>,
     <<"arm64", "arm", "uncore.json">>, <<"arm64", "arm", "soc", "cache.json">>,
     <<"test", "test_soc", "cache.json">>}

\* Files in the roots, which define a standard event, and files that refer to it
MCStdFiles ==
    {<<"arm64", "cache.json">>, <<"arm64", "uncore.json">>, <<"test", "cache.json">>,
     <<"arm64", "cortex", "cache.json">>, <<"arm64", "arm", "soc", "cache.json">>,
     <<"test", "test_soc", "cache.json">>}

\* Events, metrics or both; and the same event in two files of a directory.
Entry(p, n, m) == [pmu |-> p, name |-> n, metric |-> m, std |-> None]
MCEntries(path, kind) ==
    CASE kind = "events"  -> {Entry("cpu", Last(path), None)}
      [] kind = "metrics" -> {Entry("cpu", None, Last(path))}
      [] kind = "both"    -> {Entry("cpu", Last(path), None), Entry("cpu", "all", "all")}
      [] kind = "std"     -> IF Len(path) = 2
                             THEN {Entry("cpu", "all", "sum")}
                             ELSE {[Entry(Last(path), None, None) EXCEPT !.std = "all"],
                                   [Entry("cpu", Last(path), None) EXCEPT !.std = "sum"]}

ItemsOf(dirs, files, kind) ==
    {[path |-> p, dir |-> TRUE, json |-> FALSE, entries |-> {}] : p \in dirs}
    \cup {[path |-> p, dir |-> FALSE, json |-> Last(p) # "README",
           entries |-> MCEntries(p, kind)] : p \in files}

\* Every tree whose directories are there when something is in them
Present(paths, dirs) == {p \in paths : Front(p) \in dirs \cup {<<a>> : a \in Range(MCArchs)}}
MCTrees ==
    {ItemsOf(MCDirs, files, "std") : files \in SUBSET MCStdFiles} \cup
    UNION {{ItemsOf(dirs, files, kind) : files \in SUBSET Present(MCFiles, dirs)} :
              dirs \in {d \in SUBSET MCDirs : Present(d, d) = d},
              kind \in {"events", "metrics", "both"}}

MCSelections ==
    {[level |-> 0, dirs |-> MCDirs],
     [level |-> 0, dirs |-> {<<"arm64", "cortex">>, <<"test", "test_soc">>}],
     [level |-> 1, dirs |-> {<<"arm64", "arm", "soc">>}]}

MCRows == {<<"arm64", "cortex">>, <<"arm64", "arm", "soc">>}

\* The row of the test architecture
MCFixedRows ==
    {[dir |-> <<"test", "test_soc">>, events |-> <<"test", "test_soc">>, metrics |-> <<"test", "test_soc">>]}
=============================================================================
