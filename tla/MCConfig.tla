------------------------------ MODULE MCConfig ------------------------------
(***************************************************************************)
(* Config with small tables and files of a few lines.                      *)
(***************************************************************************)
EXTENDS ConfigFile

Chars(s) == [i \in 1 .. Len(s) |-> SubSeq(s, i, i)]

\* What is written as the value of an item of each kind, valid or not.
Texts ==
    [ipv4 |-> {Chars(s) : s \in {"1.2.3.4", "255.255.255.255", "1.2.3.256", "1.22.33", "1..2.3.4",
                                 "1234.1.1.1", "1.2.3.x", "1.2.3.4.5", "0.0.0", "111.111.111.1111"}},
     port |-> {Chars(s) : s \in {"0", "1", "65535", "65536", "00080", "000080", "8x"}},
     num |-> {Chars(s) : s \in {"0", "2147483647", "2147483648", "9999999999", "0000000007",
                                "00000000007", "7-"}},
     level |-> {<<"status">>, <<"stdout">>, <<"9">>, <<"status", "9">>},
     dir |-> {Chars(s) : s \in {"/", "/d/", "/d", "/e/", "d/"}},
     file |-> {Chars(s) : s \in {"/", "/f", "/e/", "f", "/no"}},
     str |-> {Chars(s) : s \in {"a", "a/b"}}]

MCWritable == {Chars("/f"), Chars("/f2")}
MCReadable == {Chars("/"), Chars("/d/")}

\* One value for each kind, to be laid out on the line in several ways.
Sample == [ipv4 |-> Chars("1.2.3.4"), port |-> Chars("80"), num |-> Chars("10"),
           level |-> <<"error">>, dir |-> Chars("/"), file |-> Chars("/f2"), str |-> Chars("a")]

Layouts(k, text) ==
    {<<k, " ">> \o text \o <<"\r", "\n">>,
     <<"\f", k, "\f">> \o text \o <<"\f", "7", "\n">>,
     <<"\t", k, " ", ",">> \o text \o <<",", "#", "\n">>,
     <<k, "\t">> \o text \o <<" ", "7", "\n">>,
     <<k, ",">> \o text \o <<"\n">>,
     <<" ", "#", k, " ">> \o text \o <<"\n">>,
     <<k, " ">> \o text \o <<"#", "\n">>,
     <<k, " ", "#">> \o text \o <<"\n">>,
     <<k, " ", " ", " ">> \o text \o <<" ", " ", " ", " ", " ", " ", " ", "\n">>}

Lines(table) ==
    {<<"\n">>, <<"#", "\n">>, <<"none", " ", "7", "\n">>}
    \cup UNION {{<<k, " ">> \o text \o <<"\n">> : text \in Texts[table[k]]} : k \in DOMAIN table}
    \cup UNION {Layouts(k, Sample[table[k]]) \cup {<<k, "\n">>} : k \in DOMAIN table}

\* One item of each kind, and pairs of them.
Tables ==
    {[item |-> kind] : kind \in DOMAIN Texts} \cup
    {[server_ip |-> "ipv4", server_port |-> "port"], [error_log |-> "file", log_level |-> "level"],
     [workers |-> "num", pid_log |-> "file"], [root |-> "dir", name |-> "str"]}

MCInputs ==
    UNION {{[items |-> t, file |-> f] : f \in UNION {[1 .. n -> Lines(t)] : n \in 0 .. 2}} : t \in Tables}
=============================================================================
