------------------------------- MODULE Config -------------------------------
(***************************************************************************)
(* The configuration parser: ms_config_parse() reads the file line by line *)
(* into the table of items, and main() takes the values it starts with.    *)
(* A line is a sequence of symbols: its characters, where the key of an    *)
(* item and the name of a log level are one symbol each.                   *)
(***************************************************************************)
EXTENDS Integers, FiniteSets, SequencesExt

CONSTANTS
    Inputs,     \* tables with files: [items : key -> kind, file : lines]
    Writable,   \* paths open(O_WRONLY | O_APPEND | O_CREAT) succeeds for
    Readable,   \* paths opendir() succeeds for
    BuffSize    \* sizeof(buff)

White == {" ", "\t", "\n", "\r", "\f"}
Delims == White \cup {","}
Kinds == {"ipv4", "port", "num", "level", "dir", "file", "str"}

ASSUME InputAssumption ==
    \A i \in Inputs :
        /\ IsFiniteSet(DOMAIN i.items) /\ i.items \in [DOMAIN i.items -> Kinds]
        /\ DOMAIN i.items \subseteq STRING \ (Delims \cup {"#"})
        /\ i.file \in Seq(Seq(STRING))
ASSUME BuffAssumption == BuffSize \in Nat

VARIABLES
    items,      \* the table: the kind of value each key has
    file,       \* the lines of the file, each with its newline
    row,        \* how many of them have been read
    vals,       \* the values in the table; empty if unset
    opened,     \* items whose file check_file() has opened: it never closes it
    error,      \* how many errors have been met
    cycle,      \* what main() has taken from the table
    pc          \* "open", "parse", "unset", and then "failed" or "ok", "run"

vars == <<items, file, row, vals, opened, error, cycle, pc>>

Digits == <<"0", "1", "2", "3", "4", "5", "6", "7", "8", "9">>
Levels == <<"status", "emerg", "alert", "crit", "error",
            "warn", "notice", "infor", "debug", "stdout">>

Init ==
    /\ \E i \in Inputs : items = i.items /\ file = i.file
    /\ row = 0 /\ vals = [k \in DOMAIN items |-> <<>>] /\ opened = {} /\ error = 0
    /\ cycle = <<>> /\ pc = "open"
-----------------------------------------------------------------------------
\* The part of s before the first of its places stops, and s without a prefix.
Until(s, stops) ==
    SubSeq(s, 1, IF stops = {} THEN Len(s) ELSE (CHOOSE i \in stops : \A j \in stops : i <= j) - 1)
After(s, prefix) == SubSeq(s, Len(prefix) + 1, Len(s))

\* The strcspn(s, S) symbols s starts with, and s + strspn(s, S).
Word(s, S) == Until(s, {i \in DOMAIN s : s[i] \in S})
Skip(s, S) == After(s, Until(s, {i \in DOMAIN s : s[i] \notin S}))

\* Of a line: what counts, without a comment; the key; the value.
Content(line) == Word(Skip(line, White), {"#"})
Key(line) == Word(Content(line), White)
Val(line) == Word(Skip(After(Content(line), Key(line)), Delims), Delims)

AllDigits(text) == ToSet(text) \subseteq ToSet(Digits)

\* atoi()
DigitOf(c) == CHOOSE d \in 0 .. 9 : Digits[d + 1] = c
Number(text) ==
    LET n[i \in 0 .. Len(text)] == IF i = 0 THEN 0 ELSE 10 * n[i - 1] + DigitOf(text[i])
    IN  n[Len(text)]
-----------------------------------------------------------------------------
\* One pass of the loop of check_ipv4() at s; what the next one looks at.
Octet(s) ==
    LET part == Word(s, {"."})
    IN  /\ Len(part) < Len(s) /\ Len(part) \in 1 .. 3
        /\ AllDigits(part) /\ Number(part) <= 255
NextPart(s) == After(s, Word(s, {"."}) \o <<".">>)

Ipv4(text) ==
    LET one == Append(text, ".")
        two == NextPart(one)
        three == NextPart(two)
    IN  Len(text) \in 7 .. 15 /\ \A s \in {one, two, three, NextPart(three)} : Octet(s)

Port(text) == Len(text) \in 1 .. 5 /\ AllDigits(text) /\ Number(text) \in 1 .. 65535

\* atoll(text) > 2147483647, for ten digits without numbers of more than 31 bits
TooBig(text) ==
    LET front == Number(Front(text))
    IN  front > 214748364 \/ (front = 214748364 /\ Number(<<Last(text)>>) > 7)

Num(text) ==
    Len(text) \in 1 .. 10 /\ AllDigits(text) /\ ~(Len(text) = 10 /\ TooBig(text))

Level(text) == \E i \in DOMAIN Levels : text = <<Levels[i]>>

Absolute(text) == Head(text) = "/"
Dir(text) == Absolute(text) /\ Last(text) = "/" /\ text \in Readable
FileName(text) == Len(text) >= 2 /\ Absolute(text)

\* The value passes the check_ function of its kind; it is copied to t->val.
Passes(kind, text) ==
    CASE kind = "ipv4" -> Ipv4(text)
      [] kind = "port" -> Port(text)
      [] kind = "num" -> Num(text)
      [] kind = "level" -> Level(text)
      [] kind = "dir" -> Dir(text)
      [] kind = "file" -> FileName(text) /\ text \in Writable
      [] kind = "str" -> TRUE

\* check_file() has copied the path before open() fails.
Copied(kind, text) == Passes(kind, text) \/ (kind = "file" /\ FileName(text))

Copy(kind, text) ==
    IF kind = "level"
    THEN LET i == CHOOSE i \in DOMAIN Levels : text = <<Levels[i]>> IN <<Digits[i]>>
    ELSE text

\* Seeded fault: the test for a duplicate is left out.
UnsetAlways(k) == TRUE

\* strlen(t->val) == 0
Unset(k) == vals[k] = <<>>
-----------------------------------------------------------------------------
Open ==
    /\ pc = "open" /\ pc' \in {"parse", "failed"}
    /\ UNCHANGED <<items, file, row, vals, opened, error, cycle>>

Line == file[row + 1]

\* fgets() has a line to read.
Gets ==
    /\ pc = "parse" /\ row < Len(file)
    /\ row' = row + 1
    /\ UNCHANGED <<items, file, cycle>>

Reads == Gets /\ Len(Line) < BuffSize - 2

\* A line that fills the buffer ends the loop.
LongLine ==
    /\ Gets /\ Len(Line) >= BuffSize - 2
    /\ error' = error + 1 /\ pc' = "unset"
    /\ UNCHANGED <<vals, opened>>

EmptyLine ==
    /\ Reads /\ Content(Line) = <<>>
    /\ UNCHANGED <<vals, opened, error, pc>>

\* A key without a value, or one that is not in the table.
BadLine ==
    /\ Reads /\ Content(Line) # <<>>
    /\ Val(Line) = <<>> \/ \A k \in DOMAIN items : Key(Line) # <<k>>
    /\ error' = error + 1
    /\ UNCHANGED <<vals, opened, pc>>

Item(k) ==
    LET text == Val(Line)
        passes == Unset(k) /\ Passes(items[k], text)
    IN  /\ Reads /\ Key(Line) = <<k>> /\ text # <<>>
        /\ vals' = IF Unset(k) /\ Copied(items[k], text)
                   THEN [vals EXCEPT ![k] = Copy(items[k], text)] ELSE vals
        /\ opened' = IF passes /\ items[k] = "file" THEN opened \cup {k} ELSE opened
        /\ error' = IF passes THEN error ELSE error + 1
        /\ UNCHANGED pc

\* The items the file does not contain.
Missing == {k \in DOMAIN items : vals[k] = <<>>}

\* After the last line, or after a line that was too long.
Finish ==
    /\ pc = "unset" \/ (pc = "parse" /\ row = Len(file))
    /\ error' = IF error = 0 THEN Cardinality(Missing) ELSE error
    /\ pc' = IF error' = 0 THEN "ok" ELSE "failed"
    /\ UNCHANGED <<items, file, row, vals, opened, cycle>>

\* main() takes the values: atoi() of them but for addresses, paths and strings.
TakeValues ==
    /\ pc = "ok" /\ pc' = "run"
    /\ cycle' = [k \in DOMAIN items |->
                    IF items[k] \in {"port", "num", "level"} THEN Number(vals[k]) ELSE vals[k]]
    /\ UNCHANGED <<items, file, row, vals, opened, error>>

Next ==
    \/ Open \/ LongLine \/ EmptyLine \/ BadLine \/ Finish \/ TakeValues
    \/ \E k \in DOMAIN items : Item(k)

Spec == Init /\ [][Next]_vars
=============================================================================
