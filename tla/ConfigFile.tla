----------------------------- MODULE ConfigFile -----------------------------
(***************************************************************************)
(* What a configuration file means, defined without the parser.            *)
(***************************************************************************)
EXTENDS Config

\* The symbols of a line before its comment.
Plain(line) == {i \in DOMAIN line : \A j \in 1 .. i : line[j] # "#"}

Idle(line) == \A i \in Plain(line) : line[i] \in White

\* The line says that item k is text: white space, the key, white space and
\* commas, the text up to a delimiter, anything.
Says(line, k, text) ==
    \E i, j \in Plain(line) :
        LET end == j + Len(text) - 1
        IN  /\ i < j /\ line[i] = k
            /\ \A l \in 1 .. i - 1 : line[l] \in White
            /\ line[i + 1] \in White /\ \A l \in i + 1 .. j - 1 : line[l] \in Delims
            /\ Len(text) > 0 /\ end \in Plain(line) /\ SubSeq(line, j, end) = text
            /\ \A l \in j .. end : line[l] \notin Delims
            /\ end + 1 \in Plain(line) => line[end + 1] \in Delims

\* The texts a line can give to an item.
Parts(line) == {SubSeq(line, e[1], e[2]) : e \in (DOMAIN line) \X (DOMAIN line)}

\* Two texts of digits of one length, compared from the left.
NotAbove(text, limit) ==
    \/ text = limit
    \/ \E i \in DOMAIN limit : /\ DigitOf(text[i]) < DigitOf(limit[i])
                               /\ \A j \in 1 .. i - 1 : text[j] = limit[j]

\* A number as it is written, of at most as many digits as the limit.
UpTo(text, limit) ==
    /\ Len(text) \in 1 .. Len(limit) /\ \A i \in DOMAIN text : \E d \in DOMAIN Digits : text[i] = Digits[d]
    /\ Len(text) = Len(limit) => NotAbove(text, limit)

\* Four parts up to 255 with a dot between them, the fourth of which ends before
\* place e: a dot or the end of the text.
FourParts(text, e) ==
    LET dots == {i \in DOMAIN text : text[i] = "."} \cup {0, Len(text) + 1}
        Gap(a, b) == a < b /\ (a + 1 .. b - 1) \cap dots = {}
    IN  /\ Len(text) \in 7 .. 15 /\ e \in dots
        /\ \E a, b, c \in dots :
              /\ Gap(0, a) /\ Gap(a, b) /\ Gap(b, c) /\ Gap(c, e)
              /\ \A g \in {<<0, a>>, <<a, b>>, <<b, c>>, <<c, e>>} :
                    UpTo(SubSeq(text, g[1] + 1, g[2] - 1), <<"2", "5", "5">>)

\* An address in dotted form, and one that goes on after its fourth part, with a
\* dot and anything.
Address(text) == FourParts(text, Len(text) + 1)
LongAddress(text) == \E e \in DOMAIN text : FourParts(text, e)

Valid(kind, text) ==
    \/ kind = "ipv4" /\ Address(text)
    \/ kind = "port" /\ UpTo(text, <<"6", "5", "5", "3", "5">>) /\ \E i \in DOMAIN text : text[i] # "0"
    \/ kind = "num" /\ UpTo(text, <<"2", "1", "4", "7", "4", "8", "3", "6", "4", "7">>)
    \/ kind = "level" /\ Len(text) = 1 /\ \E i \in DOMAIN Levels : Levels[i] = text[1]
    \/ kind = "dir" /\ text \in Readable /\ text[1] = "/" /\ text[Len(text)] = "/"
    \/ kind = "file" /\ text \in Writable /\ text[1] = "/" /\ Len(text) > 1
    \/ kind = "str"

\* Every line is empty or gives an item a value, and each item is given once.
Complete ==
    /\ \A n \in DOMAIN file :
          /\ Len(file[n]) < BuffSize - 2
          /\ \/ Idle(file[n])
             \/ \E k \in DOMAIN items, text \in Parts(file[n]) : Says(file[n], k, text)
    /\ \A k \in DOMAIN items :
          Cardinality({n \in DOMAIN file : \E text \in Parts(file[n]) : Says(file[n], k, text)}) = 1

\* The texts the file gives to item k.
Given(k) == UNION {{text \in Parts(file[n]) : Says(file[n], k, text)} : n \in DOMAIN file}

WellFormed == Complete /\ \A k \in DOMAIN items : \A text \in Given(k) : Valid(items[k], text)

\* Well-formed, but for addresses that go on after their fourth part.
NearlyWellFormed ==
    /\ Complete
    /\ \A k \in DOMAIN items : \A text \in Given(k) :
          Valid(items[k], text) \/ (items[k] = "ipv4" /\ LongAddress(text))

\* What the line of an item says of it, as main() uses it.
Means(k, value) ==
    \E n \in DOMAIN file : \E text \in Parts(file[n]) :
        /\ Says(file[n], k, text)
        /\ CASE items[k] = "level" -> text = <<Levels[value + 1]>>
             [] items[k] \in {"port", "num"} -> value = Number(text)
             [] OTHER -> value = text

\* The verdict on a file, whatever its lines and their order: main() goes on
\* if each item is given once, with a valid value, and no line is wrong, each
\* value being what that line says; and on no other file, but for addresses that
\* go on after their fourth part (StartsOnWellFormed).  It takes the duplicate
\* test of each check_ function, the test for unset items after the loop, and
\* the error count together (ms_config.c 42-144).
Verdict ==
    /\ pc = "run" => NearlyWellFormed /\ \A k \in DOMAIN items : Means(k, cycle[k])
    /\ pc = "failed" /\ row > 0 => ~NearlyWellFormed

\* ms_config.c:228, "check that the format ip[0].ip[1].ip[2].ip[3] is correct", and
\* test.conf:2, "a dotted IPv4 address": main() goes on with well-formed files only.
StartsOnWellFormed == pc = "run" => WellFormed
=============================================================================
