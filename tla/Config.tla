------------------------------- MODULE Config -------------------------------
(***************************************************************************)
(* CConfig: how nginx.conf is read (app/ngx_c_conf.cxx,                    *)
(* app/ngx_string.cxx).  A line is the sequence of its characters, but a   *)
(* word without any of the characters that Load() looks at is one element. *)
(* Lines are taken to be shorter than the 500 characters fgets() gets.     *)
(***************************************************************************)
EXTENDS Integers, Sequences, SequencesExt

LF == "\n"  CR == "\r"  TAB == "\t"

(* What is left of s without the characters of cs at its end.              *)
TrimEnd(s, cs) == SubSeq(s, 1, Max({0} \cup {i \in DOMAIN s : s[i] \notin cs}))

Rtrim(s) == TrimEnd(s, {" "})
Ltrim(s) == SubSeq(s, Min({Len(s) + 1} \cup {i \in DOMAIN s : s[i] # " "}), Len(s))

(* Comments, groups and empty lines, and lines without an equals sign.     *)
IsItem(line) ==
  LET text == TrimEnd(line, {LF, CR, " "})
  IN /\ line # <<>> /\ line[1] \notin {";", " ", "#", TAB, LF}
     /\ text # <<>> /\ text[1] # "[" /\ Contains(text, "=")

(* Mutant: the blanks before and after the equals sign are kept.           *)
ItemUntrimmed(line) ==
  LET text == TrimEnd(line, {LF, CR, " "})
      eq == SelectInSeq(text, LAMBDA ch : ch = "=")
  IN [ItemName |-> SubSeq(text, 1, eq - 1), ItemContent |-> SubSeq(text, eq + 1, Len(text))]

Item(line) ==
  LET text == TrimEnd(line, {LF, CR, " "})
      eq == SelectInSeq(text, LAMBDA ch : ch = "=")
  IN [ItemName |-> Ltrim(Rtrim(SubSeq(text, 1, eq - 1))),
      ItemContent |-> Ltrim(Rtrim(SubSeq(text, eq + 1, Len(text))))]

Load(file) ==
  LET list[n \in 0..Len(file)] ==
        IF n = 0 THEN <<>>
        ELSE IF IsItem(file[n]) THEN Append(list[n - 1], Item(file[n]))
        ELSE list[n - 1]
  IN list[Len(file)]

(* strcasecmp() and atoi(), for the words of this project's files.         *)
SameName(s, t) ==
  \/ s = t
  \/ {s, t} \subseteq {<<"Daemon">>, <<"daemon">>}
atoi(s) == IF s # <<>> /\ s[1] \in {"1", "2", "3"}
           THEN CHOOSE n \in 1..3 : s[1] = <<"1", "2", "3">>[n]
           ELSE 0

(* The first item of that name decides.                                    *)
GetIntDefault(items, name, def) ==
  LET i == SelectInSeq(items, LAMBDA item : SameName(item.ItemName, <<name>>))
  IN IF i = 0 THEN def ELSE atoi(items[i].ItemContent)

=============================================================================
