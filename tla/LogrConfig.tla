------------------------------ MODULE LogrConfig ------------------------------
(***************************************************************************)
(* parseConfigFromString: what a configuration file of the logger says.    *)
(* A step is a line.  A line is what is left of it when the spaces around  *)
(* its name and value are trimmed and the name of an attribute is in lower *)
(* case: a section [key], an attribute with the text of its value, or      *)
(* something that is passed over (nothing, a comment, a value without a    *)
(* name).                                                                  *)
(***************************************************************************)
EXTENDS Integers, Sequences

CONSTANTS
  Sections,      \* what stands between [ and ], as it is written
  MainSpellings, \* the spellings of "main" among them
  Texts,         \* the texts of values
  MaxLines       \* bound: the lines of a file

Main == "Main"

\* What the constants have to satisfy.
ConfigAssumption ==
  /\ MainSpellings \subseteq Sections
  /\ Main \in Sections => Main \in MainSpellings
  /\ MaxLines \in Nat

\* display, outfile, monthdir, fileline and enable are read alike, and so
\* are path and name: "enable" and "path" stand for them.
Attributes == {"path", "level", "limitsize", "enable", "unknown"}

Lines ==
  [kind : {"section"}, name : Sections]
    \cup [kind : {"attribute"}, name : Attributes, text : Texts]
    \cup {[kind |-> "nothing"]}

VARIABLES
  content,  \* the lines of the file
  pos,      \* the line that is next
  key,      \* the section that line is in, "" before the first
  outInfo   \* the LogrgerInfo of each section so far

vars == <<content, pos, key, outInfo>>

Init ==
  /\ content \in UNION {[1 .. n -> Lines] : n \in 0 .. MaxLines}
  /\ pos = 1 /\ key = "" /\ outInfo = <<>>

-----------------------------------------------------------------------------
\* LogrgerInfo(), with _enable set.
Default == [path |-> "./logr/", level |-> "debug", limitsize |-> 100, enable |-> TRUE]

LevelOf ==
  [trace |-> "trace", all |-> "trace", debug |-> "debug", info |-> "info", warn |-> "warn",
   warning |-> "warn", error |-> "error", alarm |-> "alarm", fatal |-> "fatal"]

atoi(text) == IF text = "7" THEN 7 ELSE 0

\* What a value means: a level that is none changes nothing, and a switch
\* is on unless it says false or 0, also when it says nothing.
Means(name, text, old) ==
  CASE name = "path" -> text
    [] name = "level" -> IF text \in DOMAIN LevelOf THEN LevelOf[text] ELSE old
    [] name = "limitsize" -> atoi(text)
    [] name = "enable" -> text \notin {"false", "0"}

\* The main section may be spelled in any case, the others are as written.
SectionKey(name) == IF name \in MainSpellings THEN Main ELSE name

Add(sections, k) == [s \in DOMAIN sections \cup {k} |-> IF s = k THEN Default ELSE sections[s]]

Line == content[pos]
Reading == pos <= Len(content) /\ pos' = pos + 1 /\ UNCHANGED content

\* Faulty variant: a section that comes again starts afresh.
parseSectionAfresh ==
  /\ Reading /\ Line.kind = "section"
  /\ key' = SectionKey(Line.name)
  /\ outInfo' = Add(outInfo, key')

parseSection ==
  /\ Reading /\ Line.kind = "section"
  /\ key' = SectionKey(Line.name)
  /\ outInfo' = IF key' \in DOMAIN outInfo THEN outInfo ELSE Add(outInfo, key')

\* An attribute before the first section belongs to nobody.
parseAttribute ==
  /\ Reading /\ Line.kind = "attribute"
  /\ outInfo' = IF key \in DOMAIN outInfo /\ Line.name # "unknown"
                  THEN [outInfo EXCEPT ![key][Line.name] = Means(Line.name, Line.text, @)]
                  ELSE outInfo
  /\ UNCHANGED key

parseNothing ==
  /\ Reading /\ Line.kind = "nothing"
  /\ UNCHANGED <<key, outInfo>>

Parsed == pos > Len(content)
Over == Parsed /\ UNCHANGED vars

Next == parseSection \/ parseAttribute \/ parseNothing \/ Over

Spec == Init /\ [][Next]_vars

-----------------------------------------------------------------------------
(***************************************************************************)
(* What a file says, by whole lines: the sections there are, and for each  *)
(* attribute of one the last line that gives it a value, under any of the  *)
(* places where the section is opened.                                     *)
(***************************************************************************)
Opens(k, i) ==
  /\ content[i].kind = "section"
  /\ IF k = Main THEN content[i].name \in MainSpellings
                 ELSE content[i].name = k /\ k \notin MainSpellings

Under(k, i) == \E j \in 1 .. i - 1 : Opens(k, j) /\ \A m \in j + 1 .. i : content[m].kind # "section"

Gives(k, a, i) ==
  /\ Under(k, i)
  /\ content[i].kind = "attribute" /\ content[i].name = a
  /\ a = "level" => content[i].text \in DOMAIN LevelOf

Value(a, text) ==
  CASE a = "path" -> text
    [] a = "level" -> LevelOf[text]
    [] a = "limitsize" -> atoi(text)
    [] a = "enable" -> text \notin {"false", "0"}

Says(k, a, n) ==
  LET givers == {i \in 1 .. n : Gives(k, a, i)}
  IN  IF givers = {} THEN Default[a]
      ELSE Value(a, content[CHOOSE i \in givers : \A j \in givers : j <= i].text)

\* At every line the settings are those the lines before it give.
SettingsAsSaid ==
  /\ DOMAIN outInfo = {k \in Sections \cup {Main} : \E i \in 1 .. pos - 1 : Opens(k, i)}
  /\ \A k \in DOMAIN outInfo, a \in DOMAIN Default : outInfo[k][a] = Says(k, a, pos - 1)

=============================================================================
