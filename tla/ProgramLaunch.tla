----------------------------- MODULE ProgramLaunch -----------------------------
(***************************************************************************)
(* How a program is found and its arguments handed over on Windows         *)
(* (src/private/process: command_line, startable_extension, and the        *)
(* helpers of child_process).  A character is one of four kinds; a folder  *)
(* of PATH is the set of endings the searched name has files with.         *)
(***************************************************************************)
EXTENDS Naturals, Sequences, SequencesExt, Folds

CONSTANTS MaxWord    \* characters of an argument

VARIABLES words,     \* SProcessSpec::arguments
          search     \* PATH, PATHEXT and the name searched for

launchVars == <<words, search>>

Chars == {"letter", "space", "quote", "backslash"}

\* IsStartableExtension.
StartableExtensions == {".exe", ".com"}
Endings == {"", ".exe", ".com"}

Searches == [path : SeqOf([isAbsolute : BOOLEAN, files : SUBSET Endings], 2),
             pathExt : {<<>>, <<".exe", ".com">>, <<".com", ".bat", ".exe">>, <<".bat">>},
             isComplete : BOOLEAN]   \* the name has a startable extension itself

NoSearch == [path |-> <<>>, pathExt |-> <<>>, isComplete |-> FALSE]

LaunchInit ==
    \/ words \in SeqOf(SeqOf(Chars, MaxWord), 2) /\ search = NoSearch
    \/ words = <<>> /\ search \in Searches
-----------------------------------------------------------------------------
(* BuildCommandLine *)

Backslashes(n) == [i \in 1 .. n |-> "backslash"]

QuoteCharacter(acc, char) ==
    CASE char = "backslash" -> [acc EXCEPT !.numBackslashes = @ + 1]
      [] char = "quote" -> [numBackslashes |-> 0,
                            line |-> acc.line \o Backslashes(acc.numBackslashes * 2 + 1) \o <<"quote">>]
      [] OTHER -> [numBackslashes |-> 0, line |-> acc.line \o Backslashes(acc.numBackslashes) \o <<char>>]

\* Backslashes before the closing quote left as they are.
AppendArgumentUnescaped(argument) ==
    IF argument # <<>> /\ {"space", "quote"} \cap ToSet(argument) = {} THEN argument
    ELSE LET quoted == FoldLeft(QuoteCharacter, [numBackslashes |-> 0, line |-> <<"quote">>], argument)
         IN  quoted.line \o Backslashes(quoted.numBackslashes) \o <<"quote">>

AppendArgument(argument) ==
    IF argument # <<>> /\ {"space", "quote"} \cap ToSet(argument) = {} THEN argument
    ELSE LET quoted == FoldLeft(QuoteCharacter, [numBackslashes |-> 0, line |-> <<"quote">>], argument)
         IN  quoted.line \o Backslashes(quoted.numBackslashes * 2) \o <<"quote">>

\* What follows the program's name, each argument after a space.
BuildCommandLine(arguments) ==
    FoldLeft(LAMBDA line, argument : line \o <<"space">> \o AppendArgument(argument), <<>>, arguments)

(* The C runtime's reading of it: 2n backslashes and a quote are n backslashes and the quote's      *)
(* meaning, one more a quote as such; two quotes within quotes are one; a space ends a word outside *)
(* quotes.                                                                                           *)
EndWord(st) == IF st.isWord THEN [st EXCEPT !.words = Append(@, st.word), !.word = <<>>, !.isWord = FALSE] ELSE st
Put(st, chars) == [st EXCEPT !.word = @ \o chars, !.isWord = TRUE, !.num = 0]

ReadQuote(st) ==
    LET half == Put(st, Backslashes(st.num \div 2))
    IN  CASE st.num % 2 = 1 -> Put(half, <<"quote">>)
          [] st.num % 2 = 0 /\ st.mode = "out" -> [half EXCEPT !.mode = "in"]
          [] st.num % 2 = 0 /\ st.mode = "in" -> [half EXCEPT !.mode = "ending"]
          [] OTHER -> [Put(half, <<"quote">>) EXCEPT !.mode = "in"]

ReadCharacter(state, char) ==
    LET st == IF state.mode = "ending" /\ char # "quote" THEN [state EXCEPT !.mode = "out"] ELSE state
        flushed == Put(st, Backslashes(st.num))
    IN  CASE char = "backslash" -> [st EXCEPT !.num = @ + 1]
          [] char = "quote" -> ReadQuote(st)
          [] char = "space" /\ st.mode = "out" -> EndWord(IF st.num > 0 THEN flushed ELSE st)
          [] OTHER -> Put(flushed, <<char>>)

ReadCommandLine(line) ==
    LET last == FoldLeft(ReadCharacter,
                   [words |-> <<>>, word |-> <<>>, isWord |-> FALSE, num |-> 0, mode |-> "out"], line)
    IN  EndWord(IF last.num > 0 THEN Put(last, Backslashes(last.num)) ELSE last).words
-----------------------------------------------------------------------------
(* FindInPath *)

GetCompletions(pathExt) ==
    SelectSeq(IF pathExt = <<>> THEN <<".com", ".exe">> ELSE pathExt, LAMBDA e : e \in StartableExtensions)

Completions(s) == IF s.isComplete THEN <<"">> ELSE GetCompletions(s.pathExt)

\* One folder of PATH: the first completion it has a file for, unless one was found before.
SearchFolder(s, acc, i) ==
    LET folder == s.path[i]
        here == SelectSeq(Completions(s), LAMBDA e : e \in folder.files)
    IN  IF acc.found # <<>> \/ ~folder.isAbsolute THEN acc
        ELSE [found |-> IF here = <<>> THEN <<>> ELSE <<i, Head(here)>>,
              isUnstartable |-> acc.isUnstartable \/ (~s.isComplete /\ "" \in folder.files)]

FindInPath(s) ==
    LET acc == FoldLeft(LAMBDA a, i : SearchFolder(s, a, i), [found |-> <<>>, isUnstartable |-> FALSE],
                        [i \in DOMAIN s.path |-> i])
    IN  CASE acc.found # <<>> -> acc.found
          [] acc.found = <<>> /\ acc.isUnstartable -> <<"executable_format_error">>
          [] OTHER -> <<"no_such_file">>
-----------------------------------------------------------------------------
(* Properties *)

\* The child's C runtime reads back exactly the arguments given, whatever quotes, spaces and
\* backslashes they hold; and one that needs no quotes is handed over as it is.
ArgumentsArrive ==
    /\ ReadCommandLine(BuildCommandLine(words)) = words
    /\ \A i \in DOMAIN words : words[i] # <<>> /\ ToSet(words[i]) \subseteq {"letter", "backslash"}
                                  => AppendArgument(words[i]) = words[i]

\* Of all absolute folders of PATH the first that has the program, and of its endings PATHEXT's
\* first, never the current folder; a name found with another ending only is refused, not missing.
FoundAsByShell ==
    LET candidates == {c \in (DOMAIN search.path) \X (DOMAIN Completions(search)) :
                          /\ search.path[c[1]].isAbsolute
                          /\ Completions(search)[c[2]] \in search.path[c[1]].files}
        before(a, b) == a[1] < b[1] \/ (a[1] = b[1] /\ a[2] <= b[2])
        found == FindInPath(search)
    IN  IF candidates # {}
        THEN \E a \in candidates : /\ found = <<a[1], Completions(search)[a[2]]>>
                                   /\ \A b \in candidates : before(a, b)
        ELSE found = <<IF ~search.isComplete /\ \E i \in DOMAIN search.path :
                            search.path[i].isAbsolute /\ "" \in search.path[i].files
                       THEN "executable_format_error" ELSE "no_such_file">>
=============================================================================
