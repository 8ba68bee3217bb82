------------------------------ MODULE Command -------------------------------
(***************************************************************************)
(* The command line of dach: the option parser that gengetopt generated    *)
(* (src/src/dach/dach_cmdline.c), which main() in src/src/dach/dach_main.c *)
(* calls first, the configuration that main makes of its results, and the  *)
(* dispatch on the first word, with what the two stream commands do next.  *)
(*                                                                         *)
(* The static configuration is initialised by position, {NULL, "r", 4,     *)
(* 8192 * 2}: the third member of struct config is block_size and threads  *)
(* is one of the last, so 4 becomes the block size and threads is 0.       *)
(*                                                                         *)
(* Numbers are what strtol returns; an int keeps IntHalf values on each    *)
(* side of zero, and a negative int converted to size_t is huge.           *)
(***************************************************************************)
EXTENDS Integers, Sequences, SequencesExt, FiniteSetsExt

CONSTANTS Numbers,     \* bound: the numbers given to options
          BadNumber,   \* a value that is no number
          MaxWords,    \* bound: words on the command line
          IntHalf,     \* 2^31 in the code
          SizeMod,     \* 2^64 in the code
          Help         \* the parser's defaults, which --help prints: 16 and 1000000

ASSUME CommandAssumption == /\ Numbers \subseteq Int /\ BadNumber \notin Int
                            /\ MaxWords \in Nat
                            /\ IntHalf \in Nat /\ IntHalf > 4
                            /\ SizeMod \in Nat /\ SizeMod >= 2 * IntHalf
                            /\ Help \in [threads : 0 .. IntHalf - 1, block_size : 0 .. IntHalf - 1]

Builtin == {"encode", "decode", "estream", "dstream", "info"}      \* commands[]

\* The words of a command line: a command, an option, or an option with a number.
Plain == {"encode", "estream", "copy"}
Words == [word : Plain \cup {"file", "console", "help", "unknown"}, arg : {0}]
            \cup [word : {"threads", "block_size"}, arg : Numbers \cup {BadNumber}]

VARIABLES argv,      \* the words after the program's name
          todo,      \* what getopt_long has not returned yet
          given,     \* the options seen: the *_given counters, 0 or 1 each
          ai,        \* threads_arg and block_size_arg
          config,    \* dach_default_config
          stage

vars == <<argv, todo, given, ai, config, stage>>

\* Mutant of ToInt: a long keeps its value.
ToIntWide(n) == n
\* The long of strtol stored in an int.
ToInt(n) == ((n + IntHalf) % (2 * IntHalf)) - IntHalf

\* Mutant of ToSize: the comparison is one of ints.
ToSizeSigned(n) == n
\* An int converted to size_t.
ToSize(n) == n % SizeMod

\* {NULL, "r", 4, 8192 * 2}, by position.
DefaultConfig == [file |-> FALSE, block_size |-> 4, threads |-> 0]

Init == /\ argv \in BoundedSeq(Words, MaxWords)
        /\ todo = argv
        /\ given = {}
        /\ ai = Help
        /\ config = DefaultConfig
        /\ stage = "parse"

-----------------------------------------------------------------------------
(* cmdline_parser_internal: one iteration of its loop per word *)

Word == Head(todo)
Parsing == stage = "parse" /\ todo # <<>>

\* Mutant of PlainWord: the word is looked at again.
PlainWordAgain == /\ Parsing
                  /\ Word.word \in Plain
                  /\ UNCHANGED vars

\* getopt_long passes over words that are no options.
PlainWord == /\ Parsing
             /\ Word.word \in Plain
             /\ todo' = Tail(todo)
             /\ UNCHANGED <<argv, given, ai, config, stage>>

\* Mutant of Repeated: an option that comes again replaces the first one.
RepeatedNever == FALSE
Repeated == Word.word \in given

\* update_arg: the value is stored, and an int is cut to its width.
TakeOption == /\ Parsing
              /\ Word.word \in {"file", "threads", "block_size", "console"}
              /\ ~Repeated
              /\ Word.arg # BadNumber
              /\ given' = given \cup {Word.word}
              /\ ai' = IF Word.word \in DOMAIN ai
                       THEN [ai EXCEPT ![Word.word] = ToInt(Word.arg)]
                       ELSE ai
              /\ todo' = Tail(todo)
              /\ UNCHANGED <<argv, config, stage>>

\* The option was given before, is unknown, or its number is none: exit(1).
RejectOption == /\ Parsing
                /\ Word.word = "unknown" \/ Repeated \/ Word.arg = BadNumber
                /\ stage' = "exit 1"
                /\ UNCHANGED <<argv, todo, given, ai, config>>

\* --help and --version exit at once.
PrintHelp == /\ Parsing
             /\ Word.word = "help"
             /\ stage' = "exit 0"
             /\ UNCHANGED <<argv, todo, given, ai, config>>

Required == "file" \in given

\* The end of the command line; --file is required.
ParserEnds == /\ stage = "parse"
              /\ todo = <<>>
              /\ stage' = IF Required THEN "configure" ELSE "exit 1"
              /\ UNCHANGED <<argv, todo, given, ai, config>>

-----------------------------------------------------------------------------
(* main *)

\* An option only raises a value.
Configure ==
    /\ stage = "configure"
    /\ config' = [file |-> "file" \in given,
                  threads |-> IF "threads" \in given /\ ai.threads > config.threads
                              THEN ai.threads ELSE config.threads,
                  block_size |-> IF /\ "block_size" \in given
                                    /\ ToSize(ai.block_size) > config.block_size
                                 THEN ToSize(ai.block_size) ELSE config.block_size]
    /\ stage' = "dispatch"
    /\ UNCHANGED <<argv, todo, given, ai>>

\* The command is argv[1], whatever getopt made of that word; dach_usage exits.
Dispatch == /\ stage = "dispatch"
            /\ stage' = IF argv[1].word \in Builtin THEN "run" ELSE "exit 129"
            /\ UNCHANGED <<argv, todo, given, ai, config>>

\* encode_stream and decode_stream: a missing or empty file fails an assertion,
\* any other one gets to a use of the stream, which is NULL.
RunStream == /\ stage = "run"
             /\ argv[1].word \in {"estream", "dstream"}
             /\ stage' = "crash"
             /\ UNCHANGED <<argv, todo, given, ai, config>>

\* What encode, decode and info do then is in FileCodec and Info.
Ended == \/ stage \in {"crash", "exit 0", "exit 1", "exit 129"}
         \/ stage = "run" /\ argv[1].word \in {"encode", "decode", "info"}
Stop == Ended /\ UNCHANGED vars

Step == PlainWord \/ TakeOption \/ RejectOption \/ PrintHelp \/ ParserEnds
           \/ Configure \/ Dispatch \/ RunStream
Next == Step \/ Stop

\* Sequential code.
Spec == Init /\ [][Next]_vars /\ WF_vars(Step)

-----------------------------------------------------------------------------
\* Every variable has its type; what an option brings fits its member.
TypeOK == /\ todo \in Seq(Words)
          /\ given \subseteq {"file", "threads", "block_size", "console"}
          /\ ai.threads \in -IntHalf .. IntHalf - 1
          /\ ai.block_size \in -IntHalf .. IntHalf - 1
          /\ config.threads \in 0 .. IntHalf - 1 /\ config.block_size \in 4 .. SizeMod - 1
          /\ stage \in {"parse", "configure", "dispatch", "run", "crash", "exit 0", "exit 1",
                        "exit 129"}

Given(o) == {i \in DOMAIN argv : argv[i].word = o}

\* A line the parser is to accept: --file is there, no option comes twice, no number
\* is none, and nothing is unknown (nor is help asked for, which ends the program).
GoodLine == /\ Given("file") # {}
            /\ \A o \in {"file", "threads", "block_size", "console"} :
                  \A i, j \in Given(o) : i = j
            /\ \A i \in DOMAIN argv : /\ argv[i].word \notin {"help", "unknown"}
                                     /\ argv[i].arg # BadNumber

\* A command runs only on a good line, so with a file - the commands take dc->file as
\* a string, or assert that it is one -, and a good line is never refused by the
\* parser, whatever the order of its words.
RunsGoodLines ==
    /\ stage = "run" => GoodLine /\ argv[1].word \in Builtin /\ config.file
    /\ stage = "exit 1" => ~GoodLine

\* An option that asks for more than is configured and that an int holds reaches the
\* command unchanged, wherever on the line it is; so does a negative block size, as
\* the size_t that it is converted to.
OptionsReachTheCommand ==
    stage = "run" =>
       /\ \A i \in Given("threads") :
             argv[i].arg \in DefaultConfig.threads + 1 .. IntHalf - 1
                => config.threads = argv[i].arg
       /\ \A i \in Given("block_size") :
             /\ argv[i].arg \in DefaultConfig.block_size + 1 .. IntHalf - 1
                   => config.block_size = argv[i].arg
             /\ argv[i].arg \in -IntHalf .. -1 => config.block_size = SizeMod + argv[i].arg

\* Without an option the command works with the default that --help prints for it:
\* 16 threads and a block size of 1000000 (dach_cmdline.c:40-41).
PrintedDefaults ==
    stage = "run" => /\ Given("threads") = {} => config.threads = Help.threads
                     /\ Given("block_size") = {} => config.block_size = Help.block_size

\* The program gets to a command that runs, to an exit or to a crash.
Ends == <>Ended
=============================================================================
