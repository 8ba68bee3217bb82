---------------------------- MODULE CommandProofs ----------------------------
(***************************************************************************)
(* What a command of dach can rely on, for command lines of any length,    *)
(* any numbers given to options and any width of int and size_t: it runs   *)
(* only on a line that is in order, and gets what the options ask for.     *)
(***************************************************************************)
EXTENDS Command, SequenceTheorems, TLAPS

Options == {"file", "threads", "block_size", "console"}
Int32 == -IntHalf .. IntHalf - 1

\* How many words getopt_long has returned.
Read == Len(argv) - Len(todo)

-----------------------------------------------------------------------------
(* The inductive invariant *)

\* todo is the rest of the line.
Line == /\ argv \in Seq(Words) /\ todo \in Seq(Words)
        /\ Len(todo) <= Len(argv)
        /\ \A k \in 1 .. Len(todo) : todo[k] = argv[Read + k]

\* The words read so far were acceptable, and given are their options.
Accepted == /\ given = {o \in Options : \E i \in 1 .. Read : argv[i].word = o}
            /\ \A i, j \in 1 .. Read :
                  argv[i].word = argv[j].word /\ argv[i].word \in Options => i = j
            /\ \A i \in 1 .. Read : /\ argv[i].word \notin {"help", "unknown"}
                                    /\ argv[i].arg # BadNumber

\* An argument is that of the one option that brought it.
Arguments == /\ ai \in [threads : Int32, block_size : Int32]
             /\ \A i \in 1 .. Read :
                   /\ argv[i].word = "threads" => ai.threads = ToInt(argv[i].arg)
                   /\ argv[i].word = "block_size" => ai.block_size = ToInt(argv[i].arg)

\* The configuration is the default until main makes it of the arguments.
Stages == /\ stage \in {"parse", "configure", "dispatch", "run", "crash", "exit 0",
                        "exit 1", "exit 129"}
          /\ stage \in {"configure", "dispatch", "run"} => todo = <<>> /\ "file" \in given
          /\ stage \in {"parse", "configure"} => config = DefaultConfig
          /\ stage = "run" => argv[1].word \in Builtin

Configured ==
    /\ config.threads \in 0 .. IntHalf - 1 /\ config.block_size \in 4 .. SizeMod - 1
    /\ stage \in {"dispatch", "run"} =>
          /\ config.file
          /\ config.threads = IF "threads" \in given /\ ai.threads > 0 THEN ai.threads ELSE 0
          /\ config.block_size = IF "block_size" \in given /\ ToSize(ai.block_size) > 4
                                 THEN ToSize(ai.block_size) ELSE 4

\* What the parser refuses is no good line.
Refused == stage = "exit 1" => ~GoodLine

LineInv == Line /\ Accepted /\ Arguments /\ Stages /\ Configured /\ Refused

-----------------------------------------------------------------------------
(* Conversions *)

LEMMA ModRange == ASSUME NEW a \in Int, NEW m \in Nat \ {0} PROVE a % m \in 0 .. m - 1
OBVIOUS

LEMMA ToIntFits == ASSUME NEW n \in Int PROVE ToInt(n) \in Int32
<1>1. IntHalf \in Nat \ {0} /\ 2 * IntHalf \in Nat \ {0}
    BY CommandAssumption
<1>2. (n + IntHalf) % (2 * IntHalf) \in 0 .. 2 * IntHalf - 1
    BY <1>1, ModRange
<1> QED
    BY <1>1, <1>2 DEF ToInt, Int32

LEMMA ModOfNat == ASSUME NEW a \in Nat, NEW m \in Nat \ {0}, a < m PROVE a % m = a
OBVIOUS

LEMMA ModOfNegative == ASSUME NEW a \in Int, NEW m \in Nat \ {0}, a < 0, -m <= a
                       PROVE  a % m = m + a
OBVIOUS

LEMMA ToSizeFits == ASSUME NEW n \in Int32
                    PROVE  /\ ToSize(n) \in 0 .. SizeMod - 1
                           /\ ToSize(n) = IF n < 0 THEN SizeMod + n ELSE n
<1>1. /\ IntHalf \in Nat \ {0} /\ SizeMod \in Nat \ {0} /\ SizeMod > IntHalf
      /\ n \in Int /\ -IntHalf <= n /\ n <= IntHalf - 1
    BY CommandAssumption DEF Int32
<1>2. CASE n < 0
    BY <1>1, <1>2, ModOfNegative DEF ToSize
<1>3. CASE ~(n < 0)
    BY <1>1, <1>3, ModOfNat DEF ToSize
<1> QED
    BY <1>1, <1>2, <1>3

-----------------------------------------------------------------------------
(* The parser's loop *)

\* The word at the head of todo is the first of the line that was not read.
LEMMA NextWord ==
  ASSUME Line, todo # <<>>
  PROVE  /\ Read \in Nat /\ Read + 1 \in 1 .. Len(argv) /\ Len(argv) \in Nat
         /\ Word = argv[Read + 1] /\ Word \in Words
<1>1. Len(todo) \in Nat \ {0} /\ Len(argv) \in Nat /\ Len(todo) <= Len(argv)
    BY EmptySeq DEF Line
<1>2. Read \in Nat /\ Read + 1 \in 1 .. Len(argv)
    BY <1>1 DEF Read
<1>3. Word = todo[1]
    BY HeadTailProperties DEF Line, Word
<1>4. todo[1] = argv[Read + 1] /\ todo[1] \in Words
    BY <1>1 DEF Line
<1> QED
    BY <1>1, <1>2, <1>3, <1>4

LEMMA LineFacts ==
  ASSUME Line
  PROVE  /\ Len(argv) \in Nat /\ DOMAIN argv = 1 .. Len(argv)
         /\ todo = <<>> => Read = Len(argv)
BY DEF Line, Read

LEMMA TakesWord ==
  ASSUME Line, todo # <<>>, todo' = Tail(todo), UNCHANGED argv
  PROVE  Line' /\ Read' = Read + 1
<1>1. /\ Len(todo) \in Nat \ {0} /\ Len(argv) \in Nat /\ Len(todo) <= Len(argv)
    BY EmptySeq DEF Line
<1>2. /\ todo' \in Seq(Words) /\ Len(todo') = Len(todo) - 1
      /\ \A k \in 1 .. Len(todo') : todo'[k] = todo[k + 1]
    BY HeadTailProperties DEF Line
<1>3. Read' = Read + 1 /\ Read \in Int
    BY <1>1, <1>2 DEF Read
<1>4. \A k \in 1 .. Len(todo') : todo'[k] = argv'[Read' + k]
  <2> SUFFICES ASSUME NEW k \in 1 .. Len(todo') PROVE todo'[k] = argv'[Read' + k]
      OBVIOUS
  <2>1. k + 1 \in 1 .. Len(todo) /\ k \in Int
      BY <1>1, <1>2
  <2>2. todo[k + 1] = argv[Read + (k + 1)]
      BY <2>1 DEF Line
  <2>3. Read + (k + 1) = Read' + k
      BY <1>3, <2>1
  <2> QED
      BY <1>2, <2>2, <2>3
<1> QED
    BY <1>1, <1>2, <1>3, <1>4 DEF Line

\* Reading an acceptable word keeps what is known of the words read.
LEMMA AcceptsWord ==
  ASSUME LineInv, todo # <<>>, todo' = Tail(todo), UNCHANGED argv,
         Word.word \notin {"help", "unknown"}, Word.arg # BadNumber,
         ~Repeated,
         given' = IF Word.word \in Options THEN given \cup {Word.word} ELSE given
  PROVE  Accepted'
<1>1. /\ Read \in Nat /\ Read + 1 \in 1 .. Len(argv) /\ Word = argv[Read + 1]
      /\ Read' = Read + 1 /\ 1 .. Read' = (1 .. Read) \cup {Read + 1}
    BY NextWord, TakesWord DEF LineInv
<1>2. Accepted
    BY DEF LineInv
<1>3. given' = {o \in Options : \E i \in 1 .. Read' : argv'[i].word = o}
    BY <1>1, <1>2 DEF Accepted
<1>4. ASSUME NEW i \in 1 .. Read PROVE ~(argv[i].word = Word.word /\ Word.word \in Options)
    BY <1>2 DEF Accepted, Repeated
<1>5. \A i, j \in 1 .. Read' :
         argv'[i].word = argv'[j].word /\ argv'[i].word \in Options => i = j
    BY <1>1, <1>2, <1>4 DEF Accepted
<1>6. \A i \in 1 .. Read' : /\ argv'[i].word \notin {"help", "unknown"}
                            /\ argv'[i].arg # BadNumber
    BY <1>1, <1>2 DEF Accepted
<1> QED
    BY <1>3, <1>5, <1>6 DEF Accepted

LEMMA PlainWordStep == ASSUME LineInv, PlainWord PROVE LineInv'
<1>1. /\ stage = "parse" /\ todo # <<>> /\ Word.word \in Plain /\ todo' = Tail(todo)
      /\ UNCHANGED <<argv, given, ai, config, stage>>
    BY DEF PlainWord, Parsing
<1>2. /\ Read \in Nat /\ Word = argv[Read + 1] /\ Word \in Words
      /\ Read' = Read + 1 /\ Line' /\ 1 .. Read' = (1 .. Read) \cup {Read + 1}
    BY <1>1, NextWord, TakesWord DEF LineInv
<1>3. Word.arg # BadNumber
    BY <1>1, <1>2, CommandAssumption DEF Words, Plain
<1>4. Word.word \notin Options /\ Word.word \notin {"help", "unknown"}
    BY <1>1 DEF Plain, Options
<1>5. ~Repeated
    BY <1>4 DEF LineInv, Accepted, Repeated
<1>6. Accepted'
    BY <1>1, <1>3, <1>4, <1>5, AcceptsWord
<1>7. Arguments'
    BY <1>1, <1>2, <1>4 DEF LineInv, Arguments, Options
<1>8. Stages' /\ Configured' /\ Refused'
    BY <1>1 DEF LineInv, Stages, Configured, Refused
<1> QED
    BY <1>2, <1>6, <1>7, <1>8 DEF LineInv

LEMMA TakeOptionStep == ASSUME LineInv, TakeOption PROVE LineInv'
<1>1. /\ stage = "parse" /\ todo # <<>> /\ Word.word \in Options /\ todo' = Tail(todo)
      /\ ~Repeated /\ Word.arg # BadNumber /\ given' = given \cup {Word.word}
      /\ ai' = IF Word.word \in DOMAIN ai
               THEN [ai EXCEPT ![Word.word] = ToInt(Word.arg)] ELSE ai
      /\ UNCHANGED <<argv, config, stage>>
    BY DEF TakeOption, Parsing, Options
<1>2. /\ Read \in Nat /\ Word = argv[Read + 1] /\ Word \in Words
      /\ Read' = Read + 1 /\ Line' /\ 1 .. Read' = (1 .. Read) \cup {Read + 1}
    BY <1>1, NextWord, TakesWord DEF LineInv
<1>3. Accepted'
  <2>1. Word.word \notin {"help", "unknown"}
      BY <1>1 DEF Options
  <2> QED
      BY <1>1, <2>1, AcceptsWord
<1>4. Arguments'
  <2>1. ai \in [threads : Int32, block_size : Int32] /\ DOMAIN ai = {"threads", "block_size"}
      BY DEF LineInv, Arguments
  <2>2. ASSUME NEW i \in 1 .. Read PROVE argv[i].word # Word.word
      BY <1>1 DEF LineInv, Accepted, Repeated
  <2>3. CASE Word.word \in {"threads", "block_size"}
    <3>1. Word.arg \in Int
        BY <1>1, <1>2, <2>3, CommandAssumption DEF Words, Plain
    <3>2. ToInt(Word.arg) \in Int32
        BY <3>1, ToIntFits
    <3>3. CASE Word.word = "threads"
      <4>1. /\ ai' \in [threads : Int32, block_size : Int32]
            /\ ai'.threads = ToInt(Word.arg) /\ ai'.block_size = ai.block_size
          BY <1>1, <2>1, <3>2, <3>3
      <4> QED
          BY <1>1, <1>2, <2>2, <3>3, <4>1 DEF LineInv, Arguments
    <3>4. CASE Word.word = "block_size"
      <4>1. /\ ai' \in [threads : Int32, block_size : Int32]
            /\ ai'.block_size = ToInt(Word.arg) /\ ai'.threads = ai.threads
          BY <1>1, <2>1, <3>2, <3>4
      <4> QED
          BY <1>1, <1>2, <2>2, <3>4, <4>1 DEF LineInv, Arguments
    <3> QED
        BY <2>3, <3>3, <3>4
  <2>4. CASE Word.word \notin {"threads", "block_size"}
    <3>1. ai' = ai
        BY <1>1, <2>1, <2>4
    <3> QED
        BY <1>1, <1>2, <2>4, <3>1 DEF LineInv, Arguments
  <2> QED
      BY <2>3, <2>4
<1>5. Stages' /\ Configured' /\ Refused'
    BY <1>1 DEF LineInv, Stages, Configured, Refused
<1> QED
    BY <1>2, <1>3, <1>4, <1>5 DEF LineInv

-----------------------------------------------------------------------------
(* main *)

LEMMA KeepLine == ASSUME LineInv, UNCHANGED <<argv, todo, given, ai>>
                  PROVE  Line' /\ Accepted' /\ Arguments'
<1>1. Read' = Read
    BY DEF Read
<1> QED
    BY <1>1 DEF LineInv, Line, Accepted, Arguments

LEMMA ConfigureStep == ASSUME LineInv, Configure PROVE LineInv'
<1>1. /\ stage = "configure" /\ stage' = "dispatch"
      /\ config = DefaultConfig /\ todo = <<>> /\ "file" \in given
      /\ UNCHANGED <<argv, todo, given, ai>>
    BY DEF Configure, LineInv, Stages
<1>2. /\ config'.file = TRUE
      /\ config'.threads = IF "threads" \in given /\ ai.threads > 0 THEN ai.threads ELSE 0
      /\ config'.block_size = IF "block_size" \in given /\ ToSize(ai.block_size) > 4
                              THEN ToSize(ai.block_size) ELSE 4
    BY <1>1 DEF Configure, DefaultConfig
<1>3. ai.threads \in Int32 /\ ai.block_size \in Int32
    BY DEF LineInv, Arguments
<1>4. /\ IntHalf \in Nat /\ SizeMod \in Nat /\ IntHalf > 4 /\ SizeMod > IntHalf
      /\ ToSize(ai.block_size) \in 0 .. SizeMod - 1
    BY <1>3, ToSizeFits, CommandAssumption
<1>5. config'.threads \in 0 .. IntHalf - 1
    BY <1>2, <1>3, <1>4 DEF Int32
<1>6. config'.block_size \in 4 .. SizeMod - 1
    BY <1>2, <1>4
<1>7. Configured'
    BY <1>1, <1>2, <1>5, <1>6 DEF Configured
<1>8. Stages' /\ Refused'
    BY <1>1 DEF LineInv, Stages, Refused
<1> QED
    BY <1>1, <1>7, <1>8, KeepLine DEF LineInv

\* What the parser refuses is no good line: the word it refuses is bad, or one of two.
LEMMA RejectsBadLines == ASSUME LineInv, RejectOption PROVE ~GoodLine
<1>1. /\ todo # <<>> /\ Line /\ Accepted
      /\ Word.word = "unknown" \/ Word.word \in given \/ Word.arg = BadNumber
    BY DEF RejectOption, Parsing, Repeated, LineInv
<1> DEFINE i == Read + 1
<1>2. /\ Read \in Nat /\ i \in 1 .. Len(argv) /\ Word = argv[i]
      /\ Len(argv) \in Nat /\ DOMAIN argv = 1 .. Len(argv)
    BY <1>1, NextWord, LineFacts
<1>3. \A j \in 1 .. Read : j \in DOMAIN argv /\ j # i
    BY <1>2
<1> HIDE DEF i
<1>4. CASE Word.word \in given
  <2>1. Word.word \in Options
      BY <1>1, <1>4 DEF Accepted
  <2>2. PICK j \in 1 .. Read : argv[j].word = Word.word
      BY <1>1, <1>4 DEF Accepted
  <2>3. j # i /\ j \in Given(Word.word) /\ i \in Given(Word.word)
      BY <1>2, <1>3, <2>2 DEF Given
  <2> QED
      BY <2>1, <2>3 DEF GoodLine, Options
<1> QED
    BY <1>1, <1>2, <1>4 DEF GoodLine

LEMMA EndsBadLines == ASSUME LineInv, ParserEnds, stage' = "exit 1" PROVE ~GoodLine
<1>1. todo = <<>> /\ "file" \notin given /\ Line /\ Accepted
    BY DEF ParserEnds, Required, LineInv
<1>2. DOMAIN argv = 1 .. Read
    BY <1>1, LineFacts
<1>3. Given("file") = {}
    BY <1>1, <1>2 DEF Accepted, Given, Options
<1> QED
    BY <1>3 DEF GoodLine

LEMMA OtherStep ==
  ASSUME LineInv,
         \/ RejectOption \/ PrintHelp \/ ParserEnds \/ Dispatch \/ RunStream \/ UNCHANGED vars
  PROVE  LineInv'
<1>1. UNCHANGED <<argv, todo, given, ai, config>>
    BY DEF RejectOption, PrintHelp, ParserEnds, Dispatch, RunStream, vars
<1>2. Stages' /\ Configured'
  <2>1. CASE RejectOption \/ PrintHelp \/ RunStream
    <3>1. stage' \in {"exit 1", "exit 0", "crash"}
        BY <2>1 DEF RejectOption, PrintHelp, RunStream
    <3> QED
        BY <1>1, <3>1 DEF LineInv, Stages, Configured
  <2>2. CASE ParserEnds
      BY <1>1, <2>2 DEF ParserEnds, Required, LineInv, Stages, Configured
  <2>3. CASE Dispatch
      BY <1>1, <2>3 DEF Dispatch, LineInv, Stages, Configured
  <2>4. CASE UNCHANGED vars
      BY <1>1, <2>4 DEF vars, LineInv, Stages, Configured
  <2> QED
      BY <2>1, <2>2, <2>3, <2>4
<1>3. GoodLine' <=> GoodLine
    BY <1>1 DEF GoodLine, Given
<1>4. Refused'
  <2> SUFFICES ASSUME stage' = "exit 1" PROVE ~GoodLine
      BY <1>3 DEF Refused
  <2>1. CASE RejectOption
      BY <2>1, RejectsBadLines
  <2>2. CASE ParserEnds
      BY <2>2, EndsBadLines
  <2>3. CASE PrintHelp \/ Dispatch \/ RunStream
      BY <2>3 DEF PrintHelp, Dispatch, RunStream
  <2>4. CASE UNCHANGED vars
      BY <2>4 DEF vars, LineInv, Refused
  <2> QED
      BY <2>1, <2>2, <2>3, <2>4
<1> QED
    BY <1>1, <1>2, <1>4, KeepLine DEF LineInv

-----------------------------------------------------------------------------
(* The theorems *)

LEMMA InitLineInv == Init => LineInv
<1> SUFFICES ASSUME Init PROVE LineInv
    OBVIOUS
<1>1. /\ argv \in Seq(Words) /\ todo = argv /\ given = {} /\ ai = Help
      /\ config = DefaultConfig /\ stage = "parse"
  <2>1. PICK n \in 0 .. MaxWords : argv \in [1 .. n -> Words]
      BY DEF Init, BoundedSeq, SeqOf
  <2>2. n \in Nat
      BY CommandAssumption
  <2> QED
      BY <2>1, <2>2 DEF Init
<1>2. Len(argv) \in Nat /\ Read = 0 /\ 1 .. Read = {}
    BY <1>1 DEF Read
<1>3. Line
    BY <1>1, <1>2 DEF Line
<1>4. Accepted
    BY <1>1, <1>2 DEF Accepted
<1>5. Arguments
  <2>1. Help \in [threads : 0 .. IntHalf - 1, block_size : 0 .. IntHalf - 1] /\ IntHalf \in Nat
      BY CommandAssumption
  <2>2. Help \in [threads : Int32, block_size : Int32]
      BY <2>1 DEF Int32
  <2> QED
      BY <1>1, <1>2, <2>2 DEF Arguments
<1>6. Stages /\ Configured /\ Refused
    BY <1>1, CommandAssumption DEF Stages, Configured, Refused, DefaultConfig
<1> QED
    BY <1>3, <1>4, <1>5, <1>6 DEF LineInv

\* Every reachable state satisfies the inductive invariant.
THEOREM LineInvariance == Spec => []LineInv
<1>1. LineInv /\ [Next]_vars => LineInv'
    BY PlainWordStep, TakeOptionStep, ConfigureStep, OtherStep DEF Next, Step, Stop
<1> QED
    BY <1>1, InitLineInv, PTL DEF Spec

\* Every variable keeps its type: the numbers that strtol returns, of any size,
\* end up in the members of the configuration within their width.
THEOREM CommandTypes == Spec => []TypeOK
<1>1. LineInv => TypeOK
    BY DEF LineInv, Line, Accepted, Arguments, Stages, Configured, TypeOK, Options, Int32
<1> QED
    BY <1>1, LineInvariance, PTL

\* At a command's start the whole line has been read.
LEMMA LineIsRead ==
  ASSUME LineInv, stage = "run"
  PROVE  /\ "file" \in given /\ Read = Len(argv) /\ DOMAIN argv = 1 .. Read
         /\ argv \in Seq(Words)
BY DEF LineInv, Line, Stages, Read

\* A command runs only on a good line - with --file, without a repeated option, a number
\* that is none, a call for help or a word the parser does not know -, and the parser
\* refuses only lines that are not good.
THEOREM OnlyGoodLinesRun == Spec => []RunsGoodLines
<1>1. ASSUME LineInv, stage = "run"
      PROVE  GoodLine /\ argv[1].word \in Builtin /\ config.file
  <2>1. "file" \in given /\ DOMAIN argv = 1 .. Read
      BY <1>1, LineIsRead
  <2>2. argv[1].word \in Builtin /\ config.file
      BY <1>1 DEF LineInv, Stages, Configured
  <2>3. Given("file") # {}
      BY <1>1, <2>1 DEF LineInv, Accepted, Given
  <2>4. ASSUME NEW o \in {"file", "threads", "block_size", "console"},
               NEW i \in Given(o), NEW j \in Given(o)
        PROVE  i = j
      BY <1>1, <2>1 DEF LineInv, Accepted, Given, Options
  <2>5. \A i \in DOMAIN argv : /\ argv[i].word \notin {"help", "unknown"}
                               /\ argv[i].arg # BadNumber
      BY <1>1, <2>1 DEF LineInv, Accepted
  <2> QED
      BY <2>2, <2>3, <2>4, <2>5 DEF GoodLine
<1>2. LineInv => RunsGoodLines
    BY <1>1 DEF RunsGoodLines, LineInv, Refused
<1> QED
    BY <1>2, LineInvariance, PTL

LEMMA ToIntKeeps == ASSUME NEW n \in Int32 PROVE ToInt(n) = n
<1>1. /\ IntHalf \in Nat \ {0} /\ 2 * IntHalf \in Nat \ {0}
      /\ n \in Int /\ n + IntHalf \in Nat /\ n + IntHalf < 2 * IntHalf
    BY CommandAssumption DEF Int32
<1>2. (n + IntHalf) % (2 * IntHalf) = n + IntHalf
    BY <1>1, ModOfNat
<1> QED
    BY <1>1, <1>2 DEF ToInt

\* A number that an int holds reaches the command as it was given, wherever on the line
\* it is, if it asks for more than is configured; a negative block size as a size_t.
THEOREM OptionsArrive == Spec => []OptionsReachTheCommand
<1>1. ASSUME LineInv, stage = "run", NEW o \in {"threads", "block_size"}, NEW i \in Given(o),
             argv[i].arg \in Int32
      PROVE  o \in given /\ ai[o] = argv[i].arg
  <2>1. i \in 1 .. Read /\ argv[i].word = o
      BY <1>1, LineIsRead DEF Given
  <2>2. o \in given
      BY <1>1, <2>1 DEF LineInv, Accepted, Options
  <2>3. ai[o] = ToInt(argv[i].arg)
      BY <1>1, <2>1 DEF LineInv, Arguments
  <2> QED
      BY <1>1, <2>2, <2>3, ToIntKeeps
<1>2. IntHalf \in Nat /\ SizeMod \in Nat /\ IntHalf > 4 /\ SizeMod > IntHalf
    BY CommandAssumption
<1>3. ASSUME LineInv, stage = "run", NEW i \in Given("threads"), argv[i].arg \in 1 .. IntHalf - 1
      PROVE  config.threads = argv[i].arg
  <2>1. argv[i].arg \in Int32 /\ argv[i].arg > 0
      BY <1>2, <1>3 DEF Int32
  <2>2. "threads" \in given /\ ai.threads = argv[i].arg
      BY <1>1, <1>3, <2>1
  <2> QED
      BY <1>3, <2>1, <2>2 DEF LineInv, Configured
<1>4. ASSUME LineInv, stage = "run", NEW i \in Given("block_size"),
             argv[i].arg \in 5 .. IntHalf - 1 \/ argv[i].arg \in -IntHalf .. -1
      PROVE  config.block_size = IF argv[i].arg < 0 THEN SizeMod + argv[i].arg ELSE argv[i].arg
  <2>1. argv[i].arg \in Int32 /\ (argv[i].arg > 4 \/ argv[i].arg < 0)
      BY <1>2, <1>4 DEF Int32
  <2>2. "block_size" \in given /\ ai.block_size = argv[i].arg
      BY <1>1, <1>4, <2>1
  <2>3. ToSize(argv[i].arg) = IF argv[i].arg < 0 THEN SizeMod + argv[i].arg ELSE argv[i].arg
      BY <2>1, ToSizeFits
  <2>4. ToSize(argv[i].arg) > 4
    <3> DEFINE n == argv[i].arg
    <3>1. n \in Int /\ -IntHalf <= n /\ (n > 4 \/ n < 0)
        BY <1>2, <2>1 DEF Int32
    <3>2. ToSize(n) = IF n < 0 THEN SizeMod + n ELSE n
        BY <2>3
    <3> HIDE DEF n
    <3>3. SizeMod + n > 4
        BY <3>1, CommandAssumption
    <3> QED
        BY <3>1, <3>2, <3>3 DEF n
  <2>5. config.block_size = ToSize(argv[i].arg)
      BY <1>4, <2>2, <2>4 DEF LineInv, Configured
  <2> QED
      BY <2>3, <2>5
<1>5. LineInv => OptionsReachTheCommand
  <2> SUFFICES ASSUME LineInv, stage = "run" PROVE OptionsReachTheCommand
      BY DEF OptionsReachTheCommand
  <2>1. DefaultConfig.threads + 1 = 1 /\ DefaultConfig.block_size + 1 = 5
      BY DEF DefaultConfig
  <2>2. ASSUME NEW i \in Given("threads"),
               argv[i].arg \in DefaultConfig.threads + 1 .. IntHalf - 1
        PROVE  config.threads = argv[i].arg
      BY <1>3, <2>1, <2>2
  <2>3. ASSUME NEW i \in Given("block_size"),
               argv[i].arg \in DefaultConfig.block_size + 1 .. IntHalf - 1
        PROVE  config.block_size = argv[i].arg
    <3>1. argv[i].arg \in 5 .. IntHalf - 1 /\ ~(argv[i].arg < 0)
        BY <1>2, <2>1, <2>3
    <3> QED
        BY <1>4, <3>1
  <2>4. ASSUME NEW i \in Given("block_size"), argv[i].arg \in -IntHalf .. -1
        PROVE  config.block_size = SizeMod + argv[i].arg
    <3>1. argv[i].arg < 0
        BY <1>2, <2>4
    <3> QED
        BY <1>4, <2>4, <3>1
  <2> QED
      BY <2>2, <2>3, <2>4 DEF OptionsReachTheCommand
<1> QED
    BY <1>5, LineInvariance, PTL
-----------------------------------------------------------------------------
(* How long the program takes to get to a command *)

\* What is ahead: a step per word, one for the end of the line, and those of main.
StagesLeft == CASE stage = "parse" -> Len(todo) + 4
                [] stage = "configure" -> 3
                [] stage = "dispatch" -> 2
                [] stage = "run" -> 1
                [] OTHER -> 0

\* Every step of the parser and of main brings the end nearer: no word is looked at
\* twice, and a line of n words takes at most n + 4 steps.
THEOREM LineGetsShorter ==
  Spec => /\ [](StagesLeft \in 0 .. Len(argv) + 4)
          /\ [][StagesLeft' < StagesLeft]_vars
<1>1. ASSUME LineInv PROVE StagesLeft \in 0 .. Len(argv) + 4
  <2>1. Len(todo) \in Nat /\ Len(argv) \in Nat /\ Len(todo) <= Len(argv)
      BY <1>1 DEF LineInv, Line
  <2> QED
      BY <2>1 DEF StagesLeft
<1>2. ASSUME LineInv, Step PROVE StagesLeft' < StagesLeft
  <2>1. Len(todo) \in Nat /\ (todo # <<>> => Len(Tail(todo)) = Len(todo) - 1)
      BY <1>2 DEF LineInv, Line
  <2>2. CASE PlainWord \/ TakeOption
      BY <2>1, <2>2 DEF PlainWord, TakeOption, Parsing, StagesLeft
  <2>3. CASE RejectOption \/ PrintHelp \/ ParserEnds
    <3>1. stage = "parse" /\ stage' \in {"configure", "exit 0", "exit 1"}
        BY <2>3 DEF RejectOption, PrintHelp, ParserEnds, Parsing
    <3>2. StagesLeft' \in {0, 3} /\ StagesLeft = Len(todo) + 4
        BY <3>1 DEF StagesLeft
    <3> QED
        BY <2>1, <3>2
  <2>4. CASE Configure \/ Dispatch \/ RunStream
    <3>1. \/ stage = "configure" /\ stage' = "dispatch"
          \/ stage = "dispatch" /\ stage' \in {"run", "exit 129"}
          \/ stage = "run" /\ stage' = "crash"
        BY <2>4 DEF Configure, Dispatch, RunStream
    <3>2. CASE stage = "configure" /\ stage' = "dispatch"
      <4>1. StagesLeft = 3 /\ StagesLeft' = 2
          BY <3>2 DEF StagesLeft
      <4> QED
          BY <4>1
    <3>3. CASE stage = "dispatch" /\ stage' \in {"run", "exit 129"}
      <4>1. StagesLeft = 2 /\ StagesLeft' \in {0, 1}
          BY <3>3 DEF StagesLeft
      <4> QED
          BY <4>1
    <3>4. CASE stage = "run" /\ stage' = "crash"
      <4>1. StagesLeft = 1 /\ StagesLeft' = 0
          BY <3>4 DEF StagesLeft
      <4> QED
          BY <4>1
    <3> QED
        BY <3>1, <3>2, <3>3, <3>4
  <2> QED
      BY <1>2, <2>2, <2>3, <2>4 DEF Step
<1>3. LineInv /\ [Next]_vars => [StagesLeft' < StagesLeft]_vars
    BY <1>2 DEF Next, Stop
<1> QED
    BY <1>1, <1>3, LineInvariance, PTL DEF Spec
=============================================================================
