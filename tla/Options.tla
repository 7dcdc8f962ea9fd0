------------------------------- MODULE Options -------------------------------
(***************************************************************************)
(* Command line options (utils/options.h, utils/options.cpp).  A word of   *)
(* the command line is a model value: a member of Dashed begins with '-',  *)
(* Empty has no characters.  An option is a record of its two names (the   *)
(* second may be Empty), the number of values it takes and the values its  *)
(* handler refuses; the registry is the sequence of the options that were  *)
(* constructed.  option<T> and option<bool> differ in argc.                *)
(***************************************************************************)
EXTENDS Sequences, SequencesExt

CONSTANTS Dashed, Empty

Count(argv) == Len(argv)

matches(opt, word) == word # Empty /\ word \in {opt.name, opt.aname}

\* MWR_ERROR leaves the registry as it was: the option is not constructed.
register_option(m_options, opt) ==
    IF \E other \in ToSet(m_options) :
            matches(other, opt.name) \/ matches(other, opt.aname)
    THEN m_options
    ELSE Append(m_options, opt)

\* The first option that matches, as a set of at most one.
find(m_options, word) ==
    LET i == SelectInSeq(m_options, LAMBDA opt : matches(opt, word))
    IN IF i = 0 THEN {} ELSE {m_options[i]}

\* What a handler keeps: everything up to the first value it refuses.
Kept(opt, values) ==
    LET i == SelectInSeq(values, LAMBDA v : v \in opt.refuses)
    IN IF i = 0 THEN values ELSE SubSeq(values, 1, i - 1)

\* A wrong test for values that does not look at the first character.
IsValueOrDashed(word) == word # Empty

IsValue(word) == word # Empty /\ word \notin Dashed

\* option<T>::parse: the option's own pass over the whole command line.
parseValues(opt, argv) ==
    LET scan[i \in 1 .. Count(argv) + 2] ==
            IF i > Count(argv) THEN [ok |-> TRUE, values |-> <<>>]
            ELSE IF ~matches(opt, argv[i]) THEN scan[i + 1]
            ELSE IF i = Count(argv) \/ ~IsValue(argv[i + 1])
                 THEN [ok |-> FALSE, values |-> <<>>]
            ELSE IF argv[i + 1] \in opt.refuses
                 THEN [ok |-> TRUE, values |-> <<>>]
            ELSE LET rest == scan[i + 2]
                 IN [rest EXCEPT !.values = <<argv[i + 1]>> \o @]
    IN scan[1]

\* option<bool>::parse with the handler of the constructor, which toggles.
parseFlag(opt, argv) ==
    [ok |-> TRUE,
     values |-> FoldLeft(LAMBDA found, word :
                    IF matches(opt, word) THEN <<found # <<TRUE>>>> ELSE found,
                    <<>>, argv)]

parse(opt, argv) ==
    IF opt.argc = 0 THEN parseFlag(opt, argv) ELSE parseValues(opt, argv)

\* options::parse: every option makes its pass, also after one has failed.
parseAll(m_options, argv) ==
    \A i \in 1 .. Len(m_options) : parse(m_options[i], argv).ok

\* The pass that collects what belongs to no option; argv[1] is the program.
collectExtra(m_options, argv) ==
    LET from[i \in 2 .. Count(argv) + 2] ==
            IF i > Count(argv) THEN <<>>
            ELSE IF argv[i] \notin Dashed THEN <<argv[i]>> \o from[i + 1]
            ELSE IF \E opt \in find(m_options, argv[i]) : opt.argc = 1
                 THEN from[i + 2]
                 ELSE from[i + 1]
    IN from[2]

-----------------------------------------------------------------------------
\* Reading the command line once, from left to right.
LeftToRight(m_options, argv) ==
    LET from[i \in 2 .. Count(argv) + 2] ==
            IF i > Count(argv) THEN [ok |-> TRUE, given |-> <<>>, extra |-> <<>>]
            ELSE LET takers == {o \in ToSet(m_options) : matches(o, argv[i])}
                     rest == from[i + 1]
                 IN IF argv[i] \notin Dashed
                    THEN [rest EXCEPT !.extra = <<argv[i]>> \o @]
                    ELSE IF takers = {} THEN rest
                    ELSE LET opt == CHOOSE o \in takers : TRUE
                         IN IF opt.argc = 0
                            THEN [rest EXCEPT !.given = <<<<opt, Empty>>>> \o @]
                            ELSE IF i = Count(argv) \/ argv[i + 1] \in Dashed \cup {Empty}
                            THEN [rest EXCEPT !.ok = FALSE]
                            ELSE [from[i + 2] EXCEPT !.given = <<<<opt, argv[i + 1]>>>> \o @]
    IN from[2]

GivenTo(opt, given) ==
    LET own == SelectSeq(given, LAMBDA g : g[1] = opt)
    IN [i \in 1 .. Len(own) |-> own[i][2]]

(* Every option passes over the command line on its own and a last pass    *)
(* collects the rest (options.cpp:120, 127).  Together they take each word *)
(* exactly as one reading from left to right would: none is used twice,    *)
(* none is lost, and an incomplete option is noticed.  The order in which  *)
(* the options were registered does not matter.  A handler that refuses a  *)
(* value ends its option's pass there, whatever follows.                   *)
PassesAgree(requested, argv) ==
    LET m_options == FoldLeft(register_option, <<>>, requested)
        once == LeftToRight(m_options, argv)
    IN /\ \A word \in Dashed :
              \A o1, o2 \in ToSet(m_options) :
                  matches(o1, word) /\ matches(o2, word) => o1 = o2
       /\ (parseAll(m_options, argv) /\ \A o \in ToSet(m_options) : o.refuses = {}) => once.ok
       /\ once.ok =>
              /\ parseAll(m_options, argv)
              /\ parseAll(Reverse(m_options), argv)
              /\ collectExtra(m_options, argv) = once.extra
              /\ \A opt \in ToSet(m_options) :
                     LET given == GivenTo(opt, once.given)
                     IN IF opt.argc = 1
                        THEN parse(opt, argv).values = Kept(opt, given)
                        ELSE parse(opt, argv).values =
                                 IF given = <<>> THEN <<>>
                                 ELSE <<Len(given) % 2 = 1>>
=============================================================================
