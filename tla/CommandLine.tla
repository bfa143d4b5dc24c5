------------------------------ MODULE CommandLine ------------------------------
(***************************************************************************)
(* The command line parser of toolbox::utils: CommandLineApp::run() takes  *)
(* --ini out of the arguments, applies that file to every parameter, walks *)
(* the tokens of one command after the other, and ends in a callback or in *)
(* an exit code.  Parameters keep what they hold from one run to the next. *)
(*                                                                         *)
(* A token is [form, name, value, text]: a "word", the "terminator" --, an *)
(* "ini" option, or a "long" or "short" option with its name and the value *)
(* attached to it, if any; text is what it is when taken as a value.  The  *)
(* parser never gets past the first letter of a bundle -abc: that letter   *)
(* is the name, the others are the value.                                  *)
(***************************************************************************)
EXTENDS Integers, Sequences, FiniteSets, SequenceFacts

CONSTANTS
  Root, Commands, Parent,   \* the tree of commands; Parent[c] for c # Root
  Callbacks,    \* commands that have a callback
  Parameters,   \* a sequence of [command, kind, name, short, type, required],
                \* a command's before those of its subcommands
  Numbers,      \* texts that the parsers of numbers accept
  NoValue,      \* what an option holds to which no value is attached
  IniFiles,     \* the text of a file's name |-> (number of a parameter |-> text)
  Tokens,
  MaxTokens     \* MaxTokens[n]: of the nth run; there are Len(MaxTokens) runs

Parameter == DOMAIN Parameters

VARIABLES
  phase,     \* idle, ini, load, parse, execute
  args,      \* the tokens of this run
  queue,     \* the positions in args that are still to be looked at
  cmd, target,         \* the command at work, the subcommand found
  dashed,    \* double_dash_encountered
  next_arg,  \* positional_arg_index
  help, failed,        \* help_explicitly_requested, parsing_errors is not empty
  value,     \* value[p]: what parameter p holds, NoValue when it is not set
  exit,      \* what the last run() returned, -1 before
  ran,       \* the commands whose callback this run has called
  runs,
  role,      \* role[k]: what the token at position k was taken for
  before     \* value, when this run began

parser_vars == <<phase, args, queue, cmd, target, dashed, next_arg, help, failed,
                 value, exit, ran, runs, role, before>>

\* Operators called Mutant_... are faulty variants of the definition that follows
\* them; no specification uses them.

NoCommand == ""
Word(t) == t.form = "word"
Of(c) == {p \in Parameter : Parameters[p].command = c}
Positionals(c) ==
  Without([p \in Parameter |-> p], {p \in Parameter : p \notin Of(c) \/ Parameters[p].kind # "argument"})
Children(c) == {s \in Commands \ {Root} : Parent[s] = c}
Required(p) == Parameters[p].required
IsSet(p) == value[p] # NoValue

\* A command has a name, an empty text is no number, and what is typed, or stands in a
\* file, is something.
CommandLineAssumption ==
  /\ Root \in Commands /\ NoCommand \notin Commands
  /\ MaxTokens \in Seq(Nat)
  /\ Len(Parameters) \in Nat /\ Parameter = 1 .. Len(Parameters)
  /\ \A p \in Parameter : Parameters[p].kind \in {"flag", "option", "argument"}
  /\ "" \notin Numbers /\ NoValue \notin {"", "true", "nullopt"}
  /\ \A t \in Tokens : t.text # NoValue
  /\ \A name \in DOMAIN IniFiles : \A p \in DOMAIN IniFiles[name] :
       p \in Parameter /\ IniFiles[name][p] # NoValue

\* is_value_arg: anything but an option or an empty word; a negative number is one.
IsValue(t) == (Word(t) /\ t.text # "") \/ (t.form = "short" /\ t.text \in Numbers)

Init ==
  /\ phase = "idle" /\ args = <<>> /\ queue = <<>> /\ role = <<>>
  /\ cmd = Root /\ target = NoCommand
  /\ dashed = FALSE /\ next_arg = 1 /\ help = FALSE /\ failed = FALSE
  /\ value = [p \in Parameter |-> NoValue] /\ before = value
  /\ exit = -1 /\ ran = <<>> /\ runs = 0

Inputs(most) == UNION {[1 .. n -> Tokens] : n \in 0 .. most}

Run ==
  /\ phase = "idle"
  /\ runs < Len(MaxTokens)
  /\ phase' = "ini" /\ runs' = runs + 1
  /\ args' \in Inputs(MaxTokens[runs + 1])
  /\ queue' = <<>> /\ role' = [k \in DOMAIN args' |-> <<"none">>]
  /\ cmd' = Root /\ target' = NoCommand
  /\ dashed' = FALSE /\ next_arg' = 1 /\ help' = FALSE /\ failed' = FALSE
  /\ exit' = -1 /\ ran' = <<>> /\ before' = value
  /\ UNCHANGED value

Exit(code) == phase' = "idle" /\ exit' = code

-------------------------------------------------------------------------------
(* --ini                                                                   *)

Bare(k) == args[k].form = "ini" /\ args[k].value = NoValue

\* The token after a bare --ini is a file's name, whatever it looks like.
FileName[k \in Nat] == k > 1 /\ Bare(k - 1) /\ ~FileName[k - 1]

IniPositions == {k \in DOMAIN args : args[k].form = "ini" \/ FileName[k]}
IniRole(k) == IF FileName[k] THEN <<"file">> ELSE <<"ini">>

\* The file named last; "" when there is none.
IniFile ==
  LET named == {k \in IniPositions : FileName[k] \/ ~Bare(k)}
      last == CHOOSE k \in named : \A j \in named : j <= k
  IN  IF named = {} THEN "" ELSE IF FileName[last] THEN args[last].text ELSE args[last].value

TakeIni ==
  /\ phase = "ini"
  /\ role' = [k \in DOMAIN args |-> IF k \in IniPositions THEN IniRole(k) ELSE role[k]]
  /\ queue' = Without([k \in DOMAIN args |-> k], IniPositions)
  /\ failed' = \/ args # <<>> /\ Bare(Len(args)) /\ ~FileName[Len(args)]
               \/ IniFile # "" /\ IniFile \notin DOMAIN IniFiles
  /\ phase' = IF IniFile \in DOMAIN IniFiles THEN "load" ELSE "parse"
  /\ UNCHANGED <<args, cmd, target, dashed, next_arg, help, value, exit, ran, runs, before>>

\* What parse() makes of a text: a custom parser ("checked") throws.
Accepts(p, text) == Parameters[p].type \in {"number", "checked"} => text \in Numbers

Mutant_FirstWins(p, text) == IF IsSet(p) THEN value[p] ELSE text
Held(p, text) ==
  IF Parameters[p].kind = "flag" THEN "true"
  ELSE IF Parameters[p].type = "optional" /\ text \notin Numbers THEN "nullopt" ELSE text

\* apply_ini_config() ignores what parse() returns, and lets what it throws through.
ApplyIni ==
  /\ phase = "load"
  /\ LET file == IniFiles[IniFile]
         throws == {p \in DOMAIN file : Parameters[p].type = "checked" /\ ~Accepts(p, file[p])}
         Applied(p) == Accepts(p, file[p]) /\ \A q \in throws : p < q
     IN  /\ value' = [p \in Parameter |->
                        IF p \in DOMAIN file THEN IF Applied(p) THEN Held(p, file[p]) ELSE value[p]
                        ELSE value[p]]
         /\ IF throws # {} THEN Exit(1) ELSE phase' = "parse" /\ UNCHANGED exit
  /\ UNCHANGED <<args, queue, cmd, target, dashed, next_arg, help, failed, ran, runs, role, before>>

-------------------------------------------------------------------------------
(* The tokens of one command                                               *)

Here == args[queue[1]]
Parsing == phase = "parse" /\ target = NoCommand /\ queue # <<>>

\* Goes on behind the n tokens that were taken for the roles rs.
Take(rs) ==
  /\ queue' = SubSeq(queue, Len(rs) + 1, Len(queue))
  /\ role' = [k \in DOMAIN role |->
                IF \E j \in DOMAIN rs : queue[j] = k
                THEN rs[CHOOSE j \in DOMAIN rs : queue[j] = k] ELSE role[k]]
  /\ UNCHANGED <<phase, args, cmd, exit, ran, runs, before>>

Fails(rs) == Take(rs) /\ failed' = TRUE /\ UNCHANGED <<value, help, dashed, next_arg, target>>

Parse(p, text) ==
  IF Accepts(p, text)
  THEN value' = [value EXCEPT ![p] = Held(p, text)] /\ UNCHANGED failed
  ELSE failed' = TRUE /\ UNCHANGED value

\* Every command has a flag help.  It is seen behind -- as well.
IsHelp(t) ==
  /\ t.value = NoValue
  /\ (t.form = "long" /\ t.name = "help") \/ (t.form = "short" /\ t.name = "h")

HelpFlag ==
  /\ Parsing
  /\ IsHelp(Here)
  /\ help' = TRUE
  /\ Take(<<<<"help">>>>)
  /\ UNCHANGED <<failed, value, dashed, next_arg, target>>

Terminator ==
  /\ Parsing
  /\ Here.form = "terminator" /\ ~dashed
  /\ dashed' = TRUE
  /\ Take(<<<<"terminator">>>>)
  /\ UNCHANGED <<failed, value, help, next_arg, target>>

NamesChild(t) == Word(t) /\ t.text \in Children(cmd)

Subcommand ==
  /\ Parsing
  /\ ~dashed /\ NamesChild(Here)
  /\ target' = Here.text
  /\ Take(<<<<"command", Here.text>>>>)
  /\ UNCHANGED <<failed, value, help, dashed, next_arg>>

\* Of two parameters with one name the maps hold the later one.
Matches(t) ==
  {p \in Of(cmd) :
     /\ Parameters[p].kind # "argument"
     /\ t.form = "long" => t.name = Parameters[p].name
     /\ t.form = "short" => t.name = Parameters[p].short}
Lookup(t, p) == p \in Matches(t) /\ \A q \in Matches(t) : q <= p

IsOption == Parsing /\ ~dashed /\ Here.form \in {"long", "short"} /\ ~IsHelp(Here)

UnknownOption ==
  /\ IsOption
  /\ Matches(Here) = {}
  /\ Fails(<<<<"unknown">>>>)

Option(kind, p) ==
  /\ IsOption
  /\ Parameters[p].kind = kind /\ Lookup(Here, p)

\* A short flag is set before what follows it in the bundle is refused.
Flag(p) ==
  /\ Option("flag", p)
  /\ IF Here.value = NoValue \/ Here.form = "short" THEN value' = [value EXCEPT ![p] = "true"] ELSE UNCHANGED value
  /\ failed' = (failed \/ Here.value # NoValue)
  /\ Take(<<<<"flag", p>>>>)
  /\ UNCHANGED <<help, dashed, next_arg, target>>

AttachedValue(p) ==
  /\ Option("option", p)
  /\ Here.value # NoValue
  /\ Parse(p, Here.value)
  /\ Take(<<<<"option", p>>>>)
  /\ UNCHANGED <<help, dashed, next_arg, target>>

ValueFollows == Len(queue) > 1 /\ IsValue(args[queue[2]])

Mutant_Peeked(p) == <<<<"option", p>>>>
ValueTaken(p) == <<<<"option", p>>, <<"value", p>>>>

\* The next token is taken even if it names a subcommand.
NextValue(p) ==
  /\ Option("option", p)
  /\ Here.value = NoValue /\ ValueFollows
  /\ Parse(p, args[queue[2]].text)
  /\ Take(ValueTaken(p))
  /\ UNCHANGED <<help, dashed, next_arg, target>>

NoValueFollows(p) ==
  /\ Option("option", p)
  /\ Here.value = NoValue /\ ~ValueFollows
  /\ IF Parameters[p].type = "optional" THEN Parse(p, "") ELSE failed' = TRUE /\ UNCHANGED value
  /\ Take(<<<<"option", p>>>>)
  /\ UNCHANGED <<help, dashed, next_arg, target>>

IsPositional ==
  /\ Parsing
  /\ ~IsHelp(Here)
  /\ dashed \/ (Word(Here) /\ ~NamesChild(Here))

Positional ==
  /\ IsPositional
  /\ next_arg <= Len(Positionals(cmd))
  /\ LET p == Positionals(cmd)[next_arg]
     IN  Parse(p, Here.text) /\ Take(<<<<"argument", p>>>>)
  /\ next_arg' = next_arg + 1
  /\ UNCHANGED <<help, dashed, target>>

Unexpected ==
  /\ IsPositional
  /\ next_arg > Len(Positionals(cmd))
  /\ Fails(<<<<"unexpected">>>>)

-------------------------------------------------------------------------------
(* The end of a command                                                    *)

AllRead ==
  /\ phase = "parse"
  /\ queue = <<>> \/ target # NoCommand
  /\ phase' = "execute"
  /\ UNCHANGED <<args, queue, cmd, target, dashed, next_arg, help, failed, value, exit, ran, runs, role, before>>

Complete(c) == \A p \in Of(c) : Required(p) => IsSet(p)

\* Options of the command that are required are not asked for in front of a subcommand.
ReadyForSubcommand(c) == \A p \in Entries(Positionals(c)) : Required(p) => IsSet(p)

MayGoOn == ~help /\ ~failed

\* Help is a success, whatever else is wrong.
Stop ==
  /\ phase = "execute"
  /\ \/ ~MayGoOn /\ Exit(IF help THEN 0 ELSE 1)
     \/ MayGoOn /\ target # NoCommand /\ ~ReadyForSubcommand(cmd) /\ Exit(1)
     \/ MayGoOn /\ target = NoCommand /\ ~Complete(cmd) /\ Exit(1)
     \/ /\ MayGoOn /\ target = NoCommand /\ Complete(cmd) /\ cmd \notin Callbacks
        /\ Exit(IF Children(cmd) = {} THEN 0 ELSE 1)
  /\ UNCHANGED <<args, queue, cmd, target, dashed, next_arg, help, failed, value, ran, runs, role, before>>

Dispatch ==
  /\ phase = "execute"
  /\ MayGoOn
  /\ target # NoCommand /\ ReadyForSubcommand(cmd)
  /\ cmd' = target /\ target' = NoCommand
  /\ dashed' = FALSE /\ next_arg' = 1
  /\ phase' = "parse"
  /\ UNCHANGED <<args, queue, help, failed, value, exit, ran, runs, role, before>>

\* A callback returns the exit code; run() makes 1 of what it throws.
Callback ==
  /\ phase = "execute"
  /\ MayGoOn
  /\ target = NoCommand /\ Complete(cmd) /\ cmd \in Callbacks
  /\ ran' = Append(ran, cmd)
  /\ \E code \in {0, 1} : Exit(code)
  /\ UNCHANGED <<args, queue, cmd, target, dashed, next_arg, help, failed, value, runs, role, before>>

Next ==
  \/ Run \/ TakeIni \/ ApplyIni \/ HelpFlag \/ Terminator \/ Subcommand \/ UnknownOption
  \/ \E p \in Parameter : Flag(p) \/ AttachedValue(p) \/ NextValue(p) \/ NoValueFollows(p)
  \/ Positional \/ Unexpected \/ AllRead \/ Stop \/ Dispatch \/ Callback

Spec == Init /\ [][Next]_parser_vars

-------------------------------------------------------------------------------
(* Properties                                                              *)

TypeOK ==
  /\ phase \in {"idle", "ini", "load", "parse", "execute"}
  /\ args \in Seq(Tokens) /\ queue \in Seq(DOMAIN args) /\ DOMAIN role = DOMAIN args
  /\ cmd \in Commands /\ target \in Commands \cup {NoCommand}
  /\ {dashed, help, failed} \subseteq BOOLEAN
  /\ DOMAIN value = Parameter /\ exit \in -1 .. 1 /\ runs \in 0 .. Len(MaxTokens)

CommandsUsed == {Root} \cup {role[k][2] : k \in {j \in DOMAIN role : role[j][1] = "command"}}

\* The token read before the one at k: the one in front of it that is not for --ini.
ReadBefore(k) ==
  LET read == {j \in 1 .. k - 1 : role[j][1] \notin {"ini", "file"}}
  IN  CHOOSE j \in read : \A i \in read : i <= j

\* When a callback is called every token has been taken for exactly one thing, and
\* none was refused: a value directly follows an option that wants one, positional
\* arguments fill the parameters from the first, and each command is a subcommand of
\* one named before.
TokensAccounted ==
  /\ TypeOK
  /\ ran # <<>> =>
       /\ \A k \in DOMAIN role : role[k][1] \notin {"none", "unknown", "unexpected", "help"}
       /\ \A k \in DOMAIN role :
            role[k][1] = "value" => IsValue(args[k]) /\ role[ReadBefore(k)] = <<"option", role[k][2]>>
       /\ \A k \in DOMAIN role :
            role[k][1] = "option" /\ args[k].value = NoValue /\ Parameters[role[k][2]].type # "optional"
              => \E j \in DOMAIN role : j > k /\ role[j] = <<"value", role[k][2]>> /\ ReadBefore(j) = k
       /\ \A c \in CommandsUsed : \A n \in 2 .. Len(Positionals(c)) : \A k \in DOMAIN role :
            role[k] = <<"argument", Positionals(c)[n]>> => \E j \in 1 .. k - 1 : role[j] = <<"argument", Positionals(c)[n - 1]>>
       /\ \A c \in CommandsUsed \ {Root} : Parent[c] \in CommandsUsed

\* At most one callback is called, and only when no token was refused, nobody asked
\* for help, the command has all it requires and the commands in front of it their
\* arguments.  Success without a callback means help or a command with nothing to do.
CallbackJustified ==
  /\ Len(ran) <= 1
  /\ ran # <<>> =>
       /\ ~help /\ ~failed
       /\ \A p \in Parameter : Required(p) /\ Parameters[p].command = ran[1] => IsSet(p)
       /\ \A c \in CommandsUsed : \A p \in Entries(Positionals(c)) : Required(p) => IsSet(p)
  /\ exit = 0 => ran # <<>> \/ help \/ (Children(cmd) = {} /\ cmd \notin Callbacks)

Gives(k) == role[k][1] \in {"flag", "value", "argument"} \/ (role[k][1] = "option" /\ args[k].value # NoValue)
GivenText(k) == IF role[k][1] = "option" THEN args[k].value ELSE args[k].text

\* "Command line input still overrides the file": what a callback finds in a parameter
\* is the last value on the command line, else that of the ini file where it can be
\* parsed, else what an earlier run left there.
LastSettingWins ==
  ran # <<>> =>
    \A p \in Parameter :
      LET given == {k \in DOMAIN role : Gives(k) /\ role[k][2] = p}
          last == CHOOSE k \in given : \A j \in given : j <= k
          missing == {k \in DOMAIN role : role[k] = <<"option", p>> /\ args[k].value = NoValue
                                          /\ \A j \in given : j < k}
          file == IF IniFile \in DOMAIN IniFiles THEN IniFiles[IniFile] ELSE <<>>
      IN  value[p] =
            CASE missing # {} -> "nullopt"
              [] missing = {} /\ given # {} -> Held(p, GivenText(last))
              [] missing = {} /\ given = {} /\ p \in DOMAIN file -> IF Accepts(p, file[p]) THEN Held(p, file[p]) ELSE before[p]
              [] OTHER -> before[p]
===============================================================================
