----------------------------- MODULE Preprocess -----------------------------
(***************************************************************************)
(* src/src/frontend/preprocess.c, pp_macro.c and pp_include.c: directives, *)
(* the stack of conditional groups, inclusion and macro expansion.         *)
(*                                                                         *)
(* pp_process_tokens calls itself for an included file, pp_expand_range    *)
(* and substitute call each other for an argument and for what a macro is  *)
(* replaced by; the active calls are kept in reading and in calls.  One    *)
(* action is one directive, one line, or one token of an expansion.        *)
(*                                                                         *)
(* A token has a kind, a text, which is a sequence of pieces so that ##    *)
(* can join two of them, and a place: "first" on its line, "joined" to the *)
(* token before it, or "apart" from it.  A path is a directory and a name. *)
(***************************************************************************)
EXTENDS Integers, FiniteSets, SequencesExt

CONSTANTS
  Sources,       \* what can be preprocessed: [main |-> path, files |-> path -> tokens, ...]
  SearchPath,    \* pp.include_paths
  Predefined,    \* the macros before the first token is read, -D included
  MaxGroups,     \* conditionals open in one file (64)
  MaxIncludes,   \* MAX_INCLUDE_DEPTH (64)
  Evaluate(_)    \* the value of an expanded #if line, and whether it is ill-formed

NoMacro == <<>>    \* no name is spelled so

Kinds == {"id", "keyword", "num", "str", "punct"}

(* What the lexer hands over: a name has at least one piece. *)
SourceTokens ==
  {t \in [kind : Kinds, text : Seq(STRING), place : {"first", "joined", "apart"}] :
     t.kind = "id" => t.text # NoMacro}

ASSUME SourcesLexed ==
  \A s \in Sources :
    /\ s.main \in DOMAIN s.files
    /\ \A p \in DOMAIN s.files : s.files[p] \in Seq(SourceTokens)
ASSUME PredefinedNamed == NoMacro \notin DOMAIN Predefined
ASSUME LimitsNat == MaxGroups \in Nat /\ MaxIncludes \in Nat

VARIABLES
  source,      \* the files
  macros,      \* pp.macros: name -> macro
  expanding,   \* the names whose macro has expanding set
  once,        \* pp.once_files
  reading,     \* active calls of pp_process_tokens, innermost last
  calls,       \* active calls of pp_expand_range and substitute, innermost last
  output,      \* the tokens for the parser
  failed       \* an error has been reported

vars == <<source, macros, expanding, once, reading, calls, output, failed>>

-----------------------------------------------------------------------------
(* Tokens *)

Is(t, s)  == t.kind = "punct" /\ t.text = <<s>>
IsId(t)   == t.kind = "id"
Texts(ts) == FlattenSeq([k \in DOMAIN ts |-> ts[k].text])

(* paste_tokens: the joined text is lexed again, which makes one token of  *)
(* a name and what can go on with it, and two of anything else.            *)
Joined(l, r) ==
  IF {l.kind, r.kind} \subseteq {"id", "num"} /\ (l.kind = "num" => r.kind = "num")
    THEN <<[l EXCEPT !.text = @ \o r.text]>>
    ELSE <<l, r>>

(* Slip: the two stay two tokens. *)
BesideIt(out, t) == Append(out, t)

PasteOnto(out, t) == IF out = <<>> THEN <<t>> ELSE Front(out) \o Joined(Last(out), t)

StartsLine(t) == t.place = "first"

(* The first position from k on where a line starts. *)
LineEnd(ts, k) == Min({j \in k .. Len(ts) : StartsLine(ts[j])} \cup {Len(ts) + 1})

-----------------------------------------------------------------------------
(* Activations *)

FileCall(path) == [path |-> path, at |-> 1, groups |-> <<>>, active |-> TRUE]

(* pp_expand_range of ts; what for decides what becomes of the result.     *)
Expansion(ts, for, macro) ==
  [do |-> "expand", for |-> for, macro |-> macro, args |-> <<>>, tokens |-> ts, at |-> 1, out |-> <<>>]

(* substitute: the body of a macro, with arguments. *)
Substitution(macro, args) ==
  [do |-> "substitute", for |-> "rescan", macro |-> macro, args |-> args,
   tokens |-> macros[macro].body, at |-> 1, out |-> <<>>]

Here   == Last(reading)
Tokens == source.files[Here.path]
Top    == Last(calls)

Scanning == calls = <<>> /\ reading # <<>> /\ Here.at <= Len(Tokens)
OnHash   == LET t == Tokens[Here.at] IN Is(t, "#") /\ StartsLine(t)

ReadOn(file) == reading' = Append(Front(reading), file)
Innermost(call) == calls' = Append(Front(calls), call)

tableVars == <<source, macros, expanding, once>>

Init ==
  /\ source \in Sources
  /\ macros = Predefined
  /\ expanding = {} /\ once = {}
  /\ reading = <<FileCall(source.main)>>
  /\ calls = <<>> /\ output = <<>> /\ failed = FALSE

-----------------------------------------------------------------------------
(* Text *)

TextLine ==
  /\ Scanning /\ ~ OnHash /\ Here.active
  /\ LET end == LineEnd(Tokens, Here.at + 1)
     IN /\ calls' = <<Expansion(SubSeq(Tokens, Here.at, end - 1), "line", NoMacro)>>
        /\ ReadOn([Here EXCEPT !.at = end])
  /\ UNCHANGED <<tableVars, output, failed>>

(* Slip: the position is not moved on. *)
StayAtToken ==
  /\ Scanning /\ ~ OnHash /\ ~ Here.active
  /\ UNCHANGED vars

SkipToken ==
  /\ Scanning /\ ~ OnHash /\ ~ Here.active
  /\ ReadOn([Here EXCEPT !.at = @ + 1])
  /\ UNCHANGED <<tableVars, calls, output, failed>>

-----------------------------------------------------------------------------
(* Directives *)

(* directive_end does not look at the token after the #. *)
DirectiveEnd == LineEnd(Tokens, Here.at + 2)
Words        == SubSeq(Tokens, Here.at + 1, DirectiveEnd - 1)
Args         == Tail(Words)

OnDirective   == Scanning /\ OnHash
Directive(ns) == OnDirective /\ Words # <<>> /\ Words[1].text \in {<<n>> : n \in ns}

Past == [Here EXCEPT !.at = DirectiveEnd]

(* The directive is over and changes nothing, but for an error reported. *)
Ignored(isError) ==
  /\ ReadOn(Past)
  /\ failed' = (failed \/ isError)
  /\ UNCHANGED <<tableVars, calls, output>>

BareHash ==
  /\ OnDirective /\ Words = <<>>
  /\ Ignored(FALSE)

Opening == {"if", "ifdef", "ifndef"}

Group(active, taken) == [active |-> active, taken |-> taken, seenElse |-> FALSE]

Enter(file, active, condition) ==
  [file EXCEPT !.groups = Append(@, Group(active, condition)), !.active = active /\ condition]

OpenTooDeep ==
  /\ Directive(Opening) /\ Len(Here.groups) >= MaxGroups
  /\ Ignored(TRUE)

OpenSkipped ==
  /\ Directive(Opening) /\ Len(Here.groups) < MaxGroups /\ ~ Here.active
  /\ ReadOn(Enter(Past, FALSE, FALSE))
  /\ UNCHANGED <<tableVars, calls, output, failed>>

OpenIfdef ==
  /\ Directive({"ifdef", "ifndef"}) /\ Len(Here.groups) < MaxGroups /\ Here.active
  /\ LET defined == Args # <<>> /\ IsId(Args[1]) /\ Args[1].text \in DOMAIN macros
     IN ReadOn(Enter(Past, TRUE, defined <=> Words[1].text = <<"ifdef">>))
  /\ failed' = (failed \/ Args = <<>>)
  /\ UNCHANGED <<tableVars, calls, output>>

(* resolve_defined: `defined X` and `defined(X)` are decided before the    *)
(* line is expanded.  From k on: the tokens left, and whether one is wrong. *)
Truth(name) == [kind |-> "num", text |-> <<IF name \in DOMAIN macros THEN "1" ELSE "0">>,
                place |-> "apart"]

ResolveDefined(ts) ==
  LET Has(k, s) == k <= Len(ts) /\ Is(ts[k], s)
      resolved[k \in 1 .. Len(ts) + 1] ==
        IF k > Len(ts) THEN [tokens |-> <<>>, bad |-> FALSE]
        ELSE IF ~ (IsId(ts[k]) /\ ts[k].text = <<"defined">>)
          THEN [resolved[k + 1] EXCEPT !.tokens = <<ts[k]>> \o @]
        ELSE LET open  == Has(k + 1, "(")
                 j     == IF open THEN k + 2 ELSE k + 1
                 named == j <= Len(ts) /\ IsId(ts[j])
                 after == IF named THEN j + 1 ELSE j
                 shut  == Has(after, ")")
                 rest  == resolved[IF open /\ shut THEN after + 1 ELSE after]
             IN [tokens |-> <<Truth(IF named THEN ts[j].text ELSE NoMacro)>> \o rest.tokens,
                 bad |-> rest.bad \/ ~ named \/ (open /\ ~ shut)]
  IN resolved[1]

(* pp_evaluate_condition begins: its line is expanded first. *)
Evaluating(for) ==
  LET line == ResolveDefined(Args)
  IN /\ calls' = <<Expansion(line.tokens, for, NoMacro)>>
     /\ failed' = (failed \/ line.bad)
     /\ ReadOn(Past)
     /\ UNCHANGED <<tableVars, output>>

OpenIf ==
  /\ Directive({"if"}) /\ Len(Here.groups) < MaxGroups /\ Here.active
  /\ Evaluating("if")

InGroup   == Here.groups # <<>> /\ ~ Last(Here.groups).seenElse

MisplacedElse ==
  /\ Directive({"elif", "else"}) /\ ~ InGroup
  /\ Ignored(TRUE)

(* Slip: whether a branch was taken is not looked at. *)
ElseAlways ==
  /\ Directive({"else"}) /\ InGroup
  /\ LET g == Last(Here.groups)
     IN ReadOn([Past EXCEPT !.groups = Append(Front(@), [g EXCEPT !.seenElse = TRUE, !.taken = TRUE]),
                            !.active = g.active])
  /\ UNCHANGED <<tableVars, calls, output, failed>>

Else ==
  /\ Directive({"else"}) /\ InGroup
  /\ LET g == Last(Here.groups)
     IN ReadOn([Past EXCEPT !.groups = Append(Front(@), [g EXCEPT !.seenElse = TRUE, !.taken = TRUE]),
                            !.active = g.active /\ ~ g.taken])
  /\ UNCHANGED <<tableVars, calls, output, failed>>

CanBeTaken == Last(Here.groups).active /\ ~ Last(Here.groups).taken

ElifSkipped ==
  /\ Directive({"elif"}) /\ InGroup /\ ~ CanBeTaken
  /\ ReadOn([Past EXCEPT !.active = FALSE])
  /\ UNCHANGED <<tableVars, calls, output, failed>>

Elif ==
  /\ Directive({"elif"}) /\ InGroup /\ CanBeTaken
  /\ Evaluating("elif")

Endif ==
  /\ Directive({"endif"}) /\ Here.groups # <<>>
  /\ ReadOn([Past EXCEPT !.groups = Front(@), !.active = Last(Here.groups).active])
  /\ UNCHANGED <<tableVars, calls, output, failed>>

StrayEndif ==
  /\ Directive({"endif"}) /\ Here.groups = <<>>
  /\ Ignored(TRUE)

Conditional == Opening \cup {"elif", "else", "endif"}
Known == {"define", "undef", "include", "pragma", "error", "warning", "line"}

SkipDirective ==
  /\ OnDirective /\ Words # <<>> /\ ~ Directive(Conditional) /\ ~ Here.active
  /\ Ignored(FALSE)

(* define_macro: the parameters are the names up to the parenthesis, which *)
(* belongs to the macro only where nothing separates it from the name.     *)
MacroFrom(ws) ==
  LET isFunction == Len(ws) >= 2 /\ Is(ws[2], "(") /\ ws[2].place = "joined"
      close == Min({k \in 3 .. Len(ws) : Is(ws[k], ")")} \cup {Len(ws) + 1})
      params == SelectSeq(SubSeq(ws, 3, close - 1), IsId)
  IN IF isFunction
       THEN [isFunction |-> TRUE, params |-> [k \in DOMAIN params |-> params[k].text],
             body |-> SubSeq(ws, close + 1, Len(ws))]
       ELSE [isFunction |-> FALSE, params |-> <<>>, body |-> Tail(ws)]

(* Anything but names and commas among the parameters is an error. *)
IllFormedParams(ws) ==
  /\ MacroFrom(ws).isFunction
  /\ \E k \in 3 .. Len(ws) : /\ \A j \in 3 .. k : ~ Is(ws[j], ")")
                             /\ ~ IsId(ws[k]) /\ ~ Is(ws[k], ",")

Named == Args # <<>> /\ IsId(Args[1])

Define ==
  /\ Directive({"define"}) /\ Here.active /\ Named
  /\ macros' = [name \in DOMAIN macros \cup {Args[1].text} |->
                  IF name = Args[1].text THEN MacroFrom(Args) ELSE macros[name]]
  /\ failed' = (failed \/ IllFormedParams(Args))
  /\ ReadOn(Past)
  /\ UNCHANGED <<source, expanding, once, calls, output>>

Undef ==
  /\ Directive({"undef"}) /\ Here.active /\ Named
  /\ macros' = [name \in DOMAIN macros \ {Args[1].text} |-> macros[name]]
  /\ ReadOn(Past)
  /\ UNCHANGED <<source, expanding, once, calls, output, failed>>

Nameless ==
  /\ Directive({"define", "undef"}) /\ Here.active /\ ~ Named
  /\ Ignored(TRUE)

PragmaOnce ==
  /\ Directive({"pragma"}) /\ Here.active /\ Args # <<>> /\ Args[1].text = <<"once">>
  /\ once' = once \cup {Here.path}
  /\ ReadOn(Past)
  /\ UNCHANGED <<source, macros, expanding, calls, output, failed>>

(* #error is reported, and so is a directive nobody knows. *)
OtherDirective ==
  /\ OnDirective /\ Words # <<>> /\ ~ Directive(Conditional) /\ Here.active
  /\ \/ ~ Directive(Known) \/ Directive({"error", "warning", "line"})
     \/ Directive({"pragma"}) /\ ~ (Args # <<>> /\ Args[1].text = <<"once">>)
  /\ Ignored(~ Directive(Known \ {"error"}))

-----------------------------------------------------------------------------
(* Inclusion *)

(* pp_resolve_include: beside the including file first when quoted.        *)
Candidates(name, angled) ==
  (IF angled THEN <<>> ELSE << <<Here.path[1], name>> >>) \o
  [k \in DOMAIN SearchPath |-> <<SearchPath[k], name>>]

Found(name, angled) ==
  LET c      == Candidates(name, angled)
      exists == {k \in DOMAIN c : c[k] \in DOMAIN source.files}
  IN {c[k] : k \in {j \in exists : \A e \in exists : j <= e}}

IsQuoted == Args # <<>> /\ Args[1].kind = "str"
IsAngled == Args # <<>> /\ Is(Args[1], "<") /\ \E k \in DOMAIN Args : Is(Args[k], ">")

AngledName ==
  Texts(SubSeq(Args, 2, Min({k \in DOMAIN Args : Is(Args[k], ">")}) - 1))

Included ==
  IF IsQuoted THEN Found(Args[1].text, FALSE)
  ELSE IF IsAngled THEN Found(AngledName, TRUE) ELSE {}

(* Slip: the file being read is not counted. *)
OneMoreOpen == Len(reading) > MaxIncludes + 1

TooManyOpen == Len(reading) > MaxIncludes

(* pp_include_file: its tokens come before what is left of this file.      *)
Include ==
  /\ Directive({"include"}) /\ Here.active /\ ~ TooManyOpen
  /\ \E p \in Included \ once : reading' = Append(Front(reading), Past) \o <<FileCall(p)>>
  /\ UNCHANGED <<tableVars, calls, output, failed>>

IncludeNothing ==
  /\ Directive({"include"}) /\ Here.active
  /\ TooManyOpen \/ Included \subseteq once
  /\ Ignored(TooManyOpen \/ Included = {})

EndOfFile ==
  /\ calls = <<>> /\ reading # <<>> /\ Here.at > Len(Tokens)
  /\ reading' = Front(reading)
  /\ failed' = (failed \/ Here.groups # <<>>)
  /\ UNCHANGED <<tableVars, calls, output>>

-----------------------------------------------------------------------------
(* pp_expand_range *)

Busy(what) == calls # <<>> /\ Top.do = what /\ Top.at <= Len(Top.tokens)
Token      == Top.tokens[Top.at]

IsFollowedBy(s) == Top.at < Len(Top.tokens) /\ Is(Top.tokens[Top.at + 1], s)

(* A name is replaced unless its expansion is in progress, and the name of *)
(* a function-like macro only before a parenthesis.                        *)
IsReplaced(isFunction) ==
  /\ IsId(Token) /\ Token.text \in DOMAIN macros \ expanding
  /\ macros[Token.text].isFunction = isFunction
  /\ isFunction => IsFollowedBy("(")

CopyToken ==
  /\ Busy("expand") /\ ~ IsReplaced(TRUE) /\ ~ IsReplaced(FALSE)
  /\ Innermost([Top EXCEPT !.out = Append(@, Token), !.at = @ + 1])
  /\ UNCHANGED <<tableVars, reading, output, failed>>

(* collect_arguments, from the parenthesis at open: split at the commas    *)
(* that are not inside parentheses of their own.                           *)
Collected(ts, open, expected) ==
  LET Depth(j) == Cardinality({k \in open .. j : Is(ts[k], "(")})
                  - Cardinality({k \in open .. j : Is(ts[k], ")")})
      closing == {j \in open .. Len(ts) : Depth(j) = 0}
      close   == Min(closing \cup {Len(ts) + 1})
      commas  == {j \in open .. close - 1 : Is(ts[j], ",") /\ Depth(j) = 1}
      bounds  == <<open>> \o SetToSortSeq(commas, <) \o <<close>>
      args    == [k \in 1 .. Len(bounds) - 1 |-> SubSeq(ts, bounds[k] + 1, bounds[k + 1] - 1)]
  IN [args |-> IF expected = 0 /\ args = << <<>> >> THEN <<>> ELSE args,
      next |-> Min({close + 1, Len(ts) + 1})]

Replacing(args, next) ==
  /\ expanding' = expanding \cup {Token.text}
  /\ calls' = Append(Front(calls), [Top EXCEPT !.at = next]) \o <<Substitution(Token.text, args)>>
  /\ UNCHANGED <<source, macros, once, reading, output>>

ReplaceName ==
  /\ Busy("expand") /\ IsReplaced(FALSE)
  /\ Replacing(<<>>, Top.at + 1)
  /\ UNCHANGED failed

ReplaceCall ==
  /\ Busy("expand") /\ IsReplaced(TRUE)
  /\ LET expected == Len(macros[Token.text].params)
         call     == Collected(Top.tokens, Top.at + 1, expected)
     IN /\ Replacing(call.args, call.next)
        /\ failed' = (failed \/ Len(call.args) # expected)

-----------------------------------------------------------------------------
(* substitute *)

Params == macros[Top.macro].params

(* macro_param_index compares the text only; 0 when it is no parameter. *)
ParamIndex(t) == SelectInSeq(Params, LAMBDA p : p = t.text)
NextParam == ParamIndex(Top.tokens[Top.at + 1])

Argument(k) == IF k \in DOMAIN Top.args THEN Top.args[k] ELSE <<>>

OnStringize == /\ Is(Token, "#") /\ macros[Top.macro].isFunction
               /\ Top.at < Len(Top.tokens) /\ NextParam > 0
OnPaste     == Is(Token, "##") /\ Top.at < Len(Top.tokens)
OnParam     == IsId(Token) /\ ParamIndex(Token) > 0

Substitutes(out, n) ==
  /\ Innermost([Top EXCEPT !.out = out, !.at = @ + n])
  /\ UNCHANGED <<tableVars, reading, output, failed>>

Stringize ==
  /\ Busy("substitute") /\ OnStringize
  /\ LET literal == [kind |-> "str", text |-> Texts(Argument(NextParam)), place |-> "apart"]
     IN Substitutes(Append(Top.out, literal), 2)

(* A parameter after ## stands for its argument as it was written.         *)
Paste ==
  /\ Busy("substitute") /\ OnPaste
  /\ LET right == IF NextParam \in DOMAIN Top.args THEN Argument(NextParam)
                                                   ELSE <<Top.tokens[Top.at + 1]>>
     IN Substitutes(IF right = <<>> THEN Top.out ELSE PasteOnto(Top.out, right[1]) \o Tail(right), 2)

(* Any other parameter stands for its argument expanded. *)
SubstituteParam ==
  /\ Busy("substitute") /\ ~ OnStringize /\ ~ OnPaste /\ OnParam
  /\ calls' = Append(Front(calls), [Top EXCEPT !.at = @ + 1]) \o
                <<Expansion(Argument(ParamIndex(Token)), "argument", NoMacro)>>
  /\ UNCHANGED <<tableVars, reading, output, failed>>

CopyFromBody ==
  /\ Busy("substitute") /\ ~ OnStringize /\ ~ OnPaste /\ ~ OnParam
  /\ Substitutes(Append(Top.out, Token), 1)

-----------------------------------------------------------------------------
(* Returns *)

Returns(what, for) ==
  calls # <<>> /\ Top.do = what /\ Top.for = for /\ Top.at > Len(Top.tokens)

(* What a macro was replaced by is scanned again. *)
Rescan ==
  /\ Returns("substitute", "rescan")
  /\ Innermost(Expansion(Top.out, "rescan", Top.macro))
  /\ UNCHANGED <<tableVars, reading, output, failed>>

ToCaller ==
  LET caller == calls[Len(calls) - 1]
  IN calls' = Append(Front(Front(calls)), [caller EXCEPT !.out = @ \o Top.out])

ReturnArgument ==
  /\ Returns("expand", "argument")
  /\ ToCaller
  /\ UNCHANGED <<tableVars, reading, output, failed>>

(* Slip: the macro stays marked. *)
ReturnMarked ==
  /\ Returns("expand", "rescan")
  /\ ToCaller
  /\ UNCHANGED <<tableVars, reading, output, failed>>

ReturnReplacement ==
  /\ Returns("expand", "rescan")
  /\ ToCaller
  /\ expanding' = expanding \ {Top.macro}
  /\ UNCHANGED <<source, macros, once, reading, output, failed>>

ReturnLine ==
  /\ Returns("expand", "line")
  /\ output' = output \o Top.out
  /\ calls' = <<>>
  /\ UNCHANGED <<tableVars, reading, failed>>

(* cond_expression over the expanded line decides the group. *)
ConditionKnown ==
  /\ Returns("expand", "if") \/ Returns("expand", "elif")
  /\ LET value == Evaluate(Top.out)
         holds == value.val # 0
         g     == Last(Here.groups)
     IN /\ ReadOn(IF Top.for = "if" THEN Enter(Here, TRUE, holds)
                  ELSE [Here EXCEPT !.active = holds,
                                    !.groups = Append(Front(@), [g EXCEPT !.taken = holds])])
        /\ failed' = (failed \/ value.bad)
  /\ calls' = <<>>
  /\ UNCHANGED <<tableVars, output>>

-----------------------------------------------------------------------------
Done == reading = <<>>

Directives ==
  \/ BareHash \/ OpenTooDeep \/ OpenSkipped \/ OpenIfdef \/ OpenIf
  \/ MisplacedElse \/ Else \/ ElifSkipped \/ Elif \/ Endif \/ StrayEndif
  \/ SkipDirective \/ Define \/ Undef \/ Nameless \/ PragmaOnce \/ OtherDirective
  \/ Include \/ IncludeNothing

Expands ==
  \/ CopyToken \/ ReplaceName \/ ReplaceCall
  \/ Stringize \/ Paste \/ SubstituteParam \/ CopyFromBody
  \/ Rescan \/ ReturnArgument \/ ReturnReplacement \/ ReturnLine \/ ConditionKnown

Finished == Done /\ UNCHANGED vars

Next == TextLine \/ SkipToken \/ Directives \/ EndOfFile \/ Expands \/ Finished

(* One thread preprocesses, and nothing else runs meanwhile. *)
Spec == Init /\ [][Next]_vars /\ WF_vars(Next)

-----------------------------------------------------------------------------
TokenSeqOK(ts) == \A k \in DOMAIN ts : ts[k].kind \in Kinds

(* The stacks stay within their arrays and limits, positions within their  *)
(* files, and a macro being replaced is still defined.                     *)
StacksFit ==
  /\ expanding \subseteq DOMAIN macros
  /\ once \subseteq DOMAIN source.files
  /\ Len(reading) <= MaxIncludes + 1
  /\ \A k \in DOMAIN reading : /\ reading[k].path \in DOMAIN source.files
                              /\ reading[k].at \in 1 .. Len(source.files[reading[k].path]) + 1
                              /\ Len(reading[k].groups) <= MaxGroups
  /\ \A k \in DOMAIN calls : calls[k].macro \in DOMAIN macros \cup {NoMacro}

TypeOK ==
  /\ StacksFit
  /\ \A k \in DOMAIN calls : TokenSeqOK(calls[k].tokens) /\ TokenSeqOK(calls[k].out)
  /\ TokenSeqOK(output)
  /\ failed \in BOOLEAN

(***************************************************************************)
(* A macro is marked exactly while a call that replaces it is active, and  *)
(* no macro is being replaced twice: that is all that ends an expansion,   *)
(* and a mark that outlived its call would disable the macro for the rest  *)
(* of the translation unit.                                                *)
(***************************************************************************)
MarksFollowCalls ==
  /\ expanding = {calls[k].macro : k \in DOMAIN calls} \ {NoMacro}
  /\ \A j, k \in DOMAIN calls : calls[j].macro = calls[k].macro /\ calls[j].macro # NoMacro => j = k

(***************************************************************************)
(* Preprocessing ends, though macros mention themselves and each other and *)
(* files include themselves.                                               *)
(***************************************************************************)
PreprocessingEnds == <>Done
=============================================================================
