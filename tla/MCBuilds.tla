--------------------------------- MODULE MCBuilds --------------------------------
(***************************************************************************)
(* The programs that Ironveil hides and the ways in which it hides them.   *)
(***************************************************************************)
EXTENDS Integers, SequencesExt

num(n) == <<"num", n>>
list(s) == <<"list", s>>
tree(tag, parts) == list(<<<<"name", tag>>>> \o parts)
word(k) == <<"identifier", <<119, k>>>>

x == tree("id", <<word(1)>>)
y == tree("id", <<word(2)>>)
z == tree("num", <<num(7)>>)
text(k) == tree("str", <<<<"string", <<65, k>>>>>>)
false == tree("bool", <<num(0)>>)
binary(o, a, b) == tree("binary", <<<<"name", o>>, a, b>>)
unary(o, a) == tree("unary", <<<<"name", o>>, a>>)
mini(e) == tree("mini", <<e>>)
member(e, k) == tree("member", <<e, word(k), num(0)>>)
index(e, key) == tree("member", <<e, key, num(1)>>)
call(f, args) == tree("call", <<f, list(args), num(0)>>)
method(e, k, args) == tree("call", <<member(e, k), list(args), num(1)>>)
table(fields) == tree("table", <<list(fields)>>)
function(k) == tree("function", <<num(k)>>)

return(es) == tree("return", <<list(es)>>)
local(ks, es) == tree("local", <<list([i \in DOMAIN ks |-> word(ks[i])]), list(es)>>)
run(e) == tree("expr", <<e>>)
arm(cond, stmts) == list(<<cond, list(stmts)>>)
if(arms) == tree("if", <<list(arms), <<"null">>>>)
ifElse(arms, stmts) == tree("if", <<list(arms), list(stmts)>>)

fn(ks, vararg, stmts) ==
  [params |-> list([i \in DOMAIN ks |-> word(ks[i])]), vararg |-> num(vararg), body |-> list(stmts)]
prog(fns) ==
  [names |-> [k \in 1..4 |-> <<119, k>>], strings |-> [k \in 1..3 |-> <<65, k>>], fns |-> fns]
chunk(stmts) == prog(<<fn(<<>>, 1, stmts)>>)

(* Every operator beside every other, as trees and on stacks.              *)
Operators == <<"<", "==", "..", "+", "-", "*", "%", "^">>

beside(o, operators) ==
  FlattenSeq([k \in DOMAIN operators |->
    LET i == operators[k]
    IN  <<binary(o, x, binary(i, y, z))>>
        \o (IF i = o /\ o \in {"^", ".."} THEN <<>> ELSE <<binary(o, binary(i, x, y), z)>>)])
  \o <<binary(o, unary("-", x), unary("not", y)), binary(o, unary("#", x), unary("-", z))>>

minis(es) == [k \in DOMAIN es |-> mini(es[k])]

Operations ==
  {chunk(<<return(beside(o, Operators \o <<"or", "and">>))>>) : o \in Range(Operators) \cup {"or", "and"}}
  \cup {chunk(<<return(minis(Append(beside(o, Operators), unary("not", binary("==", x, y)))))>>) : o \in Range(Operators)}

(* Calls, fields and mini-expressions as what has a field or is called.    *)
Based ==
  {chunk(<<return(<<member(call(x, <<y>>), 2), call(call(x, <<>>), <<z>>), method(member(call(y, <<>>), 2), 3, <<z>>),
                    member(mini(index(x, text(1))), 3), call(mini(member(x, 2)), <<>>), unary("-", mini(member(x, 2))),
                    binary("+", mini(x), mini(index(y, text(2)))), member(index(x, binary("or", y, z)), 3)>>)>>)}

(* Where the pipeline goes wrong: a prefix on an operation, operators on   *)
(* bits, a method by the first name, a mini-expression as an operand, and  *)
(* bases that would need brackets.                                         *)
Odd ==
  {chunk(<<return(<<e>>)>>) :
     e \in {unary("not", binary("==", x, y)), binary("&", binary("|", x, y), z), mini(unary("-", binary("*", x, y))),
            binary("*", mini(binary("+", x, y)), z), unary("-", mini(binary("+", x, y))),
            member(binary("or", x, y), 3), index(unary("-", x), y), method(text(1), 2, <<z>>), call(text(1), <<>>),
            member(table(<<>>), 3), member(z, 2), mini(index(binary("+", x, y), text(1))), mini(member(text(1), 2)),
            member(mini(binary("..", x, y)), 3)}}
  \cup {chunk(<<run(method(x, 1, <<>>))>>), chunk(<<tree("assign", <<list(<<index(binary("and", x, y), z)>>), list(<<z>>)>>)>>),
        prog(<<fn(<<>>, 1, <<run(call(function(2), <<>>))>>), fn(<<>>, 0, <<>>)>>)}

Statements ==
  {prog(<<fn(<<>>, 1,
     <<local(<<2, 3>>, <<z, text(1)>>), local(<<4>>, <<>>),
       tree("assign", <<list(<<x, member(x, 2), index(y, text(2))>>), list(<<tree("nil", <<>>), tree("vararg", <<>>)>>)>>),
       tree("func", <<num(1), x, num(2)>>), tree("func", <<num(0), member(y, 3), num(3)>>),
       if(<<arm(x, <<run(method(member(y, 2), 3, <<x, z>>))>>), arm(y, <<>>)>>),
       ifElse(<<arm(binary("or", x, y), <<run(call(index(x, y), <<>>))>>)>>, <<return(<<>>)>>)>>),
     fn(<<1, 3>>, 1, <<return(<<function(3), table(<<>>)>>)>>),
     fn(<<>>, 0, <<return(<<mini(index(member(x, 4), text(3))), false>>)>>)>>),
   prog(<<fn(<<>>, 0,
     <<tree("while", <<x, list(<<tree("break", <<>>), tree("do", <<list(<<>>)>>)>>)>>),
       tree("repeat", <<list(<<local(<<3>>, <<function(2)>>)>>), binary("<", x, z)>>),
       tree("fornum", <<word(3), z, x, <<"null">>, list(<<tree("continue", <<>>)>>)>>),
       tree("fornum", <<word(3), z, x, unary("-", z), list(<<>>)>>),
       tree("forin", <<list(<<word(3), word(4)>>), list(<<call(x, <<y>>), y>>), list(<<run(call(x, <<tree("vararg", <<>>)>>))>>)>>),
       return(<<table(<<tree("array", <<x>>), tree("record", <<word(4), z>>), tree("general", <<text(1), y>>)>>)>>)>>),
     fn(<<>>, 1, <<>>)>>)}

(* One fragment, no dead code, tables as they are.                         *)
plainly ==
  [order |-> <<1>>, dead |-> <<>>, listed |-> <<1, 2, 3, 4>>, shown |-> TRUE, exchanged |-> FALSE, stride |-> 1, offset |-> 0,
   salts |-> [dec |-> <<11, 120, 1300, 14>>, decB |-> <<2100, 22>>, def |-> <<31, 32, 33333, 34>>]]

dead(cond) == <<if(<<arm(cond, <<tree("break", <<>>)>>)>>)>>

Ways ==
  {[plainly EXCEPT !.order = order, !.dead = dead(tree("mini", <<list(<<list(<<num(4), num(0)>>)>>)>>))] :
     order \in {<<2, 1, 3>>, <<3, 2, 1>>, <<1, 2, 3, 4>>, <<2, 1, 3, 4>>}}
  \cup {[plainly EXCEPT !.order = <<2, 1>>, !.dead = dead(false), !.stride = stride, !.offset = offset] :
          stride \in {1, 2}, offset \in {0, 2}}
  \cup {[plainly EXCEPT !.shown = FALSE], [plainly EXCEPT !.exchanged = TRUE], [plainly EXCEPT !.listed = <<2, 1, 3, 4>>],
        [plainly EXCEPT !.salts.def = <<11, 32, 33333, 34>>]}

MCCases == ((Operations \cup Based \cup Odd) \X {plainly}) \cup (Statements \X Ways)
===============================================================================
