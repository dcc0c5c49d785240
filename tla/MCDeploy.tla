------------------------------ MODULE MCDeploy ------------------------------
(* Two releases whose names collide, one of which may be that of a running    *)
(* stack, next to the stack of the controller.                                *)
EXTENDS Deploy

CONSTANTS a, ab, ctl,      \* stacks "a", "a_b" and the controller's
          vol,             \* volume "a_b_data"
          sx, token,       \* secret "a_b_x", the mounted token
          net, cnet,       \* network "a_n", and one of the controller's stack
          vx, vc           \* service "a_b_x", and the controller's

StacksDef == {a, ab, ctl}
NamesDef == {sx, net, cnet, token, vol}
KindDef == [n \in NamesDef |-> CASE n \in {net, cnet} -> "network" [] n = vol -> "volume" [] OTHER -> "secret"]
UnderDef == [n \in NamesDef |-> CASE n \in {sx, vol} -> {a, ab} [] n = net -> {a}
                               [] n = cnet -> {ctl} [] OTHER -> {}]
AllowDef == [s \in StacksDef |-> CASE s = a -> {token} [] s = ab -> {sx} [] OTHER -> {}]
RunsDef == [s \in StacksDef |-> IF s = ctl THEN {vc} ELSE {vx}]
ChartOf(declares, external) == [declares |-> declares, external |-> external, driven |-> {}]
OptionsDef == [s \in StacksDef |->
    CASE s = a -> {ChartOf({sx, net}, {}), ChartOf({token}, {})}
      [] s = ab -> {ChartOf({sx}, {})}
      [] OTHER -> {ChartOf({cnet}, {token})}]
CollideDef == {<<a, ab>>, <<ab, a>>}
SelfDef == {ctl}
=============================================================================
