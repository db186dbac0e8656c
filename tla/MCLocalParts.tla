----------------------------- MODULE MCLocalParts -----------------------------
EXTENDS LocalParts, TLC

CONSTANTS a, b, c, p, q, e1, e2, m1, m2, s1, x1, x2, codex, vllm, u1, u2, q1, q2, r1, r2, token, other,
          t1, t2, t3, t4

TwoProcesses == {p, q}
ThreeAccounts == {a, b, c}
Shown == [x \in ThreeAccounts |-> IF x = b THEN "m" ELSE "n"]
VaultAB == [accounts |-> <<a, b>>, active |-> a, auto |-> FALSE]

TwoEditors == {e1, e2}
TwoKeys == {1, 2}
TwoModels == {m1, m2}
Provider(kind, models, learning) ==
    [kind |-> kind, models |-> models, learning |-> learning, enabled |-> TRUE]
SomeEntries == {Provider("openai", {m1}, FALSE), Provider("command-code", {m1, m2}, TRUE)}
OneDeclared == 1 :> Provider("openai", {m1}, FALSE)

OneServer == {s1}
TwoPreferences == {x1, x2}

SomeLengths == {1, 2, 3}

TwoHarnesses == {codex, vllm}
TwoSettings == {u1, u2}
SomeConfigs ==
    { Object([theme |-> Leaf("dark"), provider |-> Object([other |-> Leaf("p")])]),
      Object([provider |-> Object([command_code |-> Object([
                  baseURL |-> Leaf("old"), models |-> Object([mine |-> Leaf("name")])])]),
              mcp |-> Object([db |-> Leaf("on"), cmdcode_taste |-> Object([
                  command |-> Array(<<"old">>), env |-> Leaf("e")])])]),
      Object([provider |-> Null, mcp |-> Leaf("off")]),
      Array(<<"a">>) }

TwoConnections == {q1, q2}

TwoRequests == {r1, r2}
TwoCredentials == {token, other}

FourTurns == {t1, t2, t3, t4}
=============================================================================
