---------------------------- MODULE MCBlockLayout ----------------------------
EXTENDS BlockLayout

MCOperands == 1 .. 8

\* Operand 8 is a column; instruction k writes operand k, as lowering does it.
Column == 8
Aligned(k, args) == [op |-> "aligned", result |-> k, args |-> args]
Integrate(k, v) == [op |-> "integrate", result |-> k, args |-> <<v>>]
Died(k, v) == [op |-> "diedValue", result |-> k, args |-> <<v>>]

Scalars(body) ==
  {body[k].result : k \in {j \in DOMAIN body : body[j].op # "aligned"}}

Block(body, prologue, included) ==
  [vectors  |-> {body[k].result : k \in DOMAIN body} \ Scalars(body),
   loaded   |-> {Column},
   prologue |-> prologue,
   body     |-> body,
   outputs  |-> Scalars(body),
   grid     |-> {Column},
   included |-> included]

\* Every body of four instructions, each reading what was written before it,
\* followed by one that collapses a vector.
Finals(k) ==
  {Integrate(k, a) : a \in 1 .. k - 1} \union {Died(k, a) : a \in 1 .. k - 1}

Choices(k) ==
  {Aligned(k, <<>>)} \union {Aligned(k, <<a>>) : a \in 1 .. k - 1} \union Finals(k)
  \union {Aligned(k, <<p[1], p[2]>>) :
            p \in {q \in (1 .. k - 1) \X (1 .. k - 1) : q[1] < q[2]}}

Bodies ==
  {<<a, b, c, d, e>> : a \in Choices(1), b \in Choices(2), c \in Choices(3),
                       d \in Choices(4), e \in Finals(5)}

\* A chain, two arms live at once, and an A/E/V under an include whose prologue
\* also computes something nothing reads.
Chain ==
  <<Aligned(1, <<8>>), Aligned(2, <<1>>), Aligned(3, <<2>>), Aligned(4, <<3>>), Integrate(5, 4)>>
Arms ==
  <<Aligned(1, <<>>), Aligned(2, <<1, 8>>), Aligned(3, <<1>>), Aligned(4, <<2, 3>>), Integrate(5, 4)>>
Aev ==
  <<Aligned(1, <<8>>), Died(2, 1), Aligned(3, <<8, 6>>), Aligned(4, <<3, 2>>), Integrate(5, 4)>>
Include == <<Aligned(7, <<8>>), Aligned(6, <<8, 7>>)>>
Spare == <<Aligned(7, <<8>>)>>

\* Scalars only, with no grid; and a scalar between two integrals.
Timeless ==
  [Block(<<Aligned(1, <<8>>), Aligned(2, <<1, 8>>)>>, <<>>, 0) EXCEPT
     !.vectors = {}, !.outputs = {2}, !.grid = {}]
Scaled ==
  [Block(<<Aligned(1, <<8>>), Integrate(2, 1), Aligned(3, <<2, 8>>), Aligned(4, <<3, 1>>),
           Integrate(5, 4)>>, <<>>, 0) EXCEPT !.vectors = {1, 4}, !.outputs = {2, 5}]

Plain == Block(Arms, <<>>, 0)

\* What a pass that went wrong could hand over.
Broken ==
  {[Plain EXCEPT !.body[3].result = 2],          \* written twice
   [Plain EXCEPT !.body[2].args = <<3>>],        \* read before it is written
   [Plain EXCEPT !.body[3].args = <<3>>],        \* or by what writes it
   [Plain EXCEPT !.outputs = {4}],               \* an output over time
   [Plain EXCEPT !.loaded = {8, 1}],             \* bound to a column
   [Plain EXCEPT !.prologue = <<Aligned(1, <<>>)>>],
   [Plain EXCEPT !.prologue = <<Aligned(6, <<1>>)>>],
   [Plain EXCEPT !.vectors = {1, 2, 3, 4, 7}],   \* written by nothing
   [Plain EXCEPT !.body[5] = Aligned(5, <<4>>)]} \* a scalar that reads one

MCBlockSet ==
  {b \in {Block(body, <<>>, 0) : body \in Bodies} \union Broken : ScalarsInOrder(b)}
  \union {Plain, Timeless, Scaled, Block(Chain, <<>>, 0), Block(Chain, Spare, 0),
          Block(Aev, Include, 6), Block(Aev, Include, 0)}
=============================================================================
