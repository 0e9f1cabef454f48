----------------------------- MODULE MCCompile -----------------------------
EXTENDS Compile

CONSTANTS
  nu, tau, dd,                                    \* the exposure's columns
  born, retired, sex, pension, member, quality,   \* and the others
  steady, gappy,
  M, F, U                                         \* texts

MCOperands == 1 .. 80

Half == One \div 2
Missing == FirstClick - 100

MCColumnTypes ==
  nu :> "datey" @@ tau :> "datey" @@ dd :> "bool" @@ born :> "datey" @@ retired :> "datey"
  @@ sex :> "category" @@ pension :> "double" @@ member :> "double" @@ quality :> "double"
  @@ steady :> "double" @@ gappy :> "double"
MCLevels == M :> 0 @@ F :> 1

\* Half as deadly, or a quarter, at some ages.
MCTableLogMu == [age \in Ages |-> -One * (age % 3)]

Person(n, t, d, b, r, s, p, m, q) ==
  nu :> n @@ tau :> t @@ dd :> d @@ born :> b @@ retired :> r @@ sex :> s @@ pension :> p
  @@ member :> m @@ quality :> q @@ steady :> 2 * One @@ gappy :> (IF m = 0 THEN NaN ELSE One)

People ==
  {Person(11, 16, 1, 10, 13, 0, One, One, Half),
   Person(10, 14, 0, 10, 20, 1, 2 * One, 0, One),
   Person(12, 13, 1, 11, Missing, 0, Half, One, Half),
   Person(10, 20, 1, 12, 11, 1, One, 0, 0)}

TheExposure == [given |-> TRUE, start |-> nu, end |-> tau, died |-> dd, scale |-> 2]
NoInclude == [given |-> FALSE, terms |-> <<>>]
Gated(e) == [kind |-> "gate", node |-> e, from |-> 0, to |-> 0]
Around(e, a, b) == [kind |-> "offset", node |-> e, from |-> a, to |-> b]
Between(a, b) == [kind |-> "absolute", node |-> Nth(1), from |-> a, to |-> b]
Include(terms) == [given |-> TRUE, terms |-> terms]

MCBeta == <<Half, One, 0>>
Number1(x) == Lit("double", x)
Table == Call("vector_log_mu", <<Obj(1), Field(born)>>)

Job(recipe, expressions, form, disjoint, inc, integrals) ==
  [recipe |-> recipe, expressions |-> expressions, form |-> form, disjoint |-> disjoint,
   include |-> inc, exposure |-> TheExposure, data |-> People, beta |-> MCBeta,
   integrals |-> integrals]

Plain2(op, x, y) == Call(op, <<x, y>>)
Male == Plain2("EQ", Field(sex), Lit("text", M))
Female == Plain2("EQ", Field(sex), Lit("text", F))
Is(x) == Plain2("EQ", Field(member), Number1(x))
Age == Plain2("sub", Time, Field(born))
YearsOld == Plain2("mul", Age, Number1(One))
Retired == Plain2("GE", Time, Field(retired))
HasRetired == Call("not", <<Call("is_na", <<Field(retired)>>)>>)
Pick(c, x, y) == Call("select", <<c, x, y>>)

Aev(weight, inc, n) == Job("aev", <<Table, weight>>, "none", FALSE, inc, n)
AevBy(weight, form, x, n) == Job("aev", <<Table, weight, x>>, form, FALSE, NoInclude, n)
Fit(terms, weight, disjoint, n) ==
  Job("fit", <<Table>> \o terms \o <<weight>>, "none", disjoint, NoInclude, n)

Aevs ==
  <<Aev(Number1(One), NoInclude, 1),
    Aev(Male, NoInclude, 1),
    Aev(Retired, NoInclude, 1),
    Aev(Plain2("mul", Male, Retired), NoInclude, 1),
    Aev(Plain2("mul", Field(member), Field(pension)), NoInclude, 1),
    Aev(Plain2("mul", Male, Age), NoInclude, 2),
    Aev(Field(quality), NoInclude, 1),
    AevBy(Field(pension), "relevance", Field(quality), 1),
    AevBy(Male, "distance", Field(quality), 1)>>

Included1 == Include(<<Gated(Female), Gated(Is(0)), Around(Field(born), 1, 6), Between(12, 17)>>)
Included2 == Include(<<Around(Field(retired), -2, 3)>>)
Included3 == Include(<<Gated(HasRetired), Around(Field(born), 2, 4), Around(Field(retired), -9, 0)>>)

Early == Plain2("LT", Field(retired), Number1(13 * Half))

Includes ==
  <<Aev(Number1(One), Included1, 1), Aev(YearsOld, Included2, 2), Aev(Male, Included3, 1),
    Aev(Male, Include(<<>>), 1),
    Aev(Pick(HasRetired, Field(pension), Field(steady)),
        Include(<<Gated(Plain2("or", Female, HasRetired)), Gated(Call("not", <<Early>>))>>), 1)>>

\* Terms that are an indicator each, two whose product is nothing, and one over time.
YearsPast == Call("clamp", <<Plain2("sub", Time, Field(retired)), Lit("durationy", 0), Lit("durationy", 4)>>)

Fits ==
  <<Fit(<<Number1(One)>>, Number1(One), FALSE, 1),
    Fit(<<Male, Female>>, Number1(One), FALSE, 1),
    Fit(<<Male, Female>>, Field(pension), TRUE, 1),
    Fit(<<Male, Plain2("mul", Female, Retired), YearsOld>>, Is(One), FALSE, 5),
    [Fit(<<Is(0), Is(One)>>, Male, FALSE, 1) EXCEPT !.recipe = "disjoint", !.integrals = 3,
        !.expressions = <<Is(0), Is(One), Male>>]>>

\* The other entry points, with expressions that reach the rest of the passes.
Of(recipe, e) == Job(recipe, <<e>>, "none", FALSE, NoInclude, 1)
Timeless(e) == [Of("value", e) EXCEPT !.exposure = [@ EXCEPT !.given = FALSE]]

Quarter == Half \div 2
NotWhole == Plain2("GE", Number1(6 * One + Quarter), Field(retired))
NoneOf == Call("%in%", <<Field(sex)>>)
EitherSex == Call("%in%", <<Field(sex), Lit("text", F), Lit("text", M)>>)
Stranger == Plain2("NE", Lit("text", U), Field(sex))
Served == Plain2("sub", Field(retired), Field(born))

Values1 ==
  <<Timeless(Early), Timeless(Plain2("LT", Number1(13 * Half), Field(retired))),
    Timeless(Plain2("GE", Field(tau), Number1(6 * One + Quarter))),
    Timeless(Field(gappy)), Timeless(Call("is_na", <<Number1(NaN)>>)),
    Timeless(Call("clamp", <<Field(pension), Number1(3 * One), Number1(4 * One)>>)),
    Timeless(Plain2("LT", Field(pension), Field(steady))), Timeless(Plain2("GT", Male, Number1(Half))),
    Timeless(NotWhole), Timeless(EitherSex), Timeless(NoneOf), Timeless(Stranger),
    Timeless(Pick(Early, Male, Field(pension))),
    Timeless(Pick(HasRetired, Field(retired), Field(tau))),
    Timeless(Plain2("rdiv", Field(steady), Plain2("sub", Field(pension), Number1(One)))),
    Timeless(Call("is_na", <<Served>>)), Timeless(Call("is_na", <<Field(gappy)>>)),
    Timeless(Call("is_na", <<Field(steady)>>)),
    Timeless(Plain2("add", Call("neg", <<Served>>), Plain2("max", Field(born), Field(nu)))),
    Timeless(Plain2("xor", Early, Plain2("or", Male, Plain2("and", Is(0), HasRetired)))),
    Timeless(Plain2("sub", Call("abs", <<Plain2("sub", Field(quality), Field(pension))>>),
                    Call("sign", <<Plain2("min", Field(member), Field(steady))>>))),
    Of("integrate", Pick(Male, Time, Field(born))),
    Of("integrate", Field(pension)),
    Of("integrate", Plain2("sub", Time, Pick(Male, Time, Field(born)))),
    Of("died_value", Plain2("mul", Is(One), Plain2("LE", Age, Number1(2 * One)))),
    Of("integrate", Plain2("mul", Plain2("mul", Field(pension), YearsOld), Plain2("mul", Male, Retired))),
    Of("integrate", Plain2("GE", Time, Number1(5 * One)))>>

OverTimePick == Pick(Retired, Number1(One), Number1(Half))
Wrong ==
  <<Aev(Field(sex), NoInclude, 0),
    Aev(Plain2("EQ", Lit("text", M), Lit("text", F)), NoInclude, 0),
    Aev(Plain2("and", Male, Field(pension)), NoInclude, 0),
    Aev(OverTimePick, NoInclude, 0),
    AevBy(Male, "relevance", Field(steady), 0),
    AevBy(Male, "distance", Call("neg", <<Field(steady)>>), 0),
    AevBy(Male, "relevance", Is(One), 0),
    Aev(Plain2("and", Retired, Male), NoInclude, 0),
    Aev(Male, Include(<<Gated(Retired)>>), 0),
    Aev(Male, Include(<<Gated(Field(pension))>>), 0),
    Aev(Male, Include(<<Around(Field(pension), 0, 1)>>), 0),
    Timeless(Retired), Of("value", Retired),
    Of("integrate", Call("vector_log_mu", <<Obj(1), Time>>))>>

\* A pension that is missing for some, and is not below zero where it is there.
NaNJobs ==
  <<Timeless(Plain2("GE", Plain2("max", Field(gappy), Number1(0)), Number1(0)))>>

MCJobs == Aevs \o Includes \o Fits \o Values1 \o Wrong
=============================================================================
