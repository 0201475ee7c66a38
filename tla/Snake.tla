-------------------------------- MODULE Snake --------------------------------
(***************************************************************************)
(* The snake game (logos/snake.c).  The array of segments is never         *)
(* cleared: a game starts with two segments of which only the head is set, *)
(* and a segment the snake grows by keeps what an earlier move, or an      *)
(* earlier game, left there until the next move.  The generator of the     *)
(* food's places is abstracted to any place.  The game polls the last key, *)
(* which stays what it is until another one is pressed.                    *)
(***************************************************************************)
EXTENDS Integers

CONSTANTS WIDTH, HEIGHT, MaxGames   \* MaxGames bounds the calls of run_snake_game

VARIABLES
    snake,          \* the array, its index from 0
    snake_length,
    food, dir,
    input,          \* the last key of the keyboard
    playing, games

vars == <<snake, snake_length, food, dir, input, playing, games>>

Point == (0 .. WIDTH - 1) \X (0 .. HEIGHT - 1)
Cells == WIDTH * HEIGHT
\* The keys that turn the snake, any that does not, and the one that quits.
Keys == {"w", "s", "a", "d", "other", "q"}

Init ==
    /\ snake = [i \in 0 .. Cells |-> <<0, 0>>] /\ snake_length = 0
    /\ food = <<0, 0>> /\ dir = "UP" /\ input = "other"
    /\ playing = FALSE /\ games = 0

press == \E key \in Keys : input' = key /\ UNCHANGED <<snake, snake_length, food, dir, playing, games>>

spawn_food == food' \in Point

init_game ==
    /\ ~playing /\ games < MaxGames
    /\ playing' = TRUE /\ games' = games + 1
    /\ snake' = [snake EXCEPT ![0] = <<WIDTH \div 2, HEIGHT \div 2>>]
    /\ snake_length' = 2 /\ dir' = "RIGHT" /\ spawn_food
    /\ UNCHANGED input

\* A turn by half is ignored.
Turn(d) ==
    CASE input = "w" /\ d # "DOWN" -> "UP"
      [] input = "s" /\ d # "UP" -> "DOWN"
      [] input = "a" /\ d # "RIGHT" -> "LEFT"
      [] input = "d" /\ d # "LEFT" -> "RIGHT"
      [] OTHER -> d

\* Mutant: the snake's own segments do not stop it.
Hits(p) == p \notin Point

Step(p, d) ==
    CASE d = "UP" -> <<p[1], p[2] - 1>>
      [] d = "DOWN" -> <<p[1], p[2] + 1>>
      [] d = "LEFT" -> <<p[1] - 1, p[2]>>
      [] d = "RIGHT" -> <<p[1] + 1, p[2]>>

Collides(p) == p \notin Point \/ \E i \in 0 .. snake_length - 1 : snake[i] = p

Over == playing' = FALSE /\ UNCHANGED <<snake, snake_length, food>>

update_game(head) ==
    IF Collides(head) THEN Over
    ELSE /\ snake' = [i \in DOMAIN snake |->
                        IF i = 0 THEN head
                        ELSE IF i < snake_length THEN snake[i - 1] ELSE snake[i]]
         /\ IF head = food
            THEN snake_length' = snake_length + 1 /\ spawn_food
            ELSE UNCHANGED <<snake_length, food>>
         /\ UNCHANGED playing

\* One round of run_snake_game.
run_snake_game ==
    /\ playing
    /\ dir' = Turn(dir)
    /\ IF input = "q" THEN Over ELSE update_game(Step(snake[0], dir'))
    /\ UNCHANGED <<input, games>>

Next == press \/ init_game \/ run_snake_game

Spec == Init /\ [][Next]_vars

-----------------------------------------------------------------------------
\* After any number of moves and games, what is left over in the array shows
\* in the last segment only: the others are different places on the board, each
\* next to the one before, so the snake outgrows the array by one at most.
SnakeIsAPath ==
    LET body == 0 .. snake_length - 2
        Adjacent(i) == \E d \in {"UP", "DOWN", "LEFT", "RIGHT"} : snake[i + 1] = Step(snake[i], d)
    IN  /\ \A i \in body : snake[i] \in Point /\ (i + 1 \in body => Adjacent(i))
        /\ \A i, j \in body : snake[i] = snake[j] => i = j
        /\ snake_length <= Cells + 1
=============================================================================
