SPECIFICATION Spec
CONSTANTS
    Off = Off
    news = news  chat = chat
    Loops = {news, chat}
    First = news
    Asked = {news}
    Interval = 5
    Timeout = 12
    PollTime = 4
    Latency = 3
    Heartbeats = TRUE
INVARIANTS TypeOK  Noticed
